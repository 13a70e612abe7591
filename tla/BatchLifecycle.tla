--------------------------- MODULE BatchLifecycle ---------------------------
(***************************************************************************)
(* What the API promises a client about one batch, whatever happens inside *)
(* (docs/ARCHITECTURE.md, the status endpoint and the results endpoint): a *)
(* batch appears as queued, may be in progress, ends once and for good in  *)
(* one terminal status, and offers results from the moment it is completed *)
(* on, always the same ones, with one row for each prompt it was given.    *)
(***************************************************************************)
EXTENDS Naturals

CONSTANTS Batch, MaxPrompts

VARIABLES
  status,      \* status[b]: what GET /v1/batches/{b} shows, "absent" for 404
  prompts,     \* prompts[b]: the input_count it shows
  results      \* results[b]: what GET .../results streams, NoResults for 409

lifeVars == <<status, prompts, results>>

NoResults == [state |-> "absent", ok |-> 0, err |-> 0]

Init ==
  /\ status  = [b \in Batch |-> "absent"]
  /\ prompts = [b \in Batch |-> 0]
  /\ results = [b \in Batch |-> NoResults]

Appear(b, n) ==
  /\ status[b] = "absent"
  /\ status'  = [status EXCEPT ![b] = "queued"]
  /\ prompts' = [prompts EXCEPT ![b] = n]
  /\ UNCHANGED results

Progress(b) ==
  /\ status[b] = "queued"
  /\ status' = [status EXCEPT ![b] = "in_progress"]
  /\ UNCHANGED <<prompts, results>>

Complete(b) ==
  /\ status[b] \in {"queued", "in_progress"}
  /\ status' = [status EXCEPT ![b] = "completed"]
  /\ \E o \in 0..prompts[b] :
       results' = [results EXCEPT ![b] =
         [state |-> "whole", ok |-> o, err |-> prompts[b] - o]]
  /\ UNCHANGED prompts

GiveUp(b, s) ==
  /\ status[b] \in {"queued", "in_progress"}
  /\ status' = [status EXCEPT ![b] = s]
  /\ UNCHANGED <<prompts, results>>

Next == \E b \in Batch :
  \/ \E n \in 1..MaxPrompts : Appear(b, n)
  \/ Progress(b)
  \/ Complete(b)
  \/ \E s \in {"failed", "cancelled"} : GiveUp(b, s)

Spec == Init /\ [][Next]_lifeVars

=============================================================================
