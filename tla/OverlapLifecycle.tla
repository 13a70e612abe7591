-------------------------- MODULE OverlapLifecycle ---------------------------
(***************************************************************************)
(* What is left of BatchLifecycle for a client while two pods overlap, be  *)
(* it in a rollout or by scale: a batch may go back in what it shows, from *)
(* in_progress to queued and even from its end, when its results are       *)
(* refused again; but it ends in one way only, and whenever it shows its   *)
(* end it offers the results it offered first.                             *)
(***************************************************************************)
EXTENDS Naturals

CONSTANTS Batch, MaxPrompts

VARIABLES
  status,      \* status[b]: what GET /v1/batches/{b} shows, "absent" for 404
  prompts,     \* prompts[b]: the input_count it shows
  results,     \* results[b]: what GET .../results streams, NoResults for 409
  end          \* end[b]: how b ended, with its results, from then on

overlapVars == <<status, prompts, results, end>>

NoResults == [state |-> "absent", ok |-> 0, err |-> 0]

Whole(o, e) == [state |-> "whole", ok |-> o, err |-> e]

Open == [status |-> "open", results |-> NoResults]

Init ==
  /\ status  = [b \in Batch |-> "absent"]
  /\ prompts = [b \in Batch |-> 0]
  /\ results = [b \in Batch |-> NoResults]
  /\ end     = [b \in Batch |-> Open]

Appear(b, n) ==
  /\ status[b] = "absent"
  /\ status'  = [status EXCEPT ![b] = "queued"]
  /\ prompts' = [prompts EXCEPT ![b] = n]
  /\ UNCHANGED <<results, end>>

\* Progress, or an answer that was overtaken.
GoOn(b, s) ==
  /\ status[b] # "absent"
  /\ status'  = [status EXCEPT ![b] = s]
  /\ results' = [results EXCEPT ![b] = NoResults]
  /\ UNCHANGED <<prompts, end>>

ShowEnd(b, e) ==
  /\ status'  = [status EXCEPT ![b] = e.status]
  /\ results' = [results EXCEPT ![b] = e.results]
  /\ end'     = [end EXCEPT ![b] = e]
  /\ UNCHANGED prompts

Complete(b) ==
  /\ status[b] # "absent" /\ end[b] = Open
  /\ \E o \in 0..prompts[b] :
       ShowEnd(b, [status |-> "completed", results |-> Whole(o, prompts[b] - o)])

GiveUp(b, s) ==
  /\ status[b] # "absent" /\ end[b] = Open
  /\ ShowEnd(b, [status |-> s, results |-> NoResults])

ComeBack(b) == end[b] # Open /\ ShowEnd(b, end[b])

Next == \E b \in Batch :
  \/ \E n \in 1..MaxPrompts : Appear(b, n)
  \/ \E s \in {"queued", "in_progress"} : GoOn(b, s)
  \/ Complete(b)
  \/ \E s \in {"failed", "cancelled"} : GiveUp(b, s)
  \/ ComeBack(b)

Spec == Init /\ [][Next]_overlapVars

=============================================================================
