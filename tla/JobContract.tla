---------------------------- MODULE JobContract -----------------------------
(***************************************************************************)
(* What the inference job owes the rest of the system for one execution:   *)
(* nothing is announced, then at most one result with a row per prompt,    *)
(* which stays as it is, and an exit that says success only if there is    *)
(* one.  An exception or a kill may come before or after the announcement. *)
(* BatchInfer implements it until a batch's script is run a second time.    *)
(***************************************************************************)
EXTENDS Naturals

CONSTANTS Batch, MaxPrompts

VARIABLES
  prompts,     \* prompts[b]: prompts in b's input
  announced,   \* announced[b]: the rows of the announced result, or Nothing
  verdict      \* verdict[b]: what has become of the process

contractVars == <<prompts, announced, verdict>>

Nothing == [there |-> FALSE, ok |-> 0, err |-> 0]
Result(o, e) == [there |-> TRUE, ok |-> o, err |-> e]

Init ==
  /\ prompts \in [Batch -> 0..MaxPrompts]
  /\ announced = [b \in Batch |-> Nothing]
  /\ verdict = [b \in Batch |-> "open"]

Announce(b) ==
  /\ verdict[b] = "open" /\ announced[b] = Nothing
  /\ \E o \in 0..prompts[b] :
       announced' = [announced EXCEPT ![b] = Result(o, prompts[b] - o)]
  /\ UNCHANGED <<prompts, verdict>>

End(b, v) ==
  /\ verdict[b] = "open"
  /\ v = "succeeded" => announced[b] # Nothing
  /\ verdict' = [verdict EXCEPT ![b] = v]
  /\ UNCHANGED <<prompts, announced>>

Next == \E b \in Batch : Announce(b) \/ \E v \in {"succeeded", "failed", "killed"} : End(b, v)

Spec == Init /\ [][Next]_contractVars

=============================================================================
