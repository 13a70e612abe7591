--------------------------- MODULE MCBatchService ---------------------------
(* Fault sets and initial states for the runs of BatchService.  The .cfg    *)
(* files give every other constant its value.                               *)
EXTENDS BatchService

AllFaults == FaultKinds

\* One of the batches is out of the ordinary in each of the states the liveness run
\* starts from.
Odd == CHOOSE b \in Batch : TRUE

First == CHOOSE p \in Pod : TRUE

\* One pod is up, its poller asleep throughout; it has answered every batch.
OnePodUp(reply) ==
  /\ post = [b \in Batch |-> [pc |-> reply[b],
                              pod |-> IF reply[b] = "idle" THEN None ELSE First]]
  /\ pod = [p \in Pod |-> IF p = First THEN "up" ELSE "down"]
  /\ poller = [p \in Pod |-> Between(IF p = First THEN "asleep" ELSE "off", {})]
  /\ counted = [b \in Batch |-> 0]

\* Reachable with three faults, the raise, the kill and a rollout before: every batch
\* was accepted; the odd one's job raised and was killed while it wrote _FAILED, and
\* Ray has not reported it; the others are pending.
PoisonedInit ==
  /\ disk = [b \in Batch |->
       [EmptyDir EXCEPT !.input = MaxPrompts,
                        !.failure = IF b = Odd THEN Torn(1) ELSE Absent]]
  /\ driver = [b \in Batch |-> IF b = Odd THEN [IdleDriver EXCEPT !.pc = "killed", !.run = 1]
                               ELSE IdleDriver]
  /\ ray = [b \in Batch |-> IF b = Odd THEN "RUNNING" ELSE "PENDING"]
  /\ row = [b \in Batch |-> [QueuedRow(MaxPrompts) EXCEPT !.ray_job_id = TRUE]]
  /\ OnePodUp([b \in Batch |-> "ok"])
  /\ faults = 3

\* Reachable with two faults, a rollout and a session: the odd batch's insert failed
\* and its client got 500; the others are still to come.
OverlapInit ==
  /\ disk = [b \in Batch |-> IF b = Odd THEN [EmptyDir EXCEPT !.input = MaxPrompts]
                             ELSE EmptyDir]
  /\ driver = [b \in Batch |-> IdleDriver]
  /\ RayInit
  /\ row = [b \in Batch |-> NoRow]
  /\ OnePodUp([b \in Batch |-> IF b = Odd THEN "error" ELSE "idle"])
  /\ faults = 2

LiveSpec == (PoisonedInit \/ OverlapInit) /\ [][Next]_vars /\ Fairness

=============================================================================
