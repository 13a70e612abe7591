---------------------------- MODULE BatchService ----------------------------
(***************************************************************************)
(* The whole service: API pods with their request handlers and pollers     *)
(* (main.py, k8s/api/deployment.yaml), Postgres, the shared volume, the    *)
(* Ray cluster and the drivers it runs.  What may go wrong is a set of     *)
(* fault kinds, Faults, and a budget of MaxFaults occurrences: a system in *)
(* which something always fails again promises nothing.                    *)
(***************************************************************************)
EXTENDS StatusPoller

CONSTANTS
  Faults,      \* the kinds of fault that happen
  MaxFaults    \* how many of them happen

FaultKinds == {"rollout", "crash", "session", "commit", "refused", "lost_reply",
               "uncaught", "ask", "raise", "kill", "unstarted", "stop", "head"}

ASSUME FaultsAssumption == Faults \subseteq FaultKinds /\ MaxFaults \in Nat

VARIABLES
  pod,         \* pod[p]: up, draining (SIGTERM received) or down
  faults       \* faults that have happened

vars == <<disk, driver, ray, row, post, poller, counted, pod, faults>>

Strike(kind) ==
  /\ kind \in Faults
  /\ faults < MaxFaults
  /\ faults' = faults + 1

Init ==
  /\ disk = [b \in Batch |-> EmptyDir]
  /\ driver = [b \in Batch |-> IdleDriver]
  /\ RayInit /\ CreateInit /\ PollerInit
  /\ pod = [p \in Pod |-> "down"]
  /\ faults = 0

-----------------------------------------------------------------------------
(* Pods                                                                     *)

others == <<disk, driver, ray, row, counted>>

\* lifespan: engine, tables, Ray client, poller task; then requests are served.
Boot(p) ==
  /\ pod[p] = "down"
  /\ pod' = [pod EXCEPT ![p] = "up"]
  /\ poller' = [poller EXCEPT ![p] = Between("asleep", {})]
  /\ UNCHANGED <<others, post, faults>>

\* A rollout or a node drain ends the pod: it accepts no further request.
Drain(p) ==
  /\ pod[p] = "up"
  /\ pod' = [pod EXCEPT ![p] = "draining"]
  /\ UNCHANGED <<others, post, poller>>

\* _lifespan_shutdown, once the requests in flight have been answered: the
\* poller is cancelled at whichever await it is at, its session rolled back.
Shutdown(p) ==
  /\ pod[p] = "draining"
  /\ \A b \in Batch : post[b].pod = p => post[b].pc \notin InFlight
  /\ pod' = [pod EXCEPT ![p] = "down"]
  /\ poller' = [poller EXCEPT ![p] = Between("off", {})]
  /\ UNCHANGED <<others, post, faults>>

Crash(p) ==
  /\ pod[p] # "down"
  /\ pod' = [pod EXCEPT ![p] = "down"]
  /\ poller' = [poller EXCEPT ![p] = Between("off", {})]
  /\ LoseHandlers(p)
  /\ UNCHANGED others

-----------------------------------------------------------------------------
(* Next                                                                     *)

Request == \E b \in Batch, p \in Pod, n \in 1..MaxPrompts :
  pod[p] = "up" /\ Accept(b, p, n)

\* The steps nothing goes wrong in.
Handlers == Request \/ \E b \in Batch : CreateStep(b)
Pollers  == \E p \in Pod : PollStep(p)
Cluster  == \E b \in Batch : StartJob(b) \/ FinishJob(b) \/ (DriverStep(b) /\ UNCHANGED ray)

HandlerFault ==
  \/ Strike("session")    /\ \E b \in Batch : SessionRaises(b) \/ CommitUnheard(b)
  \/ Strike("refused")    /\ \E b \in Batch : SubmitFails(b, FALSE)
  \/ Strike("lost_reply") /\ \E b \in Batch : SubmitFails(b, TRUE)
  \/ Strike("uncaught")   /\ \E b \in Batch, a \in BOOLEAN : SubmitRaises(b, a)

PollerFault ==
  \/ Strike("ask")    /\ \E p \in Pod, b \in Batch : AskFails(p, b)
  \/ Strike("commit") /\ \E p \in Pod : CommitFails(p)

ClusterFault ==
  \/ Strike("raise")     /\ \E b \in Batch : Raise(b) /\ UNCHANGED ray
  \/ Strike("kill")      /\ \E b \in Batch : Kill(b) /\ UNCHANGED ray
  \/ Strike("unstarted") /\ \E b \in Batch : NeverStarts(b)
  \/ Strike("stop")      /\ \E b \in Batch : StopJob(b)
  \/ Strike("head")      /\ HeadRestart

PodFault ==
  \/ Strike("rollout") /\ \E p \in Pod : Drain(p)
  \/ Strike("crash")   /\ \E p \in Pod : Crash(p)

Next ==
  \/ Handlers /\ UNCHANGED <<poller, counted, pod, faults>>
  \/ HandlerFault /\ UNCHANGED <<poller, counted, pod>>
  \/ Pollers /\ UNCHANGED <<pod, faults>>
  \/ PollerFault /\ UNCHANGED pod
  \/ Cluster /\ UNCHANGED <<row, post, poller, counted, pod, faults>>
  \/ ClusterFault /\ UNCHANGED <<row, post, poller, counted, pod>>
  \/ \E p \in Pod : Boot(p) \/ Shutdown(p)
  \/ PodFault

Spec == Init /\ [][Next]_vars

(***************************************************************************)
(* Fairness.  A pod that is up runs its event loop, so each handler and    *)
(* the poller task go on; Kubernetes restarts a pod that is down and its   *)
(* grace period ends a draining one; Ray schedules a pending job, its      *)
(* driver runs to an end and its supervisor reports it.  No fault is fair, *)
(* and no request has to arrive.                                           *)
(***************************************************************************)
Quiet == <<pod, faults>>

Fairness ==
  /\ \A p \in Pod : /\ WF_vars(PollStep(p) /\ UNCHANGED Quiet)
                   /\ WF_vars(Boot(p))
                   /\ WF_vars(Shutdown(p))
  /\ \A b \in Batch :
       /\ WF_vars(CreateStep(b) /\ UNCHANGED <<poller, counted, pod, faults>>)
       /\ WF_vars((StartJob(b) \/ FinishJob(b) \/ (DriverStep(b) /\ UNCHANGED ray))
                    /\ UNCHANGED <<row, post, poller, counted, pod, faults>>)

FairSpec == Spec /\ Fairness

-----------------------------------------------------------------------------
(* Properties                                                               *)

\* Every variable holds what its component can hold; the constituents' own
\* type invariants, the pods' states and the fault budget.
TypeOK ==
  /\ InferTypeOK /\ RayTypeOK /\ CreateTypeOK /\ PollerTypeOK
  /\ pod \in [Pod -> {"up", "draining", "down"}]
  /\ faults \in 0..MaxFaults

\* A row that says completed keeps its promise to the results endpoint
\* (get_batch_results answers 200, never the 500 of batches.py:280): the results
\* are there, with a row for each of the input_count prompts, and the counts the
\* poller copied from the marker are the counts of that file.
Delivered(b) ==
  /\ Complete(disk[b].results, row[b].input_count)
  /\ row[b].completed_count = disk[b].results.ok
  /\ row[b].failed_count = disk[b].results.err

CompletedMeansDelivered ==
  \A b \in Batch : row[b].status = "completed" => Delivered(b)

\* A terminal status is Ray's own verdict on the batch's job, however old the
\* answer a poller acted on, and however many pollers there are; only a cluster
\* that lost its job table has no verdict any more.
VerdictIsRays ==
  \A b \in Batch : Terminal(row[b]) /\ row[b].ray_job_id =>
    ray[b] = "UNKNOWN" \/ row[b].status = MapStatus(ray[b])

\* The row create_batch leaves of n prompts it could not submit.
RefusedRow(n) == [QueuedRow(n) EXCEPT !.status = "failed", !.error = "submit",
                                      !.completed_at = TRUE]

\* A row nobody has attached a job to is its creator's alone, wherever a crash, a
\* failed session or a commit without an acknowledgement left the handler: it is as
\* it was inserted, or failed with the submission's error as a whole, by a handler
\* that is past its submission and has not answered 200.  No sweep ever touches it,
\* though the job may run.
UnattachedIsCreators ==
  \A b \in Batch : Exists(row[b]) /\ ~row[b].ray_job_id =>
    \/ row[b] = QueuedRow(disk[b].input)
    \/ /\ row[b] = RefusedRow(disk[b].input)
       /\ post[b].pc \in {"refuse", "unavailable", "error", "lost"}

\* Ray is never handed a job whose row is not committed or whose input is not
\* on the volume: the driver finds input.jsonl, the poller finds the row.
JobHasRowAndInput ==
  \A b \in Batch : ray[b] # "UNKNOWN" =>
    Exists(row[b]) /\ disk[b].input > 0 /\ row[b].input_count = disk[b].input

\* The answer the client got is borne out by the table: 200 only for a row with
\* its job id, which a poller will follow up; 503 only for a row that is failed
\* and stays so.
ReplyIsKept ==
  \A b \in Batch :
    /\ post[b].pc = "ok" => row[b].ray_job_id
    /\ post[b].pc = "unavailable" => row[b].status = "failed" /\ ~row[b].ray_job_id

\* completed_at and the terminal statuses are set together, also though a session
\* writes only the columns it changed.
EndIsTimed == \A b \in Batch : row[b].completed_at <=> Terminal(row[b])

\* A terminal status is final (ARCHITECTURE.md, the state diagram): no step
\* changes it.
TerminalIsFinal ==
  [][\A b \in Batch : Terminal(row[b]) => row'[b].status = row[b].status]_vars

\* What is left of that when pollers overlap: a stale commit may take a batch out of
\* its end (batches.py:414 reads no terminal status), but whatever it shows then, it
\* never ends another way. A client that has seen how a batch ended need not look
\* again, also after Ray has forgotten the job.
EndIsNeverRevised ==
  \A b \in Batch, s \in TerminalStatuses :
    [](row[b].status = s => [](Terminal(row[b]) => row[b].status = s))

\* A batch that the poller ended was counted by batch_terminal_total, although the
\* increment and the commit are two steps and only the commit can be undone: a row
\* never shows an end that the metric has not seen (batches.py:430, 446).
PolledIsCounted ==
  \A b \in Batch : Terminal(row[b]) /\ row[b].ray_job_id => counted[b] > 0

\* Nobody can tell any more how the job ended: Ray lost it, or its driver was
\* killed, or raised again, while writing _FAILED.
Unreportable(b) ==
  ray[b] = "UNKNOWN" \/ (ray[b] = "FAILED" /\ IsTorn(disk[b].failure))

\* A batch the client got 200 for ends in a terminal status and stays there,
\* through crashes, rollouts, lost answers and overlapping pollers, unless
\* nobody can tell how its job ended.  Other batches' failures do not hold it up.
AcceptedSettles ==
  \A b \in Batch : post[b].pc = "ok" ~> [](Terminal(row[b]) \/ Unreportable(b))

\* A pass over a queued row without a job id is made up for by the next pass
\* (batches.py:358-360): the row does not stay queued for ever.
SkippedIsCaughtUp ==
  \A b \in Batch : Exists(row[b]) /\ ~row[b].ray_job_id
                     ~> row[b].ray_job_id \/ Terminal(row[b])

\* A job that Ray reports as failed ends as a failed batch (ray error or worker
\* crash, TECHNICAL_REPORT.md:300).
FailureIsReported ==
  \A b \in Batch : ray[b] = "FAILED" /\ row[b].ray_job_id ~> row[b].status = "failed"

-----------------------------------------------------------------------------
(* What a client sees, as an instance of the abstract lifecycle.  The results *)
(* endpoint shows the file of a completed batch and nothing otherwise.        *)

GetStatus(b) == row[b].status

GetResults(b) ==
  IF row[b].status = "completed"
  THEN [state |-> disk[b].results.state, ok |-> disk[b].results.ok,
        err |-> disk[b].results.err]
  ELSE [state |-> "absent", ok |-> 0, err |-> 0]

Promised == INSTANCE BatchLifecycle WITH
  status  <- [b \in Batch |-> GetStatus(b)],
  prompts <- [b \in Batch |-> row[b].input_count],
  results <- [b \in Batch |-> GetResults(b)]

\* With one pod the service implements the lifecycle a client is promised.
LifecycleKept == Promised!Spec

\* A row keeps how its batch ended, whatever a stale commit makes of its status:
\* completed_at says that it did, the error and the counts say how.
EndOf(r) ==
  CASE ~r.completed_at                         -> "open"
    [] r.completed_at /\ r.error # "none"      -> "failed"
    [] r.completed_at /\ r.error = "none"      ->
         IF r.completed_count + r.failed_count > 0 THEN "completed" ELSE "cancelled"

EndShown(r) ==
  [status  |-> EndOf(r),
   results |-> IF EndOf(r) = "completed"
               THEN [state |-> "whole", ok |-> r.completed_count, err |-> r.failed_count]
               ELSE [state |-> "absent", ok |-> 0, err |-> 0]]

Overlapping == INSTANCE OverlapLifecycle WITH
  status  <- [b \in Batch |-> GetStatus(b)],
  prompts <- [b \in Batch |-> row[b].input_count],
  results <- [b \in Batch |-> GetResults(b)],
  end     <- [b \in Batch |-> EndShown(row[b])]

\* However many pods there are, the client of a batch sees one end and one result:
\* stale answers only take them away for a while.
OverlapKept == Overlapping!Spec

=============================================================================
