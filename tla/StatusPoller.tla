---------------------------- MODULE StatusPoller ----------------------------
(***************************************************************************)
(* The background status poller (routes/batches.py, poll_active_batches):  *)
(* one task per pod, so two of them run while a rollout overlaps.  A sweep *)
(* takes a snapshot of the active rows and handles them one by one; for    *)
(* each it awaits Ray's answer, opens a session that loads the row, and    *)
(* commits.  Rows, jobs and markers may change between these steps; what   *)
(* the poller holds does not.                                              *)
(***************************************************************************)
EXTENDS CreateBatch

VARIABLES
  poller,      \* poller[p]: the poller task of pod p
  counted      \* counted[b]: batch_terminal_total increments made for b, up to MaxCount

\* Two increments are told from one, and not from three.
MaxCount == 2

\* todo: batches of the snapshot still to handle; cur: the one being handled;
\* seen: Ray's answer for it; loaded, set: the row object of the open session
\* as it was loaded and as it is now.
Poller == [pc     : {"off", "asleep", "sweep", "asked", "loaded"},
           todo   : SUBSET Batch,
           cur    : Batch \cup {None},
           seen   : BatchStatus \cup {"absent"},
           loaded : Row,
           set    : Row]

Between(pc, todo) == [pc |-> pc, todo |-> todo, cur |-> None, seen |-> "absent",
                      loaded |-> NoRow, set |-> NoRow]

Holding == {"asked", "loaded"}

PollerTypeOK ==
  /\ poller  \in [Pod -> Poller]
  /\ \A p \in Pod : poller[p].pc \in Holding =>
       poller[p].cur \in Batch /\ poller[p].seen \in BatchStatus
  /\ counted \in [Batch -> 0..MaxCount]

PollerInit ==
  /\ poller  = [p \in Pod |-> Between("off", {})]
  /\ counted = [b \in Batch |-> 0]

pollerLeaves == <<disk, driver, ray, post>>

-----------------------------------------------------------------------------

\* Mutant of Listed: a row without a ray_job_id is not skipped.
ListedUnattached(b) == row[b].status \in ActiveStatuses

\* list_active_batches, less the rows the sweep skips for want of a ray_job_id.
Listed(b) == row[b].status \in ActiveStatuses /\ row[b].ray_job_id

Sweep(p) ==
  /\ poller[p].pc = "asleep"
  /\ poller' = [poller EXCEPT ![p] = Between("sweep", {b \in Batch : Listed(b)})]
  /\ UNCHANGED <<pollerLeaves, row, counted>>

\* The sweep is over and the loop sleeps for its interval.
Sleep(p) ==
  /\ poller[p].pc = "sweep"
  /\ poller[p].todo = {}
  /\ poller' = [poller EXCEPT ![p] = Between("asleep", {})]
  /\ UNCHANGED <<pollerLeaves, row, counted>>

\* The batch the poller is at is done with, or its exception was swallowed.
Skip(p, b) == poller' = [poller EXCEPT ![p] = Between("sweep", poller[p].todo \ {b})]

\* Mutant of Ask: a _SUCCESS on the volume spares the call.
AskTheMarker(p, b) ==
  /\ poller[p].pc = "sweep"
  /\ b \in poller[p].todo
  /\ ray[b] # "UNKNOWN"
  /\ poller' = [poller EXCEPT ![p].pc = "asked", ![p].cur = b,
                   ![p].seen = IF IsWhole(disk[b].success) THEN "completed"
                               ELSE MapStatus(ray[b])]
  /\ UNCHANGED <<pollerLeaves, row, counted>>

\* Mutant of Ask: a job Ray does not know has failed, as map_status would have it.
AskTheForgetful(p, b) ==
  /\ poller[p].pc = "sweep"
  /\ b \in poller[p].todo
  /\ poller' = [poller EXCEPT ![p].pc = "asked", ![p].cur = b,
                              ![p].seen = MapStatus(ray[b])]
  /\ UNCHANGED <<pollerLeaves, row, counted>>

\* get_status of one batch of the snapshot; rows come in no particular order.
Ask(p, b) ==
  /\ poller[p].pc = "sweep"
  /\ b \in poller[p].todo
  /\ ray[b] # "UNKNOWN"
  /\ poller' = [poller EXCEPT ![p].pc = "asked", ![p].cur = b,
                              ![p].seen = MapStatus(ray[b])]
  /\ UNCHANGED <<pollerLeaves, row, counted>>

\* get_status raises: Ray does not know the job, or cannot be reached.
AskFails(p, b) ==
  /\ poller[p].pc = "sweep"
  /\ b \in poller[p].todo
  /\ Skip(p, b)
  /\ UNCHANGED <<pollerLeaves, row, counted>>

JobUnknown(p, b) == ray[b] = "UNKNOWN" /\ AskFails(p, b)

\* The marker that goes with the answer.
Marker(b, s) ==
  CASE s = "completed" -> disk[b].success
    [] s = "failed"    -> disk[b].failure
    [] OTHER           -> Absent

\* Mutant of Update: the success marker is not opened.
UnreadUpdate(r, s, m) ==
  CASE s \in ActiveStatuses -> [r EXCEPT !.status = s]
    [] s = "completed" -> [r EXCEPT !.status = s, !.completed_count = r.input_count,
                             !.failed_count = 0, !.completed_at = TRUE]
    [] s = "failed" -> [r EXCEPT !.status = s, !.completed_at = TRUE,
                          !.error = IF m.state = "absent" THEN "no_marker" ELSE "marker"]
    [] OTHER -> [r EXCEPT !.status = s, !.error = "none", !.completed_at = TRUE]

\* The assignments of _update_status_only, _apply_success and _apply_terminal,
\* for answer s and marker m.
Update(r, s, m) ==
  CASE s \in ActiveStatuses -> [r EXCEPT !.status = s]
    [] s = "completed" ->
         [r EXCEPT !.status = s, !.completed_at = TRUE,
            !.completed_count = IF m.state = "absent" THEN r.input_count ELSE m.ok,
            !.failed_count    = IF m.state = "absent" THEN 0 ELSE m.err]
    [] s = "failed" ->
         [r EXCEPT !.status = s, !.completed_at = TRUE,
            !.error = IF m.state = "absent" THEN "no_marker" ELSE "marker"]
    [] OTHER -> [r EXCEPT !.status = s, !.error = "none", !.completed_at = TRUE]

\* Mutant of MarkerUnreadable: the exception ends the whole sweep.
UnreadableEndsSweep(p) ==
  /\ poller[p].pc = "asked"
  /\ IsTorn(Marker(poller[p].cur, poller[p].seen))
  /\ poller' = [poller EXCEPT ![p] = Between("asleep", {})]
  /\ UNCHANGED <<pollerLeaves, row, counted>>

\* json.loads raises on a marker that was cut short.
MarkerUnreadable(p) ==
  /\ poller[p].pc = "asked"
  /\ IsTorn(Marker(poller[p].cur, poller[p].seen))
  /\ Skip(p, poller[p].cur)
  /\ UNCHANGED <<pollerLeaves, row, counted>>

\* _update_status_only returns early: the row says so already.
NothingNew(p) ==
  /\ poller[p].pc = "asked"
  /\ poller[p].seen \in ActiveStatuses
  /\ row[poller[p].cur].status = poller[p].seen
  /\ Skip(p, poller[p].cur)
  /\ UNCHANGED <<pollerLeaves, row, counted>>

\* Mutant of Load: _apply_terminal forgets the metric.
CountCompletedLoad(p) ==
  LET b == poller[p].cur
      s == poller[p].seen
  IN  /\ poller[p].pc = "asked"
      /\ ~IsTorn(Marker(b, s))
      /\ s \in ActiveStatuses => row[b].status # s
      /\ poller' = [poller EXCEPT ![p].pc = "loaded", ![p].loaded = row[b],
                                  ![p].set = Update(row[b], s, Marker(b, s))]
      /\ counted' = IF s = "completed" /\ counted[b] < MaxCount
                    THEN [counted EXCEPT ![b] = @ + 1] ELSE counted
      /\ UNCHANGED <<pollerLeaves, row>>

\* The session loads the row and sets its attributes; the metric of a terminal
\* status is incremented before the commit.
Load(p) ==
  LET b == poller[p].cur
      s == poller[p].seen
  IN  /\ poller[p].pc = "asked"
      /\ ~IsTorn(Marker(b, s))
      /\ s \in ActiveStatuses => row[b].status # s
      /\ poller' = [poller EXCEPT ![p].pc = "loaded", ![p].loaded = row[b],
                                  ![p].set = Update(row[b], s, Marker(b, s))]
      /\ counted' = IF s \in TerminalStatuses /\ counted[b] < MaxCount
                    THEN [counted EXCEPT ![b] = @ + 1] ELSE counted
      /\ UNCHANGED <<pollerLeaves, row>>

Commit(p) ==
  LET b == poller[p].cur
  IN  /\ poller[p].pc = "loaded"
      /\ row' = [row EXCEPT ![b] = Flush(poller[p].loaded, poller[p].set, @)]
      /\ Skip(p, b)
      /\ UNCHANGED <<pollerLeaves, counted>>

\* The commit fails and is rolled back.  (One that fails although it took effect is
\* Commit: the sweep only logs the exception.)
CommitFails(p) ==
  /\ poller[p].pc = "loaded"
  /\ Skip(p, poller[p].cur)
  /\ UNCHANGED <<pollerLeaves, row, counted>>

PollStep(p) ==
  \/ Sweep(p) \/ Sleep(p)
  \/ \E b \in Batch : Ask(p, b) \/ JobUnknown(p, b)
  \/ MarkerUnreadable(p) \/ NothingNew(p) \/ Load(p) \/ Commit(p)

=============================================================================
