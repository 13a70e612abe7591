---------------------------- MODULE CreateBatch -----------------------------
(***************************************************************************)
(* POST /v1/batches (routes/batches.py, create_batch), one request per     *)
(* batch id: ids are ULIDs and never meet.  The handler is a coroutine of  *)
(* the pod that received the request; every await that reaches the volume, *)
(* the database or Ray ends a step, where other coroutines and other pods  *)
(* may run, or the pod may die.                                            *)
(*                                                                         *)
(* Until its ray_job_id is set no poller updates the row, so the sessions  *)
(* of this handler (load and commit) are one step each; what follows the   *)
(* commit, the reply above all, is another.                                *)
(***************************************************************************)
EXTENDS RayJobs, BatchRow

CONSTANTS
  Pod,         \* API server pods
  None         \* no batch, no pod

ASSUME NoneAssumption == None \notin Batch \cup Pod

VARIABLES
  row,         \* row[b]: the row of b in Postgres
  post         \* post[b]: the handler of the request that created b

Row == RowOver(0..MaxPrompts)

InFlight == {"insert", "submit", "mark", "refuse", "attach", "read"}
\* What the client learned: 200, 503, 500, or nothing because the pod died.
Replied  == {"ok", "unavailable", "error", "lost"}

Handler == [pc : InFlight \cup Replied \cup {"idle"}, pod : Pod \cup {None}]

CreateTypeOK ==
  /\ row  \in [Batch -> Row]
  /\ post \in [Batch -> Handler]

CreateInit ==
  /\ row  = [b \in Batch |-> NoRow]
  /\ post = [b \in Batch |-> [pc |-> "idle", pod |-> None]]

\* The handler of b goes on: from is where it was, to where it goes.
Advance(b, from, to) ==
  /\ post[b].pc = from
  /\ post' = [post EXCEPT ![b].pc = to]

-----------------------------------------------------------------------------

\* Mutant of Accept: input.jsonl is left for a background task to write.
LateAccept(b, p, n) ==
  /\ post[b].pc = "idle"
  /\ post' = [post EXCEPT ![b] = [pc |-> "insert", pod |-> p]]
  /\ UNCHANGED <<disk, driver, ray, row>>

\* A validated request of n prompts reaches pod p, which writes input.jsonl.
Accept(b, p, n) ==
  /\ post[b].pc = "idle"
  /\ post' = [post EXCEPT ![b] = [pc |-> "insert", pod |-> p]]
  /\ disk' = [disk EXCEPT ![b].input = n]
  /\ UNCHANGED <<driver, ray, row>>

InsertRow(b) == row' = [row EXCEPT ![b] = QueuedRow(disk[b].input)]

\* The row is committed in status queued, without a ray_job_id.
Insert(b) ==
  /\ Advance(b, "insert", "submit")
  /\ InsertRow(b)
  /\ UNCHANGED <<disk, driver, ray>>

\* Mutant of Submit: the id of the job is attached by a later request.
ForgetfulSubmit(b) ==
  /\ Advance(b, "submit", "read")
  /\ ray' = [ray EXCEPT ![b] = "PENDING"]
  /\ UNCHANGED <<disk, driver, row>>

Submit(b) ==
  /\ Advance(b, "submit", "attach")
  /\ ray' = [ray EXCEPT ![b] = "PENDING"]
  /\ UNCHANGED <<disk, driver, row>>

\* submit_job raises ConnectionError or RuntimeError; when only the answer was
\* lost the job exists all the same.
SubmitFails(b, accepted) ==
  /\ Advance(b, "submit", "mark")
  /\ ray' = IF accepted THEN [ray EXCEPT ![b] = "PENDING"] ELSE ray
  /\ UNCHANGED <<disk, driver, row>>

\* Any other exception (a requests timeout, say) leaves the handler: 500.
SubmitRaises(b, accepted) ==
  /\ Advance(b, "submit", "error")
  /\ ray' = IF accepted THEN [ray EXCEPT ![b] = "PENDING"] ELSE ray
  /\ UNCHANGED <<disk, driver, row>>

\* Mutant of MarkFailed: completed_at is not set.
UntimedMarkFailed(b) ==
  /\ Advance(b, "mark", "refuse")
  /\ row' = [row EXCEPT ![b].status = "failed", ![b].error = "submit"]
  /\ UNCHANGED <<disk, driver, ray>>

FailRow(b) == row' = [row EXCEPT ![b].status = "failed", ![b].error = "submit",
                                 ![b].completed_at = TRUE]

\* _mark_failed.
MarkFailed(b) ==
  /\ Advance(b, "mark", "refuse")
  /\ FailRow(b)
  /\ UNCHANGED <<disk, driver, ray>>

\* Its session has been closed and 503 is sent.
Refuse(b) ==
  /\ Advance(b, "refuse", "unavailable")
  /\ UNCHANGED <<disk, driver, ray, row>>

AttachJob(b) == row' = [row EXCEPT ![b].ray_job_id = TRUE]

\* _attach_ray_job_id.
Attach(b) ==
  /\ Advance(b, "attach", "read")
  /\ AttachJob(b)
  /\ UNCHANGED <<disk, driver, ray>>

\* Mutant of Respond: the object created at the insert is saved once more.
SavingRespond(b) ==
  /\ Advance(b, "read", "ok")
  /\ row' = [row EXCEPT ![b].status = "queued"]
  /\ UNCHANGED <<disk, driver, ray>>

\* The fresh read, and 200 with the object built from it.
Respond(b) ==
  /\ Advance(b, "read", "ok")
  /\ UNCHANGED <<disk, driver, ray, row>>

\* A session cannot reach Postgres or its commit is refused: 500, nothing is undone.
SessionRaises(b) ==
  /\ post[b].pc \in {"insert", "mark", "attach", "read"}
  /\ post' = [post EXCEPT ![b].pc = "error"]
  /\ UNCHANGED <<disk, driver, ray, row>>

\* Postgres commits and the acknowledgement is lost: session.commit() raises, the
\* handler answers 500 as before, and the row is written all the same.
CommitUnheard(b) ==
  /\ \/ post[b].pc = "insert" /\ InsertRow(b)
     \/ post[b].pc = "mark"   /\ FailRow(b)
     \/ post[b].pc = "attach" /\ AttachJob(b)
  /\ post' = [post EXCEPT ![b].pc = "error"]
  /\ UNCHANGED <<disk, driver, ray>>

\* Every handler running in pod p ends with it.
LoseHandlers(p) ==
  post' = [b \in Batch |->
            IF post[b].pod = p /\ post[b].pc \in InFlight
            THEN [post[b] EXCEPT !.pc = "lost"] ELSE post[b]]

CreateStep(b) ==
  \/ Insert(b)     \/ Submit(b) \/ MarkFailed(b)
  \/ Refuse(b)     \/ Attach(b) \/ Respond(b)

=============================================================================
