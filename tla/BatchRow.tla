------------------------------ MODULE BatchRow ------------------------------
(***************************************************************************)
(* One row of the batches table (db.py, class Batch) and the vocabulary of *)
(* statuses (models.py).  A session loads a row, changes attributes of the *)
(* loaded object and flushes, at commit, the attributes whose value is not *)
(* the loaded one.  A timestamp is abstracted to whether it is set, the    *)
(* error text to where it came from.                                       *)
(***************************************************************************)
EXTENDS Naturals

ActiveStatuses   == {"queued", "in_progress"}
TerminalStatuses == {"completed", "failed", "cancelled"}
BatchStatus      == ActiveStatuses \cup TerminalStatuses

\* Why a batch failed: the submission, what _FAILED says, or no _FAILED at all.
ErrorText == {"none", "submit", "marker", "no_marker"}

\* status = "absent" says that there is no such row.
RowOver(Count) ==
  [status          : BatchStatus \cup {"absent"},
   ray_job_id      : BOOLEAN,
   input_count     : Count,
   completed_count : Count,
   failed_count    : Count,
   error           : ErrorText,
   completed_at    : BOOLEAN]

NoRow == [status |-> "absent", ray_job_id |-> FALSE, input_count |-> 0,
          completed_count |-> 0, failed_count |-> 0, error |-> "none",
          completed_at |-> FALSE]

\* The row create_batch inserts for n prompts.
QueuedRow(n) == [NoRow EXCEPT !.status = "queued", !.input_count = n]

Exists(r)   == r.status # "absent"
Terminal(r) == r.status \in TerminalStatuses

Dirty(loaded, set, stored) == IF set = loaded THEN stored ELSE set

\* Mutant of Flush: every column of the object is written, changed or not.
WholeFlush(loaded, set, stored) == set

\* What the table holds after a session that loaded one row object and set
\* attributes of it commits over the stored row.
Flush(loaded, set, stored) ==
  [status          |-> Dirty(loaded.status, set.status, stored.status),
   ray_job_id      |-> Dirty(loaded.ray_job_id, set.ray_job_id, stored.ray_job_id),
   input_count     |-> Dirty(loaded.input_count, set.input_count, stored.input_count),
   completed_count |-> Dirty(loaded.completed_count, set.completed_count,
                             stored.completed_count),
   failed_count    |-> Dirty(loaded.failed_count, set.failed_count,
                             stored.failed_count),
   error           |-> Dirty(loaded.error, set.error, stored.error),
   completed_at    |-> Dirty(loaded.completed_at, set.completed_at,
                             stored.completed_at)]

=============================================================================
