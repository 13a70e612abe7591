------------------------------ MODULE RayJobs -------------------------------
(***************************************************************************)
(* The Ray cluster as the API server sees it: the job table behind         *)
(* submit_job and get_job_status, and the driver process each job runs.    *)
(* Ray itself is not in the repository; this is what ray_client.py, the    *)
(* tests and the manifests rely on.                                        *)
(***************************************************************************)
EXTENDS BatchInfer

VARIABLE ray   \* ray[b]: the status of the job submitted for b

JobStatus == {"PENDING", "RUNNING", "SUCCEEDED", "FAILED", "STOPPED"}

\* "UNKNOWN": there is no job of that id, and get_job_status raises.
RayTypeOK == ray \in [Batch -> JobStatus \cup {"UNKNOWN"}]

\* Mutant of MapStatus: Ray's own word is passed on.
RawStatus(s) == s

\* ray_client.map_status: what is not in the table counts as failed.
MapStatus(s) ==
  CASE s = "PENDING"   -> "queued"
    [] s = "RUNNING"   -> "in_progress"
    [] s = "SUCCEEDED" -> "completed"
    [] s = "STOPPED"   -> "cancelled"
    [] OTHER           -> "failed"

RayInit == ray = [b \in Batch |-> "UNKNOWN"]

\* The supervisor of the job starts its driver: python batch_infer.py.
StartJob(b) ==
  /\ ray[b] = "PENDING"
  /\ Start(b)
  /\ ray' = [ray EXCEPT ![b] = "RUNNING"]

\* The supervisor reports the exit of the driver, some time after it.
FinishJob(b) ==
  /\ ray[b] = "RUNNING"
  /\ driver[b].pc \in Ended
  /\ ray' = [ray EXCEPT ![b] = IF driver[b].pc = "exit0" THEN "SUCCEEDED" ELSE "FAILED"]
  /\ UNCHANGED inferVars

\* The job cannot be started (its runtime environment, its resources).
NeverStarts(b) ==
  /\ ray[b] = "PENDING"
  /\ ray' = [ray EXCEPT ![b] = "FAILED"]
  /\ UNCHANGED inferVars

KillDriver(d) == IF d.pc \in Running THEN [d EXCEPT !.pc = "killed"] ELSE d

\* Somebody stops the job through Ray; the API has no call for it.
StopJob(b) ==
  /\ ray[b] \in {"PENDING", "RUNNING"}
  /\ ray' = [ray EXCEPT ![b] = "STOPPED"]
  /\ driver' = [driver EXCEPT ![b] = KillDriver(@)]
  /\ UNCHANGED disk

\* The head pod restarts: its job table is in memory only, the drivers run on it.
HeadRestart ==
  /\ \E b \in Batch : ray[b] # "UNKNOWN"
  /\ ray' = [b \in Batch |-> "UNKNOWN"]
  /\ driver' = [b \in Batch |-> KillDriver(driver[b])]
  /\ UNCHANGED disk

=============================================================================
