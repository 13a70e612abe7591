------------------------ MODULE ResultsStreamProofs -------------------------
(***************************************************************************)
(* The results a client is sent, for any number of pods, batches, prompts  *)
(* and executions by hand: a stream that ends is one execution's result,   *)
(* and no body is promised that is not there.                              *)
(***************************************************************************)
EXTENDS ResultsStream, OnePodProofs

(***************************************************************************)
(* The inductive invariant.  A re-run breaks what BatchService's invariant *)
(* says of a driver that has run once; what is left of it is what the      *)
(* handlers and pollers keep among themselves (OwnInv), the first          *)
(* execution's own description, and that a result once published is only   *)
(* ever replaced by another one.                                           *)
(***************************************************************************)

\* What may stand in place of the results of n prompts: a complete file, or one cut
\* short by the death of an execution after the first and before k.
Publishable(f, n, k) ==
  \/ Complete(f, n)
  \/ IsTorn(f) /\ f.run \in 2..(k - 1) /\ f.ok + f.err <= n

\* The first execution has exited 0, whatever the later ones have done since.
Published(b) ==
  LET d   == disk[b]
      pc  == driver[b].pc
      run == driver[b].run
  IN  /\ run > 0
      /\ run = 1 => pc = "exit0"
      /\ Publishable(d.results, d.input, run)
      /\ \A f \in d.staging : Publishable(f, d.input, run + 1)
      /\ pc \in {"read", "stage", "promote"} =>
           \A f \in d.staging : Publishable(f, d.input, run)

\* What Ray's word for the job says of the first execution.
Launched(b) ==
  /\ post[b].pc \in {"idle", "insert", "submit"} => ray[b] = "UNKNOWN" /\ driver[b].run = 0
  /\ ray[b] = "PENDING" => driver[b].run = 0
  /\ ray[b] = "RUNNING" => driver[b].run = 1
  /\ ray[b] = "SUCCEEDED" => Published(b)

JobDone(b) == FirstRun(b) /\ ByNow(b) /\ Launched(b)

\* Whoever says completed says it of a published result.
SaidTrue ==
  /\ \A b \in Batch : row[b].status = "completed" => Published(b)
  /\ \A p \in Pod : poller[p].pc \in Holding /\ poller[p].seen = "completed"
                      => Published(poller[p].cur)

Promising == {"found", "ok", "reading", "done"}

StreamTrue(b) ==
  LET s == stream[b]
  IN  /\ s.pc \in Promising => row[b].ray_job_id /\ Published(b)
      /\ s.pc \in {"reading", "done"} =>
           /\ Publishable(s.file, disk[b].input, driver[b].run)
           /\ s.runs \subseteq {s.file.run}
           /\ s.rows <= s.file.ok + s.file.err
      /\ s.pc = "done" => s.rows = s.file.ok + s.file.err
      /\ s.pc \notin {"reading", "done"} => s.runs = {} /\ s.rows = 0
      /\ s.pc \notin {"error", "broken"}

StreamInv ==
  /\ OwnInv
  /\ \A b \in Batch : JobDone(b)
  /\ SaidTrue
  /\ \A b \in Batch : StreamTrue(b)

\* With one pod the client that saw the end keeps seeing it.
SeenTrue(b) ==
  stream[b].last = "completed" => row[b].status = "completed" /\ stream[b].pc # "refused"

-----------------------------------------------------------------------------
(* One step, seen from one batch's job.                                      *)

\* The job, the volume and the driver as they were; Ray may change its mind.
Stays(b) == disk'[b] = disk[b] /\ driver'[b] = driver[b]

Killed(b) ==
  /\ driver[b].pc \in Running /\ disk'[b] = disk[b]
  /\ driver'[b] = [driver[b] EXCEPT !.pc = "killed"]

RayMoves(b) ==
  \/ ray'[b] \in {ray[b], "UNKNOWN"}
  \/ ray[b] \in {"PENDING", "RUNNING"} /\ ray'[b] \in {"FAILED", "STOPPED"}
  \/ ray[b] = "RUNNING" /\ driver[b].pc = "exit0" /\ ray'[b] = "SUCCEEDED" /\ Stays(b)

Begins(b) ==
  /\ Start(b)
  /\ \/ ray[b] = "PENDING" /\ ray'[b] = "RUNNING"
     \/ driver[b].run > 0 /\ ray'[b] = ray[b] /\ ray[b] \notin {"PENDING", "RUNNING"}

Unsent == {"idle", "insert", "submit"}

JobMoves(b) ==
  \/ (DriverStep(b) \/ Raise(b)) /\ ray'[b] = ray[b] /\ post'[b] = post[b]
  \/ Killed(b) /\ RayMoves(b) /\ post'[b] = post[b]
  \/ Begins(b) /\ post'[b] = post[b]
  \/ Stays(b) /\ RayMoves(b) /\ (post'[b].pc \in Unsent => post[b].pc \in Unsent)
  \/ /\ post[b].pc = "idle" /\ driver'[b] = driver[b] /\ ray'[b] = ray[b]
     /\ \E n \in 1..MaxPrompts : disk'[b] = [disk[b] EXCEPT !.input = n]
  \/ /\ post[b].pc = "submit" /\ post'[b].pc \notin Unsent
     /\ Stays(b) /\ ray'[b] = "PENDING"

LEMMA HandlerJob ==
  ASSUME TypeOK, NEW b \in Batch, HandlerAct(b)
  PROVE  JobMoves(b)
<1> USE DEF JobMoves, Unsent, Stays, RayMoves
<1>0. /\ driver' = driver /\ disk \in [Batch -> Dir] /\ post \in [Batch -> Handler]
      /\ ray \in [Batch -> JobStatus \cup {"UNKNOWN"}]
      /\ post[b] \in Handler
  BY HandlerFrame DEF TypeOK, InferTypeOK, CreateTypeOK, RayTypeOK
<1>1. CASE \E p \in Pod, n \in 1..MaxPrompts : Accept(b, p, n)
  BY <1>0, <1>1 DEF Accept
<1>2. CASE Insert(b) \/ MarkFailed(b) \/ Refuse(b) \/ Attach(b) \/ Respond(b)
  BY <1>0, <1>2 DEF Insert, MarkFailed, Refuse, Attach, Respond, Advance, Handler
<1>3. CASE Submit(b)
  BY <1>0, <1>3 DEF Submit, Advance, Handler
<1>4. CASE SessionRaises(b) \/ CommitUnheard(b)
  BY <1>0, <1>4 DEF SessionRaises, CommitUnheard, Handler
<1>5. ASSUME NEW a \in BOOLEAN, SubmitFails(b, a) \/ SubmitRaises(b, a)
      PROVE  JobMoves(b)
  BY <1>0, <1>5 DEF SubmitFails, SubmitRaises, Advance, Handler
<1> QED
  BY <1>1, <1>2, <1>3, <1>4, <1>5 DEF HandlerAct, CreateStep

LEMMA ClusterJob ==
  ASSUME TypeOK, Cluster \/ ClusterFault, post' = post, NEW b \in Batch
  PROVE  JobMoves(b)
<1> USE DEF JobMoves, Unsent, Stays, RayMoves
<1>0. driver \in [Batch -> Driver] /\ ray \in [Batch -> JobStatus \cup {"UNKNOWN"}]
  BY DEF TypeOK, InferTypeOK, RayTypeOK
<1>1. ASSUME NEW c \in Batch, DriverStep(c) \/ Raise(c), ray' = ray
      PROVE  JobMoves(b)
  BY <1>1, DriverMoves
<1>2. ASSUME NEW c \in Batch, Kill(c), ray' = ray
      PROVE  JobMoves(b)
  BY <1>0, <1>2 DEF Kill, Killed
<1>3. ASSUME NEW c \in Batch, StartJob(c)
      PROVE  JobMoves(b)
  BY <1>0, <1>3 DEF StartJob, Start, Begins
<1>4. ASSUME NEW c \in Batch, FinishJob(c) \/ NeverStarts(c)
      PROVE  JobMoves(b)
  BY <1>0, <1>4 DEF FinishJob, NeverStarts, inferVars
<1>5. ASSUME NEW c \in Batch, StopJob(c)
      PROVE  JobMoves(b)
  BY <1>0, <1>5 DEF StopJob, KillDriver, Killed
<1>6. CASE HeadRestart
  BY <1>0, <1>6 DEF HeadRestart, KillDriver, Killed
<1> QED
  BY <1>1, <1>2, <1>3, <1>4, <1>5, <1>6 DEF Cluster, ClusterFault

LEMMA JobsMove ==
  ASSUME TypeOK, [StreamNext]_streamVars, NEW b \in Batch
  PROVE  JobMoves(b)
<1>1. CASE UNCHANGED <<disk, driver, ray, post>>
  BY <1>1 DEF JobMoves, Stays, RayMoves
<1>2. ASSUME NEW c \in Batch, Rerun(c)
      PROVE  JobMoves(b)
  BY <1>2 DEF Rerun, Start, JobMoves, Begins, Stays, RayMoves, TypeOK, InferTypeOK
<1>3. CASE [Next]_vars
  <2>1. ASSUME NEW c \in Batch, HandlerAct(c)
        PROVE  JobMoves(b)
    <3>1. CASE c = b
      BY <2>1, <3>1, HandlerJob
    <3>2. CASE c # b
      BY <2>1, <3>2, HandlerFrame DEF JobMoves, Stays, RayMoves
    <3> QED  BY <3>1, <3>2
  <2>2. ASSUME NEW p \in Pod, PollerAct(p)
        PROVE  JobMoves(b)
    BY <1>1, <2>2, PollersLeave
  <2>3. ASSUME NEW p \in Pod, Boot(p) \/ Shutdown(p) \/ Drain(p) \/ Crash(p)
        PROVE  JobMoves(b)
    <3>1. Stays(b) /\ ray' = ray
      BY <2>3 DEF Boot, Shutdown, Drain, Crash, others, Stays
    <3>2. post'[b].pc \in Unsent => post[b].pc \in Unsent
      BY <2>3 DEF Boot, Shutdown, Drain, Crash, LoseHandlers, Unsent, TypeOK, CreateTypeOK,
                  Handler
    <3> QED  BY <3>1, <3>2 DEF JobMoves, RayMoves
  <2> QED  BY <1>1, <1>3, <2>1, <2>2, <2>3, ClusterJob, Steps
<1> QED
  BY <1>1, <1>2, <1>3 DEF StreamNext, streamVars, vars

-----------------------------------------------------------------------------
(* What is published is only replaced by what may be.                        *)

LEMMA PublishableLater ==
  ASSUME NEW f, NEW n, NEW k \in Nat, NEW m \in Nat, k <= m, Publishable(f, n, k)
  PROVE  Publishable(f, n, m)
<1>1. 2..(k - 1) \subseteq 2..(m - 1)
  OBVIOUS
<1> QED  BY <1>1 DEF Publishable

LEMMA PublishedDriver ==
  ASSUME TypeOK, NEW b \in Batch, Published(b), DriverStep(b) \/ Raise(b)
  PROVE  Published(b)'
<1> DEFINE run == driver[b].run
           n   == disk[b].input
<1>0. /\ disk[b] \in Dir /\ driver[b] \in Driver /\ disk \in [Batch -> Dir]
      /\ driver \in [Batch -> Driver] /\ run \in Nat /\ n \in Nat
  BY MaxRunsAssumption, MaxPromptsAssumption DEF TypeOK, InferTypeOK, Dir, Driver
<1>1. run > 1 /\ driver'[b].run = run /\ disk'[b].input = n
  BY <1>0, DriverMoves DEF Published, Running
<1>2. ASSUME disk'[b].results = disk[b].results, disk'[b].staging \subseteq disk[b].staging,
             driver'[b].pc \notin {"read", "stage", "promote"}
      PROVE  Published(b)'
  BY <1>1, <1>2 DEF Published
<1>3. CASE ReadInput(b)
  BY <1>0, <1>1, <1>3 DEF ReadInput, Goto, Published
<1>4. CASE OpenStaged(b)
  <2>1. /\ disk'[b].staging = disk[b].staging \cup {Torn(run)}
        /\ disk'[b].results = disk[b].results /\ driver'[b].pc = "write"
    BY <1>0, <1>4 DEF OpenStaged, Goto, Dir, Driver
  <2>2. Publishable(Torn(run), n, run + 1)
    BY <1>0, <1>1 DEF Publishable, Torn, IsTorn
  <2> QED  BY <1>1, <2>1, <2>2 DEF Published
<1>14. CASE WriteRow(b)
  <2>0. PICK f \in Growing(b) : /\ f.ok + f.err + 1 < n
                                /\ \/ GrowsInto(b, Cut(f.run, f.ok + 1, f.err))
                                   \/ GrowsInto(b, Cut(f.run, f.ok, f.err + 1))
    BY <1>14 DEF WriteRow
  <2>1. PICK g : /\ g \in {Cut(f.run, f.ok + 1, f.err), Cut(f.run, f.ok, f.err + 1)}
                 /\ GrowsInto(b, g)
    BY <2>0
  <2>2. IsTorn(g) /\ g.run = run /\ g.ok + g.err <= n
    <3>1. f.ok \in Nat /\ f.err \in Nat /\ f.run = run
      BY GrowthBounds, MaxPromptsAssumption DEF TypeOK, InferTypeOK
    <3> QED  BY <1>0, <2>0, <2>1, <3>1 DEF Cut, IsTorn
  <2>3. /\ disk'[b].staging = (disk[b].staging \ Growing(b)) \cup {g}
        /\ disk'[b].results = disk[b].results /\ driver' = driver
        /\ driver[b].pc = "write"
    BY <1>0, <1>14, <2>1 DEF WriteRow, GrowsInto, Dir
  <2>4. Publishable(g, n, run + 1)
    BY <1>0, <1>1, <2>2 DEF Publishable
  <2> QED  BY <1>1, <2>3, <2>4 DEF Published
<1>5. CASE WriteStaged(b)
  <2>1. PICK h \in Growing(b), o \in 0..MaxPrompts : GrowsInto(b, Whole(h.run, o, n - o))
    <3>1. PICK h \in Growing(b) : \E o \in h.ok..(n - h.err) :
            GrowsInto(b, Whole(h.run, o, n - o))
      BY <1>5 DEF WriteStaged
    <3>2. PICK o \in h.ok..(n - h.err) : GrowsInto(b, Whole(h.run, o, n - o))
      BY <3>1
    <3> QED  BY <1>0, <3>2, GrowthBounds
  <2>2. /\ disk'[b].staging = (disk[b].staging \ Growing(b)) \cup {Whole(h.run, o, n - o)}
        /\ disk'[b].results = disk[b].results
    BY <1>0, <2>1 DEF GrowsInto, Dir
  <2>3. Complete(Whole(h.run, o, n - o), n)
    BY <1>0, <2>1, MaxPromptsAssumption DEF Complete, Whole, IsWhole
  <2>4. ASSUME NEW f \in disk[b].staging, f \notin Growing(b)
        PROVE  Publishable(f, n, run)
    BY <1>0, <2>4 DEF Published, Publishable, Growing
  <2>5. \A f \in disk'[b].staging : Publishable(f, n, run)
    BY <2>2, <2>3, <2>4 DEF Publishable
  <2>6. \A f \in disk'[b].staging : Publishable(f, n, run + 1)
    BY <1>0, <2>5, PublishableLater
  <2> QED  BY <1>1, <2>2, <2>5, <2>6 DEF Published
<1>6. CASE Promote(b)
  <2>1. CASE disk[b].staging = {}
    BY <1>0, <1>2, <1>6, <2>1 DEF Promote, Goto, Driver
  <2>2. CASE disk[b].staging # {}
    <3>1. PICK f \in disk[b].staging :
            disk' = [disk EXCEPT ![b].staging = @ \ {f}, ![b].results = f]
      BY <1>6, <2>2 DEF Promote
    <3>2. /\ disk'[b].results = f /\ disk'[b].staging = disk[b].staging \ {f}
          /\ driver[b].pc = "promote" /\ driver'[b].pc = "tally"
      BY <1>0, <1>6, <2>2, <3>1 DEF Promote, Goto, Dir, Driver
    <3> QED  BY <1>1, <3>1, <3>2 DEF Published
  <2> QED  BY <2>1, <2>2
<1>15. CASE CutLine(b)
  BY <1>0, <1>2, <1>15 DEF CutLine, Goto, Driver
<1>7. CASE Tally(b)
  BY <1>0, <1>2, <1>7 DEF Tally, Dir, Driver
<1>8. CASE OpenSuccess(b)
  BY <1>0, <1>2, <1>8 DEF OpenSuccess, Goto, Dir, Driver
<1>9. CASE WriteSuccess(b)
  BY <1>0, <1>2, <1>9 DEF WriteSuccess, Goto, Dir, Driver
<1>10. CASE CleanStaging(b)
  BY <1>0, <1>2, <1>10 DEF CleanStaging, Goto, Dir, Driver
<1>11. CASE OpenFailure(b)
  BY <1>0, <1>2, <1>11 DEF OpenFailure, Goto, Dir, Driver
<1>12. CASE WriteFailure(b)
  BY <1>0, <1>2, <1>12 DEF WriteFailure, Goto, Dir, Driver
<1>13. CASE Raise(b)
  BY <1>0, <1>2, <1>13 DEF Raise, Driver
<1> QED
  BY <1>3, <1>4, <1>5, <1>6, <1>7, <1>8, <1>9, <1>10, <1>11, <1>12, <1>13, <1>14, <1>15
     DEF DriverStep

LEMMA PublishedMoves ==
  ASSUME TypeOK, NEW b \in Batch, Launched(b), Published(b), JobMoves(b)
  PROVE  Published(b)'
<1> DEFINE run == driver[b].run
<1>0. /\ driver[b] \in Driver /\ driver \in [Batch -> Driver] /\ run \in Nat /\ run > 0
  BY MaxRunsAssumption DEF TypeOK, InferTypeOK, Driver, Published
<1>1. CASE DriverStep(b) \/ Raise(b)
  BY <1>1, PublishedDriver
<1>2. CASE Killed(b)
  <2>1. /\ run # 1 /\ driver'[b].run = run /\ driver'[b].pc = "killed"
        /\ disk'[b] = disk[b]
    BY <1>0, <1>2 DEF Killed, Published, Running, Driver
  <2> QED  BY <1>0, <2>1 DEF Published
<1>3. CASE Begins(b)
  <2>1. /\ driver'[b].run = run + 1 /\ driver'[b].run \in Nat /\ disk'[b] = disk[b]
        /\ driver'[b].run \notin {0, 1}
    BY <1>0, <1>3 DEF Begins, Start
  <2>2. Publishable(disk[b].results, disk[b].input, run + 1)
    BY <1>0, PublishableLater DEF Published
  <2>3. \A f \in disk[b].staging : /\ Publishable(f, disk[b].input, run + 1)
                                     /\ Publishable(f, disk[b].input, (run + 1) + 1)
    BY <1>0, PublishableLater DEF Published
  <2> QED  BY <1>0, <2>1, <2>2, <2>3 DEF Published
<1>4. CASE Stays(b)
  BY <1>4 DEF Stays, Published
<1>5. post[b].pc # "idle"
  BY <1>0 DEF Launched
<1> QED  BY <1>1, <1>2, <1>3, <1>4, <1>5 DEF JobMoves

\* Ray reports the first execution, and no other, as a success.
LEMMA JobDoneMoves ==
  ASSUME TypeOK, NEW b \in Batch, JobDone(b), JobMoves(b)
  PROVE  JobDone(b)'
<1> DEFINE run == driver[b].run
<1>0. /\ disk[b] \in Dir /\ driver[b] \in Driver /\ run \in Nat /\ InferTypeOK
      /\ ray[b] \in JobStatus \cup {"UNKNOWN"}
  BY MaxRunsAssumption DEF TypeOK, InferTypeOK, RayTypeOK, Driver
<1>1. FirstRun(b) /\ ByNow(b) /\ Launched(b)
  BY DEF JobDone
<1>2. Published(b) => Published(b)'
  BY <1>1, PublishedMoves
<1>3. CASE (DriverStep(b) \/ Raise(b)) /\ ray'[b] = ray[b] /\ post'[b] = post[b]
  <2>1. FirstRun(b)' /\ ByNow(b)' /\ driver'[b].run = run
    BY <1>1, <1>3, DriverMoves
  <2> QED  BY <1>1, <1>2, <1>3, <2>1 DEF JobDone, Launched
<1>4. CASE Killed(b) /\ RayMoves(b) /\ post'[b] = post[b]
  <2>1. /\ driver'[b].pc = "killed" /\ driver'[b].run = run
        /\ driver[b].pc \notin {"idle", "exit0", "exit1"} /\ disk'[b] = disk[b]
    BY <1>0, <1>4 DEF Killed, Driver, Running
  <2>2. FirstRun(b)' /\ ByNow(b)'
    BY <1>1, <2>1 DEF FirstRun, ByNow, Unpublished, PublishedIsComplete
  <2>3. Launched(b)'
    BY <1>1, <1>2, <1>4, <2>1 DEF Launched, RayMoves
  <2> QED  BY <2>2, <2>3 DEF JobDone
<1>5. CASE Begins(b) /\ post'[b] = post[b]
  <2>1. driver'[b].run = run + 1
    BY <1>0, <1>5 DEF Begins, Start, TypeOK, InferTypeOK
  <2>2. FirstRun(b)' /\ ByNow(b)'
    BY <1>0, <1>1, <1>5, StartRaiseKill DEF Begins
  <2>3. Launched(b)'
    <3>1. CASE ray[b] = "PENDING" /\ ray'[b] = "RUNNING"
      BY <1>1, <1>5, <2>1, <3>1 DEF Launched
    <3>2. CASE run > 0 /\ ray'[b] = ray[b] /\ ray[b] \notin {"PENDING", "RUNNING"}
      BY <1>0, <1>1, <1>2, <1>5, <2>1, <3>2 DEF Launched
    <3> QED  BY <1>5, <3>1, <3>2 DEF Begins
  <2> QED  BY <2>2, <2>3 DEF JobDone
<1>6. CASE Stays(b) /\ RayMoves(b) /\ (post'[b].pc \in Unsent => post[b].pc \in Unsent)
  <2>1. disk'[b] = disk[b] /\ driver'[b] = driver[b]
    BY <1>6 DEF Stays
  <2>2. FirstRun(b)' /\ ByNow(b)'
    BY <1>1, <2>1 DEF FirstRun, ByNow, Unpublished, PublishedIsComplete
  <2>3. ASSUME ray[b] = "RUNNING", driver[b].pc = "exit0"
        PROVE  Published(b)'
    <3>1. run = 1 /\ Complete(disk[b].results, disk[b].input) /\ disk[b].staging = {}
      BY <1>1, <2>3 DEF Launched, FirstRun, ByNow, PublishedIsComplete
    <3> QED  BY <2>1, <2>3, <3>1 DEF Published, Publishable
  <2>4. Launched(b)'
    BY <1>1, <1>2, <1>6, <2>1, <2>3 DEF Launched, RayMoves, Unsent
  <2> QED  BY <2>2, <2>4 DEF JobDone
<1>7. ASSUME post[b].pc = "idle", driver'[b] = driver[b], ray'[b] = ray[b],
             NEW n \in 1..MaxPrompts, disk'[b] = [disk[b] EXCEPT !.input = n]
      PROVE  JobDone(b)'
  <2>1. driver[b].run = 0 /\ driver[b].pc = "idle" /\ ray[b] = "UNKNOWN"
    BY <1>1, <1>7 DEF Launched, FirstRun
  <2>2. /\ disk'[b].staging = disk[b].staging /\ disk'[b].success = disk[b].success
        /\ disk'[b].failure = disk[b].failure
    BY <1>0, <1>7 DEF Dir
  <2>3. FirstRun(b)' /\ ByNow(b)'
    BY <1>1, <1>7, <2>1, <2>2 DEF FirstRun, ByNow
  <2>4. Launched(b)'
    BY <1>7, <2>1 DEF Launched
  <2> QED  BY <2>3, <2>4 DEF JobDone
<1>8. CASE /\ post[b].pc = "submit" /\ post'[b].pc \notin Unsent
           /\ Stays(b) /\ ray'[b] = "PENDING"
  <2>1. disk'[b] = disk[b] /\ driver'[b] = driver[b] /\ run = 0
    BY <1>1, <1>8 DEF Stays, Launched
  <2>2. FirstRun(b)' /\ ByNow(b)'
    BY <1>1, <2>1 DEF FirstRun, ByNow, Unpublished, PublishedIsComplete
  <2>3. Launched(b)'
    BY <1>8, <2>1 DEF Launched, Unsent
  <2> QED  BY <2>2, <2>3 DEF JobDone
<1> QED  BY <1>3, <1>4, <1>5, <1>6, <1>7, <1>8 DEF JobMoves

-----------------------------------------------------------------------------
(* What handlers and pollers keep among themselves, whatever drivers do.     *)

LEMMA ClusterLeaves ==
  ASSUME TypeOK, Cluster \/ ClusterFault, NEW b \in Batch
  PROVE  disk'[b].input = disk[b].input /\ (ray[b] = "UNKNOWN" => ray'[b] = "UNKNOWN")
<1>0. ray \in [Batch -> JobStatus \cup {"UNKNOWN"}] /\ disk \in [Batch -> Dir]
  BY DEF TypeOK, InferTypeOK, RayTypeOK
<1>1. ASSUME NEW c \in Batch, DriverStep(c) \/ Raise(c) \/ Kill(c), ray' = ray
      PROVE  disk'[b].input = disk[b].input /\ (ray[b] = "UNKNOWN" => ray'[b] = "UNKNOWN")
  <2>1. disk'[c].input = disk[c].input /\ (c # b => disk'[b] = disk[b])
    BY <1>1, DriverMoves
  <2> QED  BY <1>1, <2>1
<1>2. ASSUME NEW c \in Batch, StartJob(c) \/ FinishJob(c) \/ NeverStarts(c) \/ StopJob(c)
      PROVE  disk'[b].input = disk[b].input /\ (ray[b] = "UNKNOWN" => ray'[b] = "UNKNOWN")
  BY <1>0, <1>2 DEF StartJob, Start, FinishJob, NeverStarts, StopJob, inferVars
<1>3. CASE HeadRestart
  BY <1>3 DEF HeadRestart
<1> QED
  BY <1>1, <1>2, <1>3 DEF Cluster, ClusterFault

LEMMA RowMadeFrame ==
  ASSUME NEW b \in Batch, RowMade(b), disk'[b].input = disk[b].input, row'[b] = row[b],
         post'[b] = post[b], ray[b] = "UNKNOWN" => ray'[b] = "UNKNOWN"
  PROVE  RowMade(b)'
BY DEF RowMade, Untouched, Refused, Exists

\* What a session of the poller writes over the row that is there.
LEMMA CommitOver ==
  ASSUME TypeOK, OwnInv, NEW p \in Pod, Commit(p)
  PROVE  LET b == poller[p].cur
             s == poller[p].seen
         IN  /\ b \in Batch /\ row[b].ray_job_id /\ row'[b].ray_job_id
             /\ row'[b].input_count = row[b].input_count
             /\ row'[b].status \in {row[b].status, s} /\ s \in BatchStatus
             /\ \A c \in Batch : c # b => row'[c] = row[c]
<1>0. PICK b \in Batch : b = poller[p].cur
  BY DEF Commit, TypeOK, PollerTypeOK, Holding
<1> DEFINE s == poller[p].seen
           l == poller[p].loaded
           t == poller[p].set
           n == Flush(l, t, row[b])
<1>1. poller[p].pc = "loaded" /\ s \in BatchStatus /\ row' = [row EXCEPT ![b] = n]
  BY <1>0 DEF Commit, TypeOK, PollerTypeOK, Holding
<1>2. /\ row[b].ray_job_id /\ l.ray_job_id /\ t.ray_job_id
      /\ t.input_count = l.input_count /\ t.status = s
  BY <1>0, <1>1 DEF OwnInv, PollerOwn, Holding
<1>3. row[b] \in Row /\ l \in Row /\ t \in Row /\ row \in [Batch -> Row]
  BY DEF TypeOK, CreateTypeOK, PollerTypeOK, Poller
<1>4. l.ray_job_id = t.ray_job_id
  BY <1>2, <1>3 DEF Row, RowOver
<1>5. n.ray_job_id /\ n.input_count = row[b].input_count /\ n.status \in {row[b].status, s}
  BY <1>2, <1>4 DEF Flush, Dirty
<1> QED  BY <1>0, <1>1, <1>2, <1>3, <1>5

LEMMA CommitMade ==
  ASSUME TypeOK, OwnInv, NEW p \in Pod, Commit(p), NEW b \in Batch
  PROVE  RowMade(b)'
<1>0. UNCHANGED <<disk, ray, post>> /\ RowMade(b)
  BY DEF Commit, pollerLeaves, OwnInv
<1>1. CASE row'[b] = row[b]
  BY <1>0, <1>1, RowMadeFrame
<1>2. CASE b = poller[p].cur
  <2>1. /\ row[b].ray_job_id /\ row'[b].ray_job_id
        /\ row'[b].input_count = row[b].input_count
        /\ Exists(row[b]) => Exists(row'[b])
    BY <1>2, CommitOver DEF Exists, BatchStatus, ActiveStatuses, TerminalStatuses
  <2>2. post[b].pc \notin {"idle", "insert", "submit", "mark", "refuse", "attach",
                           "unavailable"}
    <3>1. ~NoRow.ray_job_id
      BY DEF NoRow
    <3>2. ~QueuedRow(disk[b].input).ray_job_id
      BY DEF QueuedRow, NoRow
    <3>3. ~RefusedRow(disk[b].input).ray_job_id
      BY DEF RefusedRow, QueuedRow, NoRow
    <3> QED  BY <1>0, <2>1, <3>1, <3>2, <3>3 DEF RowMade, Untouched, Refused
  <2> QED  BY <1>0, <2>1, <2>2 DEF RowMade
<1> QED  BY <1>1, <1>2, CommitOver

\* A job id that is attached stays attached.
LEMMA IdsStay ==
  ASSUME TypeOK, OwnInv, [Next]_vars, NEW b \in Batch, row[b].ray_job_id
  PROVE  row'[b].ray_job_id
<1>1. ASSUME NEW c \in Batch, HandlerAct(c)
      PROVE  row'[b] = row[b]
  <2>1. CASE c = b
    BY <1>1, <2>1, HandlerKeepsPolled DEF OwnInv
  <2>2. CASE c # b
    BY <1>1, <2>2, HandlerFrame
  <2> QED  BY <2>1, <2>2
<1>2. ASSUME NEW p \in Pod, PollerAct(p)
      PROVE  row'[b].ray_job_id
  <2>1. CASE Commit(p)
    BY <2>1, CommitOver
  <2>2. CASE row' = row
    BY <2>2
  <2> QED  BY <1>2, <2>1, <2>2, PollersLeave
<1>3. ASSUME NEW p \in Pod, Boot(p) \/ Shutdown(p) \/ Drain(p) \/ Crash(p)
      PROVE  row' = row
  BY <1>3 DEF Boot, Shutdown, Drain, Crash, others
<1> QED  BY <1>1, <1>2, <1>3, Steps

LEMMA OwnFrame ==
  ASSUME TypeOK, OwnInv, [Next]_vars, NEW p \in Pod, poller'[p] = poller[p]
  PROVE  PollerOwn(p)'
<1>1. \A c \in poller[p].todo : row'[c].ray_job_id
  BY IdsStay DEF OwnInv, PollerOwn, TypeOK, PollerTypeOK, Poller
<1> QED  BY <1>1 DEF OwnInv, PollerOwn

LEMMA BetweenIsOwn ==
  ASSUME NEW p \in Pod, NEW pc \in {"off", "asleep", "sweep"}, NEW todo,
         poller'[p] = Between(pc, todo), \A c \in todo : row'[c].ray_job_id
  PROVE  PollerOwn(p)'
BY DEF PollerOwn, Between, Holding

LEMMA LoadIsOwn ==
  ASSUME TypeOK, OwnInv, NEW p \in Pod, Load(p)
  PROVE  PollerOwn(p)'
<1>0. PICK b \in Batch : b = poller[p].cur
  BY DEF Load, TypeOK, PollerTypeOK, Holding
<1> DEFINE s == poller[p].seen
           u == Update(row[b], s, Marker(b, s))
<1>1. /\ s \in BatchStatus /\ poller[p] \in Poller /\ poller[p].pc = "asked"
      /\ b \in poller[p].todo /\ row[b] \in Row /\ row[b].ray_job_id
  BY <1>0 DEF Load, TypeOK, CreateTypeOK, PollerTypeOK, Holding, OwnInv, PollerOwn
<1>2. poller' = [poller EXCEPT ![p] =
        [poller[p] EXCEPT !.pc = "loaded", !.loaded = row[b], !.set = u]]
  BY <1>0 DEF Load
<1>3. /\ poller'[p].pc = "loaded" /\ poller'[p].cur = b /\ poller'[p].seen = s
      /\ poller'[p].todo = poller[p].todo
      /\ poller'[p].loaded = row[b] /\ poller'[p].set = u
  BY <1>0, <1>1, <1>2 DEF TypeOK, PollerTypeOK, Poller
<1>4. row' = row /\ (s \in ActiveStatuses => row[b].status # s)
  BY <1>0 DEF Load
<1>5. u.ray_job_id /\ u.input_count = row[b].input_count /\ u.status = s
  BY <1>1 DEF Update, Row, RowOver, BatchStatus, ActiveStatuses, TerminalStatuses
<1> QED  BY <1>1, <1>3, <1>4, <1>5 DEF OwnInv, PollerOwn

LEMMA PollerIsOwn ==
  ASSUME TypeOK, OwnInv, [Next]_vars, NEW p \in Pod, PollerAct(p)
  PROVE  PollerOwn(p)'
<1>1. \A c \in poller[p].todo : row'[c].ray_job_id
  BY IdsStay DEF OwnInv, PollerOwn, TypeOK, PollerTypeOK, Poller
<1>2. CASE Sweep(p)
  <2>1. /\ poller'[p] = Between("sweep", {b \in Batch : Listed(b)})
        /\ \A b \in {c \in Batch : Listed(c)} : row'[b].ray_job_id
    BY <1>2 DEF Sweep, Listed, TypeOK, PollerTypeOK
  <2> QED  BY <2>1, BetweenIsOwn
<1>3. CASE Sleep(p)
  <2>1. poller'[p] = Between("asleep", {})
    BY <1>3 DEF Sleep, TypeOK, PollerTypeOK
  <2> QED  BY <2>1, BetweenIsOwn
<1>4. ASSUME NEW b \in Batch, Ask(p, b)
      PROVE  PollerOwn(p)'
  <2>1. /\ poller'[p].pc = "asked" /\ poller'[p].cur = b
        /\ poller'[p].todo = poller[p].todo /\ b \in poller[p].todo
    BY <1>4 DEF Ask, TypeOK, PollerTypeOK, Poller
  <2> QED  BY <1>1, <2>1 DEF PollerOwn
<1>5. CASE Load(p)
  BY <1>5, LoadIsOwn
<1>6. ASSUME NEW b, Skip(p, b)
      PROVE  PollerOwn(p)'
  <2>1. poller'[p] = Between("sweep", poller[p].todo \ {b})
    BY <1>6 DEF Skip, TypeOK, PollerTypeOK
  <2> QED  BY <1>1, <2>1, BetweenIsOwn
<1>7. CASE \/ \E b \in Batch : AskFails(p, b)
           \/ MarkerUnreadable(p) \/ NothingNew(p) \/ Commit(p) \/ CommitFails(p)
  BY <1>6, <1>7 DEF AskFails, MarkerUnreadable, NothingNew, Commit, CommitFails
<1> QED
  BY <1>2, <1>3, <1>4, <1>5, <1>7 DEF PollerAct, PollStep, JobUnknown

LEMMA OwnStep ==
  ASSUME TypeOK, OwnInv, [StreamNext]_streamVars
  PROVE  OwnInv'
<1>1. ASSUME UNCHANGED <<row, post, poller>>,
             \A b \in Batch : /\ disk'[b].input = disk[b].input
                              /\ ray[b] = "UNKNOWN" => ray'[b] = "UNKNOWN"
      PROVE  OwnInv'
  <2>1. ASSUME NEW b \in Batch
        PROVE  RowMade(b)'
    <3>1. RowMade(b) /\ row'[b] = row[b] /\ post'[b] = post[b]
      BY <1>1 DEF OwnInv
    <3>2. disk'[b].input = disk[b].input /\ (ray[b] = "UNKNOWN" => ray'[b] = "UNKNOWN")
      BY <1>1
    <3> QED  BY <3>1, <3>2, RowMadeFrame
  <2>2. \A p \in Pod : PollerOwn(p)'
    BY <1>1 DEF OwnInv, PollerOwn
  <2> QED  BY <2>1, <2>2 DEF OwnInv
<1>2. CASE UNCHANGED vars
  BY <1>1, <1>2 DEF vars
<1>3. ASSUME NEW b \in Batch, Rerun(b)
      PROVE  OwnInv'
  BY <1>1, <1>3 DEF Rerun, Start
<1>4. CASE [Next]_vars
  <2>1. ASSUME NEW c \in Batch, HandlerAct(c), UNCHANGED poller
        PROVE  OwnInv'
    <3>1. ASSUME NEW b \in Batch
          PROVE  RowMade(b)'
      <4>1. CASE b = c
        BY <2>1, <4>1, HandlerRowMade DEF OwnInv
      <4>2. CASE b # c
        BY <2>1, <4>2, HandlerFrame, RowMadeFrame DEF OwnInv
      <4> QED  BY <4>1, <4>2
    <3>2. \A p \in Pod : PollerOwn(p)'
      BY <1>4, <2>1, OwnFrame
    <3> QED  BY <3>1, <3>2 DEF OwnInv
  <2>2. ASSUME NEW p \in Pod, PollerAct(p)
        PROVE  OwnInv'
    <3>1. ASSUME NEW b \in Batch
          PROVE  RowMade(b)'
      <4>1. CASE Commit(p)
        BY <4>1, CommitMade
      <4>2. CASE row' = row
        BY <2>2, <4>2, PollersLeave, RowMadeFrame DEF OwnInv
      <4> QED  BY <2>2, <4>1, <4>2, PollersLeave
    <3>2. ASSUME NEW q \in Pod
          PROVE  PollerOwn(q)'
      BY <1>4, <2>2, PollersLeave, PollerIsOwn, OwnFrame
    <3> QED  BY <3>1, <3>2 DEF OwnInv
  <2>3. CASE (Cluster \/ ClusterFault) /\ UNCHANGED <<row, post, poller>>
    BY <1>1, <2>3, ClusterLeaves
  <2>4. ASSUME NEW p \in Pod, Boot(p) \/ Shutdown(p) \/ Drain(p) \/ Crash(p)
        PROVE  OwnInv'
    <3>1. UNCHANGED <<disk, ray, row>>
      BY <2>4 DEF Boot, Shutdown, Drain, Crash, others
    <3>2. ASSUME NEW b \in Batch
          PROVE  RowMade(b)'
      <4>1. \/ post'[b] = post[b]
            \/ post[b].pc \in InFlight /\ post'[b].pc = "lost"
        BY <2>4 DEF Boot, Shutdown, Drain, Crash, LoseHandlers, TypeOK, CreateTypeOK, Handler
      <4>2. CASE post'[b] = post[b]
        BY <3>1, <4>2, RowMadeFrame DEF OwnInv
      <4>3. CASE post[b].pc \in InFlight /\ post'[b].pc = "lost"
        BY <3>1, <4>3 DEF OwnInv, RowMade, Untouched, Refused, Exists, InFlight
      <4> QED  BY <4>1, <4>2, <4>3
    <3>3. ASSUME NEW q \in Pod
          PROVE  PollerOwn(q)'
      <4>1. \/ poller'[q] = poller[q]
            \/ poller'[q] \in {Between("asleep", {}), Between("off", {})}
        BY <2>4 DEF Boot, Shutdown, Drain, Crash, TypeOK, PollerTypeOK
      <4> QED  BY <1>4, <4>1, OwnFrame, BetweenIsOwn
    <3> QED  BY <3>2, <3>3 DEF OwnInv
  <2>5. CASE UNCHANGED <<disk, driver, ray, row, post, poller>>
    BY <1>1, <2>5
  <2> QED  BY <1>4, <2>1, <2>2, <2>3, <2>4, <2>5, Steps
<1> QED
  BY <1>2, <1>3, <1>4 DEF StreamNext, streamVars, vars

-----------------------------------------------------------------------------
(* Who says completed.                                                       *)

LEMMA HandlerNeverCompletes ==
  ASSUME TypeOK, NEW b \in Batch, HandlerAct(b), row'[b].status = "completed"
  PROVE  row[b].status = "completed"
<1>0. row[b] \in Row /\ row \in [Batch -> Row]
  BY DEF TypeOK, CreateTypeOK
<1>1. CASE InsertRow(b)
  BY <1>0, <1>1 DEF InsertRow, QueuedRow, NoRow
<1>2. CASE FailRow(b)
  BY <1>0, <1>2 DEF FailRow, Row, RowOver
<1>3. CASE AttachJob(b)
  BY <1>0, <1>3 DEF AttachJob, Row, RowOver
<1>4. CASE row' = row
  BY <1>4
<1> QED  BY <1>1, <1>2, <1>3, <1>4, HandlerWrites

\* A poller says of a job what Ray said when it was asked.
LEMMA PollerSays ==
  ASSUME TypeOK, [Next]_vars, NEW p \in Pod, poller'[p].pc \in Holding
  PROVE  \/ /\ poller[p].pc \in Holding
            /\ poller'[p].cur = poller[p].cur /\ poller'[p].seen = poller[p].seen
         \/ \E b \in Batch : Ask(p, b)
<1>0. poller[p] \in Poller /\ poller \in [Pod -> Poller]
  BY DEF TypeOK, PollerTypeOK
<1>1. ASSUME NEW q \in Pod, PollerAct(q), q # p
      PROVE  poller'[p] = poller[p]
  BY <1>1, PollersLeave
<1>2. CASE Load(p)
  BY <1>0, <1>2 DEF Load, Poller, Holding
<1>3. CASE Sweep(p) \/ Sleep(p)
  BY <1>0, <1>3 DEF Sweep, Sleep, Between, Holding
<1>4. ASSUME NEW b, Skip(p, b)
      PROVE  FALSE
  BY <1>0, <1>4 DEF Skip, Between, Holding
<1>5. ASSUME PollerAct(p)
      PROVE  Load(p) \/ \E b \in Batch : Ask(p, b)
  BY <1>3, <1>4, <1>5 DEF PollerAct, PollStep, JobUnknown, AskFails, MarkerUnreadable, NothingNew,
     Commit, CommitFails, Sweep, Sleep, Between, Holding
<1>6. ASSUME NEW q \in Pod, Boot(q) \/ Shutdown(q) \/ Drain(q) \/ Crash(q)
      PROVE  poller'[p] = poller[p]
  BY <1>0, <1>6 DEF Boot, Shutdown, Drain, Crash, Between, Holding
<1> QED
  BY <1>1, <1>2, <1>5, <1>6, Steps

LEMMA SaidStep ==
  ASSUME TypeOK, OwnInv, SaidTrue, \A b \in Batch : JobDone(b), [StreamNext]_streamVars
  PROVE  SaidTrue'
<1>1. ASSUME NEW b \in Batch, Published(b)
      PROVE  Published(b)'
  BY <1>1, JobsMove, PublishedMoves DEF JobDone
<1>2. CASE UNCHANGED <<row, poller>>
  <2>1. \A p \in Pod : poller[p].pc \in Holding => poller[p].cur \in Batch
    BY DEF TypeOK, PollerTypeOK
  <2> QED  BY <1>1, <1>2, <2>1 DEF SaidTrue
<1>3. CASE [Next]_vars
  <2>1. ASSUME NEW b \in Batch, row'[b].status = "completed"
        PROVE  Published(b)'
    <3>1. ASSUME NEW c \in Batch, HandlerAct(c)
          PROVE  row[b].status = "completed"
      BY <2>1, <3>1, HandlerNeverCompletes, HandlerFrame
    <3>2. ASSUME NEW p \in Pod, Commit(p)
          PROVE  \/ row[b].status = "completed"
                 \/ poller[p].pc \in Holding /\ poller[p].seen = "completed" /\ poller[p].cur = b
      BY <2>1, <3>2, CommitOver DEF Commit, Holding
    <3>3. ASSUME NEW p \in Pod, Boot(p) \/ Shutdown(p) \/ Drain(p) \/ Crash(p)
          PROVE  row' = row
      BY <3>3 DEF Boot, Shutdown, Drain, Crash, others
    <3>4. \/ row[b].status = "completed"
          \/ \E p \in Pod : Commit(p)
      BY <1>3, <2>1, <3>1, <3>3, Steps, PollersLeave
    <3>5. Published(b)
      BY <3>2, <3>4 DEF SaidTrue
    <3> QED  BY <1>1, <3>5
  <2>2. ASSUME NEW p \in Pod, poller'[p].pc \in Holding, poller'[p].seen = "completed"
        PROVE  Published(poller[p].cur)'
    <3>1. CASE /\ poller[p].pc \in Holding
               /\ poller'[p].cur = poller[p].cur /\ poller'[p].seen = poller[p].seen
      <4>1. PICK b \in Batch : b = poller[p].cur /\ b = poller'[p].cur
        BY <3>1 DEF TypeOK, PollerTypeOK
      <4>2. Published(b)'
        BY <1>1, <2>2, <3>1, <4>1 DEF SaidTrue
      <4> QED  BY <4>1, <4>2
    <3>2. ASSUME NEW b \in Batch, Ask(p, b)
          PROVE  Published(poller[p].cur)'
      <4>1. poller'[p].cur = b /\ poller'[p].seen = MapStatus(ray[b])
        BY <3>2 DEF Ask, TypeOK, PollerTypeOK, Poller
      <4>2. ray[b] = "SUCCEEDED"
        BY <2>2, <4>1 DEF MapStatus
      <4>3. Published(b)'
        BY <1>1, <4>2 DEF JobDone, Launched
      <4> QED  BY <4>1, <4>3
    <3> QED  BY <1>3, <2>2, <3>1, <3>2, PollerSays
  <2> QED  BY <2>1, <2>2 DEF SaidTrue
<1>4. ASSUME NEW b \in Batch, Rerun(b)
      PROVE  UNCHANGED <<row, poller>>
  BY <1>4 DEF Rerun
<1> QED  BY <1>2, <1>3, <1>4 DEF StreamNext, streamVars, vars

-----------------------------------------------------------------------------
(* The stream.                                                               *)

LEMMA JobGoesOn ==
  ASSUME TypeOK, NEW b \in Batch, JobDone(b), Published(b), JobMoves(b)
  PROVE  /\ disk'[b].input = disk[b].input
         /\ driver'[b].run \in Nat /\ driver[b].run \in Nat /\ driver[b].run <= driver'[b].run
<1>0. driver[b] \in Driver /\ driver[b].run \in Nat /\ driver \in [Batch -> Driver]
  BY MaxRunsAssumption DEF TypeOK, InferTypeOK, Driver
<1>1. post[b].pc # "idle"
  BY <1>0 DEF JobDone, Launched, Published
<1>2. CASE DriverStep(b) \/ Raise(b)
  BY <1>0, <1>2, DriverMoves
<1>3. CASE Killed(b)
  BY <1>0, <1>3 DEF Killed, Driver
<1>4. CASE Begins(b)
  BY <1>0, <1>4 DEF Begins, Start
<1>5. CASE Stays(b)
  BY <1>0, <1>5 DEF Stays
<1> QED  BY <1>1, <1>2, <1>3, <1>4, <1>5 DEF JobMoves

\* Whatever the rest of the system does meanwhile, what a stream relies on stays.
LEMMA StreamFrame ==
  ASSUME TypeOK, OwnInv, NEW b \in Batch, JobDone(b), StreamTrue(b), JobMoves(b),
         stream'[b] = stream[b], row[b].ray_job_id => row'[b].ray_job_id
  PROVE  StreamTrue(b)'
<1>1. CASE stream[b].pc \in Promising
  <2>1. Published(b) /\ Published(b)'
    BY <1>1, PublishedMoves DEF StreamTrue, JobDone
  <2>2. ASSUME Publishable(stream[b].file, disk[b].input, driver[b].run)
        PROVE  Publishable(stream[b].file, disk'[b].input, driver'[b].run)
    BY <2>1, <2>2, JobGoesOn, PublishableLater
  <2> QED  BY <1>1, <2>1, <2>2 DEF StreamTrue
<1>2. CASE stream[b].pc \notin Promising
  BY <1>2 DEF StreamTrue, Promising
<1> QED  BY <1>1, <1>2

LEMMA WrittenIsThere ==
  ASSUME NEW f, NEW n, NEW k \in Nat, Publishable(f, n, k)
  PROVE  f # Absent
<1>1. ~IsTorn(Absent)
  BY DEF IsTorn, Absent
<1>2. ~Complete(Absent, n)
  BY DEF Complete, IsWhole, Absent
<1> QED  BY <1>1, <1>2 DEF Publishable

\* A step of the client or of the server that answers it.
LEMMA StreamStepTrue ==
  ASSUME TypeOK, StreamTypeOK, OwnInv, SaidTrue, NEW b \in Batch, StreamTrue(b), StreamStep(b),
         UNCHANGED vars
  PROVE  StreamTrue(b)'
<1> USE DEF StreamTypeOK, Promising
<1>0. /\ stream[b] \in Stream /\ UNCHANGED <<disk, driver, row>>
      /\ (Published(b) => Published(b)') /\ driver[b].run \in Nat
  BY MaxRunsAssumption DEF vars, Published, TypeOK, InferTypeOK, Driver
<1>1. CASE Look(b)
  BY <1>0, <1>1 DEF Look, Stream, StreamTrue
<1>2. CASE LookUp(b)
  <2>1. row[b].status = "completed" => row[b].ray_job_id /\ Published(b)
    BY DEF SaidTrue, OwnInv, RowMade, Untouched, Refused, RefusedRow, QueuedRow, NoRow, Exists
  <2> QED  BY <1>0, <1>2, <2>1 DEF LookUp, Move, Stream, StreamTrue
<1>3. CASE CheckFile(b)
  <2>1. stream[b].pc = "found" => disk[b].results # Absent
    BY <1>0, WrittenIsThere DEF StreamTrue, Published
  <2> QED  BY <1>0, <1>3, <2>1 DEF CheckFile, Move, Results, Stream, StreamTrue
<1>4. CASE Open(b)
  <2>1. stream[b].pc = "ok" /\ Published(b) /\ disk[b].results # Absent
    BY <1>0, <1>4, WrittenIsThere DEF Open, StreamTrue, Published
  <2>2. /\ stream'[b].pc = "reading" /\ stream'[b].file = disk[b].results
        /\ stream'[b].rows = 0 /\ stream'[b].runs = {}
    BY <1>0, <1>4, <2>1 DEF Open, Results, Stream, StreamTrue
  <2>3. disk[b].results.ok \in Nat /\ disk[b].results.err \in Nat
    BY MaxPromptsAssumption DEF TypeOK, InferTypeOK, Dir, File
  <2> QED  BY <1>0, <2>1, <2>2, <2>3 DEF StreamTrue, Published
<1>5. CASE Yield(b)
  <2>1. stream[b].rows \in Nat /\ stream[b].file.ok \in Nat /\ stream[b].file.err \in Nat
    BY <1>0, MaxPromptsAssumption DEF Stream, File
  <2>2. /\ stream'[b].pc = "reading" /\ stream'[b].file = stream[b].file
        /\ stream'[b].rows = stream[b].rows + 1 /\ stream[b].pc = "reading"
        /\ stream'[b].runs = stream[b].runs \cup {stream[b].file.run}
        /\ stream[b].rows < stream[b].file.ok + stream[b].file.err
    BY <1>0, <1>5 DEF Yield, Stream
  <2> QED  BY <1>0, <2>1, <2>2 DEF StreamTrue
<1>6. CASE EndOfFile(b)
  BY <1>0, <1>6 DEF EndOfFile, Move, Stream, StreamTrue
<1> QED
  BY <1>1, <1>2, <1>3, <1>4, <1>5, <1>6 DEF StreamStep

LEMMA StreamTypeStep ==
  ASSUME TypeOK, StreamTypeOK, \A b \in Batch : StreamTrue(b), [StreamNext]_streamVars
  PROVE  StreamTypeOK'
<1> USE DEF StreamTypeOK
<1>1. CASE UNCHANGED stream
  BY <1>1
<1>2. ASSUME NEW b \in Batch, StreamStep(b)
      PROVE  StreamTypeOK'
  <2>0. stream[b] \in Stream
    OBVIOUS
  <2>1. ASSUME NEW s \in Stream, stream' = [stream EXCEPT ![b] = s]
        PROVE  StreamTypeOK'
    BY <2>1
  <2>2. CASE Look(b)
    BY <2>0, <2>2 DEF Look, Terminal, Stream
  <2>3. CASE LookUp(b)
    BY <2>0, <2>3 DEF LookUp, Move, Stream
  <2>4. CASE CheckFile(b)
    BY <2>0, <2>4 DEF CheckFile, Move, Stream
  <2>5. CASE Open(b)
    <3>1. disk[b].results \in File
      BY DEF TypeOK, InferTypeOK, Dir
    <3> QED  BY <2>0, <2>5, <3>1 DEF Open, Results, Stream
  <2>6. CASE Yield(b)
    <3>1. /\ stream[b].rows \in Nat /\ stream[b].file \in File
          /\ stream[b].rows < stream[b].file.ok + stream[b].file.err
          /\ stream[b].pc = "reading"
      BY <2>0, <2>6, MaxPromptsAssumption DEF Yield, Stream
    <3>2. disk[b].input \in 0..MaxPrompts /\ driver[b].run \in Nat
      BY MaxRunsAssumption DEF TypeOK, InferTypeOK, Dir, Driver
    <3>3. Publishable(stream[b].file, disk[b].input, driver[b].run)
      BY <3>1 DEF StreamTrue
    <3>4. stream[b].file.ok + stream[b].file.err <= disk[b].input
      <4>1. CASE Complete(stream[b].file, disk[b].input)
        BY <3>2, <4>1 DEF Complete
      <4> QED  BY <3>3, <4>1 DEF Publishable
    <3>5. stream[b].rows + 1 \in 0..MaxPrompts /\ stream[b].file.run \in 0..MaxRuns
      BY <3>1, <3>2, <3>4, MaxPromptsAssumption DEF File
    <3> QED  BY <2>0, <2>6, <3>5 DEF Yield, Stream
  <2>7. CASE EndOfFile(b)
    BY <2>0, <2>7 DEF EndOfFile, Move, Stream
  <2> QED  BY <1>2, <2>2, <2>3, <2>4, <2>5, <2>6, <2>7 DEF StreamStep
<1> QED
  BY <1>1, <1>2 DEF StreamNext, streamVars

-----------------------------------------------------------------------------
(* The theorems.                                                             *)

LEMMA StreamInvInit == StreamInit => TypeOK /\ StreamTypeOK /\ StreamInv
<1> SUFFICES ASSUME StreamInit
             PROVE  TypeOK /\ StreamTypeOK /\ StreamInv
  OBVIOUS
<1>1. TypeOK /\ OwnInv /\ JobInv
  BY TypeInit, ServiceInvInit, OwnPart DEF StreamInit, ServiceInv
<1>2. StreamTypeOK
  <2>1. NoStream \in Stream
    BY MaxPromptsAssumption, MaxRunsAssumption DEF NoStream, Stream, File, Absent
  <2> QED  BY <2>1 DEF StreamInit, StreamTypeOK
<1>3. \A b \in Batch : JobDone(b)
  BY <1>1 DEF JobInv, JobDone, Launched, StreamInit, Init, IdleDriver, RayInit
<1>4. SaidTrue
  BY DEF SaidTrue, StreamInit, Init, CreateInit, PollerInit, NoRow, Between, Holding
<1>5. \A b \in Batch : StreamTrue(b)
  BY DEF StreamTrue, StreamInit, NoStream, Promising
<1> QED  BY <1>1, <1>2, <1>3, <1>4, <1>5 DEF StreamInv

LEMMA StreamServiceType ==
  ASSUME TypeOK, [StreamNext]_streamVars
  PROVE  TypeOK'
<1>1. CASE [Next]_vars
  BY <1>1, TypeStep
<1>2. ASSUME NEW b \in Batch, Rerun(b)
      PROVE  TypeOK'
  BY <1>2, StartRaiseKill DEF Rerun, TypeOK, RayTypeOK, CreateTypeOK, PollerTypeOK
<1> QED  BY <1>1, <1>2 DEF StreamNext, streamVars

LEMMA StreamInvStep ==
  ASSUME TypeOK, StreamTypeOK, StreamInv, [StreamNext]_streamVars
  PROVE  StreamInv'
<1>1. OwnInv /\ SaidTrue /\ \A b \in Batch : JobDone(b) /\ StreamTrue(b)
  BY DEF StreamInv
<1>2. \A b \in Batch : JobDone(b)'
  BY <1>1, JobsMove, JobDoneMoves
<1>3. ASSUME NEW b \in Batch
      PROVE  StreamTrue(b)'
  <2>1. ASSUME stream'[b] = stream[b], row[b].ray_job_id => row'[b].ray_job_id
        PROVE  StreamTrue(b)'
    BY <1>1, <2>1, JobsMove, StreamFrame
  <2>2. CASE [Next]_vars /\ UNCHANGED stream
    BY <1>1, <2>1, <2>2, IdsStay
  <2>3. ASSUME NEW c \in Batch, StreamStep(c), UNCHANGED vars
        PROVE  StreamTrue(b)'
    <3>1. CASE c = b
      BY <1>1, <2>3, <3>1, StreamStepTrue
    <3>2. CASE c # b
      <4>1. stream'[b] = stream[b] /\ row' = row
        BY <2>3, <3>2 DEF StreamStep, Look, LookUp, CheckFile, Open, Yield, EndOfFile, Move,
                          StreamTypeOK, vars
      <4> QED  BY <2>1, <4>1
    <3> QED  BY <3>1, <3>2
  <2>4. ASSUME NEW c \in Batch, Rerun(c), UNCHANGED stream
        PROVE  StreamTrue(b)'
    BY <2>1, <2>4 DEF Rerun
  <2> QED  BY <2>2, <2>3, <2>4 DEF StreamNext, streamVars
<1> QED  BY <1>1, <1>2, <1>3, OwnStep, SaidStep DEF StreamInv

LEMMA StreamInductive == StreamSpec => [](TypeOK /\ StreamTypeOK /\ StreamInv)
<1>1. TypeOK /\ StreamTypeOK /\ StreamInv /\ [StreamNext]_streamVars
        => (TypeOK /\ StreamTypeOK /\ StreamInv)'
  <2>1. StreamInv => \A b \in Batch : StreamTrue(b)
    BY DEF StreamInv
  <2> QED  BY <2>1, StreamServiceType, StreamTypeStep, StreamInvStep
<1> QED  BY <1>1, StreamInvInit, PTL DEF StreamSpec

\* Type correctness of the streams: never more rows than there are prompts.
THEOREM StreamTypeCorrect == StreamSpec => []StreamTypeOK
BY StreamInductive, PTL

\* A stream that came to its end is the result of one execution, for every number of
\* pods, pollers and executions by hand, whatever fails.
THEOREM StreamIsOneResultAlways == StreamSpec => []StreamIsOneResult
<1>1. TypeOK /\ StreamTypeOK /\ StreamInv => StreamIsOneResult
  <2> SUFFICES ASSUME TypeOK, StreamTypeOK, StreamInv, NEW b \in Batch, stream[b].pc = "done"
               PROVE  /\ stream[b].runs \subseteq {stream[b].file.run}
                      /\ \/ stream[b].rows = row[b].input_count
                         \/ /\ IsTorn(stream[b].file) /\ stream[b].file.run > 1
                            /\ driver[b].run > 2
    BY DEF StreamIsOneResult
  <2>1. /\ row[b].ray_job_id /\ stream[b].runs \subseteq {stream[b].file.run}
        /\ stream[b].rows = stream[b].file.ok + stream[b].file.err
        /\ Publishable(stream[b].file, disk[b].input, driver[b].run)
    BY DEF StreamInv, StreamTrue, Promising
  <2>2. row[b].input_count = disk[b].input
    BY <2>1 DEF StreamInv, OwnInv, RowMade
  <2>3. CASE Complete(stream[b].file, disk[b].input)
    BY <2>1, <2>2, <2>3 DEF Complete
  <2>4. CASE IsTorn(stream[b].file) /\ stream[b].file.run \in 2..(driver[b].run - 1)
    <3>1. driver[b].run \in Nat
      BY MaxRunsAssumption DEF StreamInv, TypeOK, InferTypeOK, Driver
    <3>2. \A r, k : k \in Nat /\ r \in 2..(k - 1) => r > 1 /\ k > 2
      OBVIOUS
    <3> QED  BY <2>1, <2>4, <3>1, <3>2
  <2> QED  BY <2>1, <2>3, <2>4 DEF Publishable
<1> QED  BY <1>1, StreamInductive, PTL

\* No answer promises a body that is not there, for every number of pods: the row
\* says completed only once the results are published, and no re-run unpublishes them.
THEOREM NoEmptyPromise ==
  StreamSpec => [](\A b \in Batch : stream[b].pc \notin {"error", "broken"})
<1>1. TypeOK /\ StreamTypeOK /\ StreamInv
        => \A b \in Batch : stream[b].pc \notin {"error", "broken"}
  BY DEF StreamInv, StreamTrue
<1> QED  BY <1>1, StreamInductive, PTL

-----------------------------------------------------------------------------
(* One pod.                                                                  *)

LEMMA StreamOnePodStep ==
  ASSUME TypeOK, OwnInv, OnePodInv, SinglePod, [StreamNext]_streamVars
  PROVE  OnePodInv'
<1>1. CASE [Next]_vars
  BY <1>1, OnePodStep
<1>2. ASSUME NEW b \in Batch, Rerun(b)
      PROVE  OnePodInv'
  BY <1>2 DEF Rerun, OnePodInv, Kempt, Fresh
<1> QED  BY <1>1, <1>2 DEF StreamNext, streamVars

LEMMA SeenStep ==
  ASSUME TypeOK, StreamTypeOK, OwnInv, OnePodInv, NEW b \in Batch, SeenTrue(b),
         [StreamNext]_streamVars
  PROVE  SeenTrue(b)'
<1>1. CASE [Next]_vars /\ UNCHANGED stream
  <2>1. RowMoves(b)
    BY <1>1, RowsMove
  <2>2. row[b].status = "completed" => row'[b].status = "completed"
    BY <2>1 DEF RowMoves, Appears, GoesOn, ActiveStatuses, NoRow
  <2> QED  BY <1>1, <2>2 DEF SeenTrue
<1>2. ASSUME NEW c \in Batch, StreamStep(c), UNCHANGED vars
      PROVE  SeenTrue(b)'
  <2>0. stream[b] \in Stream /\ stream \in [Batch -> Stream] /\ row' = row
    BY <1>2 DEF StreamTypeOK, vars
  <2>1. CASE c = b
    BY <1>2, <2>0, <2>1 DEF StreamStep, Look, LookUp, CheckFile, Open, Yield, EndOfFile, Move,
                            SeenTrue, Stream
  <2>2. CASE c # b
    BY <1>2, <2>0, <2>2 DEF StreamStep, Look, LookUp, CheckFile, Open, Yield, EndOfFile, Move,
                            SeenTrue
  <2> QED  BY <2>1, <2>2
<1>3. ASSUME NEW c \in Batch, Rerun(c), UNCHANGED stream
      PROVE  SeenTrue(b)'
  BY <1>3 DEF Rerun, SeenTrue
<1> QED  BY <1>1, <1>2, <1>3 DEF StreamNext, streamVars

\* As long as pods do not overlap, a client that was told completed gets no 409, no
\* 500 and no body that breaks off, whatever fails and however often the script is
\* run again.
THEOREM StreamNeverBreaksAlways ==
  ASSUME SinglePod
  PROVE  StreamSpec => []StreamNeverBreaks
<1> DEFINE Seen == \A b \in Batch : SeenTrue(b)
<1>1. StreamInit => OnePodInv /\ Seen
  BY OnePodInit DEF StreamInit, NoStream, SeenTrue
<1>2. TypeOK /\ StreamTypeOK /\ StreamInv /\ OnePodInv /\ Seen /\ [StreamNext]_streamVars
        => (OnePodInv /\ Seen)'
  BY StreamOnePodStep, SeenStep DEF StreamInv
<1>3. TypeOK /\ StreamTypeOK /\ StreamInv /\ Seen => StreamNeverBreaks
  BY DEF StreamInv, StreamTrue, SeenTrue, StreamNeverBreaks
<1> HIDE DEF Seen
<1>4. StreamSpec => [](OnePodInv /\ Seen)
  BY <1>1, <1>2, StreamInductive, PTL DEF StreamSpec
<1> QED  BY <1>3, <1>4, StreamInductive, PTL

=============================================================================
