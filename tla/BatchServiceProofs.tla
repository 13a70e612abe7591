------------------------- MODULE BatchServiceProofs -------------------------
(***************************************************************************)
(* Theorems about the whole service, for any numbers of batches, pods,     *)
(* prompts and faults.                                                     *)
(***************************************************************************)
EXTENDS BatchService, BatchInferProofs

-----------------------------------------------------------------------------
(* Type correctness, one lemma per component.                                *)

\* The rows the code makes are rows, whatever it makes them of.
LEMMA RowsAreRows ==
  /\ NoRow \in Row
  /\ \A n \in 0..MaxPrompts : QueuedRow(n) \in Row
  /\ \A l, s, r \in Row : Flush(l, s, r) \in Row
<1>1. 0 \in 0..MaxPrompts
  BY MaxPromptsAssumption
<1> USE DEF Row, RowOver, BatchStatus, ActiveStatuses, TerminalStatuses, ErrorText
<1>2. NoRow \in Row
  BY <1>1 DEF NoRow
<1>3. ASSUME NEW n \in 0..MaxPrompts
      PROVE  QueuedRow(n) \in Row
  BY <1>1 DEF NoRow, QueuedRow
<1>4. ASSUME NEW l \in Row, NEW s \in Row, NEW r \in Row
      PROVE  Flush(l, s, r) \in Row
  BY DEF Flush, Dirty
<1> QED  BY <1>2, <1>3, <1>4

\* Setting the attributes of a loaded row makes a row.
LEMMA UpdatesAreRows ==
  ASSUME NEW r \in Row, NEW s \in BatchStatus, NEW m \in File
  PROVE  Update(r, s, m) \in Row
<1>1. 0 \in 0..MaxPrompts
  BY MaxPromptsAssumption
<1> QED
  BY <1>1 DEF Update, Row, RowOver, File, BatchStatus, ActiveStatuses,
              TerminalStatuses, ErrorText

\* What a request handler writes into its row makes a row.
LEMMA WritesType ==
  ASSUME TypeOK, NEW b \in Batch, InsertRow(b) \/ FailRow(b) \/ AttachJob(b)
  PROVE  row' \in [Batch -> Row]
<1>0. disk[b].input \in 0..MaxPrompts /\ row \in [Batch -> Row] /\ row[b] \in Row
  BY DEF TypeOK, InferTypeOK, CreateTypeOK, Dir
<1>1. CASE InsertRow(b)
  BY <1>0, <1>1, RowsAreRows DEF InsertRow
<1>2. CASE FailRow(b)
  <2>1. [row[b] EXCEPT !.status = "failed", !.error = "submit",
                       !.completed_at = TRUE] \in Row
    BY <1>0 DEF Row, RowOver, BatchStatus, TerminalStatuses, ErrorText
  <2>2. row' = [row EXCEPT ![b] = [row[b] EXCEPT
          !.status = "failed", !.error = "submit", !.completed_at = TRUE]]
    BY <1>2 DEF FailRow
  <2> QED  BY <1>0, <2>1, <2>2
<1>3. CASE AttachJob(b)
  <2>1. [row[b] EXCEPT !.ray_job_id = TRUE] \in Row
    BY <1>0 DEF Row, RowOver
  <2>2. row' = [row EXCEPT ![b] = [row[b] EXCEPT !.ray_job_id = TRUE]]
    BY <1>3 DEF AttachJob
  <2> QED  BY <1>0, <2>1, <2>2
<1> QED  BY <1>1, <1>2, <1>3

\* A request handler keeps the types.
LEMMA HandlersType ==
  ASSUME TypeOK, Handlers
  PROVE  InferTypeOK' /\ RayTypeOK' /\ CreateTypeOK'
<1> USE DEF TypeOK, CreateTypeOK, RayTypeOK
<1>1. CASE Request
  <2>1. PICK b \in Batch, p \in Pod, n \in 1..MaxPrompts : Accept(b, p, n)
    BY <1>1 DEF Request
  <2>2. n \in 0..MaxPrompts
    BY MaxPromptsAssumption
  <2>3. InferTypeOK'
    BY <2>1, <2>2 DEF Accept, InferTypeOK, Dir
  <2>4. post' \in [Batch -> Handler]
    BY <2>1 DEF Accept, Handler, InFlight
  <2> QED  BY <2>1, <2>3, <2>4 DEF Accept
<1>2. CASE \E b \in Batch : CreateStep(b)
  <2>1. PICK b \in Batch : CreateStep(b)
    BY <1>2
  <2>2. InferTypeOK'
    BY <2>1 DEF CreateStep, Insert, Submit, MarkFailed, Refuse, Attach, Respond, InferTypeOK
  <2>3. post' \in [Batch -> Handler]
    <3>1. PICK c \in InFlight \cup Replied : post' = [post EXCEPT ![b].pc = c]
      <4>1. CASE Insert(b)   BY <4>1 DEF Insert, Advance, InFlight
      <4>2. CASE Submit(b)   BY <4>2 DEF Submit, Advance, InFlight
      <4>3. CASE MarkFailed(b)  BY <4>3 DEF MarkFailed, Advance, InFlight
      <4>6. CASE Refuse(b)   BY <4>6 DEF Refuse, Advance, Replied
      <4>4. CASE Attach(b)   BY <4>4 DEF Attach, Advance, InFlight
      <4>5. CASE Respond(b)  BY <4>5 DEF Respond, Advance, Replied
      <4> QED  BY <2>1, <4>1, <4>2, <4>3, <4>4, <4>5, <4>6 DEF CreateStep
    <3>2. [post[b] EXCEPT !.pc = c] \in Handler
      BY DEF Handler
    <3> QED  BY <3>1, <3>2
  <2>4. ray' \in [Batch -> JobStatus \cup {"UNKNOWN"}]
    BY <2>1 DEF CreateStep, Insert, Submit, MarkFailed, Refuse, Attach, Respond, JobStatus
  <2>5. row' \in [Batch -> Row]
    <3>1. InsertRow(b) \/ FailRow(b) \/ AttachJob(b) \/ row' = row
      BY <2>1 DEF CreateStep, Insert, Submit, MarkFailed, Refuse, Attach, Respond
    <3> QED  BY <3>1, WritesType
  <2> QED  BY <2>2, <2>3, <2>4, <2>5
<1> QED  BY <1>1, <1>2 DEF Handlers

\* So does a handler that something goes wrong in.
LEMMA HandlerFaultsType ==
  ASSUME TypeOK, HandlerFault
  PROVE  InferTypeOK' /\ RayTypeOK' /\ CreateTypeOK' /\ faults' \in 0..MaxFaults
<1>1. faults' \in 0..MaxFaults
  <2>1. faults < MaxFaults /\ faults' = faults + 1
    BY DEF HandlerFault, Strike
  <2> QED  BY <2>1, FaultsAssumption DEF TypeOK
<1>2. PICK b \in Batch : \/ SessionRaises(b) \/ CommitUnheard(b)
                         \/ \E a \in BOOLEAN : SubmitFails(b, a) \/ SubmitRaises(b, a)
  BY DEF HandlerFault
<1> USE DEF TypeOK, CreateTypeOK, RayTypeOK, InferTypeOK, Handler, InFlight, Replied
<1>3. CASE SessionRaises(b)
  BY <1>1, <1>3 DEF SessionRaises
<1>5. CASE CommitUnheard(b)
  <2>1. InsertRow(b) \/ FailRow(b) \/ AttachJob(b)
    BY <1>5 DEF CommitUnheard
  <2>2. post' \in [Batch -> Handler]
    BY <1>5 DEF CommitUnheard
  <2> QED  BY <1>1, <1>5, <2>1, <2>2, WritesType DEF CommitUnheard
<1>4. ASSUME NEW a \in BOOLEAN, SubmitFails(b, a) \/ SubmitRaises(b, a)
      PROVE  InferTypeOK' /\ RayTypeOK' /\ CreateTypeOK'
  <2>1. post' \in [Batch -> Handler]
    BY <1>4 DEF SubmitFails, SubmitRaises, Advance
  <2>2. ray' \in [Batch -> JobStatus \cup {"UNKNOWN"}]
    BY <1>4 DEF SubmitFails, SubmitRaises, JobStatus
  <2> QED  BY <1>4, <2>1, <2>2 DEF SubmitFails, SubmitRaises
<1> QED  BY <1>1, <1>2, <1>3, <1>4, <1>5

\* Between two batches a poller holds nothing of either.
LEMMA BetweenIsPoller ==
  ASSUME NEW pc \in {"off", "asleep", "sweep"}, NEW todo \in SUBSET Batch
  PROVE  Between(pc, todo) \in Poller
BY RowsAreRows DEF Between, Poller

\* Ray's statuses are mapped into the vocabulary of the API.
LEMMA MappedStatus ==
  ASSUME NEW s
  PROVE  MapStatus(s) \in BatchStatus
BY DEF MapStatus, BatchStatus, ActiveStatuses, TerminalStatuses

\* So does a poller, whatever it meets.
LEMMA PollersType ==
  ASSUME TypeOK, NEW p \in Pod,
         PollStep(p) \/ CommitFails(p) \/ \E b \in Batch : AskFails(p, b)
  PROVE  InferTypeOK' /\ RayTypeOK' /\ CreateTypeOK' /\ PollerTypeOK'
<1> USE DEF TypeOK, PollerTypeOK, pollerLeaves, Holding
<1>0. poller[p] \in Poller /\ poller[p].todo \subseteq Batch
  BY DEF Poller
<1>1. InferTypeOK' /\ RayTypeOK' /\ post' = post
  BY DEF PollStep, Sweep, Sleep, Ask, JobUnknown, AskFails, MarkerUnreadable, NothingNew,
         Load, Commit, CommitFails, InferTypeOK, RayTypeOK
<1>2. CASE Sweep(p) \/ Sleep(p)
  BY <1>0, <1>1, <1>2, BetweenIsPoller DEF Sweep, Sleep, CreateTypeOK, Between
<1>3. ASSUME NEW b \in Batch, Ask(p, b)
      PROVE  CreateTypeOK' /\ PollerTypeOK'
  <2>1. [poller[p] EXCEPT !.pc = "asked", !.cur = b, !.seen = MapStatus(ray[b])] \in Poller
    BY <1>0, MappedStatus DEF Poller
  <2>2. poller' = [poller EXCEPT ![p] =
          [poller[p] EXCEPT !.pc = "asked", !.cur = b, !.seen = MapStatus(ray[b])]]
    BY <1>3 DEF Ask
  <2>3. poller' \in [Pod -> Poller]
    BY <2>1, <2>2
  <2> QED  BY <1>3, <2>2, <2>3, MappedStatus DEF Ask, CreateTypeOK
<1>4. ASSUME NEW b, Skip(p, b)
      PROVE  /\ poller' \in [Pod -> Poller]
             /\ \A q \in Pod : poller'[q].pc \in Holding =>
                  poller'[q].cur \in Batch /\ poller'[q].seen \in BatchStatus
  <2>1. Between("sweep", poller[p].todo \ {b}) \in Poller
    BY <1>0, BetweenIsPoller
  <2> QED  BY <1>4, <2>1 DEF Skip, Between
<1>5. CASE \E b \in Batch : AskFails(p, b) \/ JobUnknown(p, b)
  BY <1>1, <1>4, <1>5 DEF AskFails, JobUnknown, CreateTypeOK
<1>6. CASE MarkerUnreadable(p) \/ NothingNew(p) \/ CommitFails(p)
  BY <1>1, <1>4, <1>6 DEF MarkerUnreadable, NothingNew, CommitFails, CreateTypeOK
<1>7. CASE Load(p)
  <2> DEFINE b == poller[p].cur
             s == poller[p].seen
  <2>0. b \in Batch /\ s \in BatchStatus
    BY <1>7 DEF Load
  <2>1. row[b] \in Row /\ Marker(b, s) \in File
    BY <2>0, FilesAreFiles, MaxPromptsAssumption, MaxRunsAssumption
       DEF CreateTypeOK, Marker, InferTypeOK, Dir
  <2>2. [poller[p] EXCEPT !.pc = "loaded", !.loaded = row[b],
                          !.set = Update(row[b], s, Marker(b, s))] \in Poller
    BY <1>0, <2>0, <2>1, UpdatesAreRows DEF Poller
  <2>3. poller' = [poller EXCEPT ![p] =
          [poller[p] EXCEPT !.pc = "loaded", !.loaded = row[b],
                            !.set = Update(row[b], s, Marker(b, s))]]
    BY <1>7 DEF Load
  <2>4. poller' \in [Pod -> Poller]
    BY <2>2, <2>3
  <2>5. counted' \in [Batch -> 0..MaxCount]
    BY <1>7, <2>0 DEF Load, MaxCount
  <2>6. \A q \in Pod : poller'[q].pc \in Holding =>
          poller'[q].cur \in Batch /\ poller'[q].seen \in BatchStatus
    BY <1>0, <2>0, <2>3
  <2> QED  BY <1>1, <1>7, <2>4, <2>5, <2>6 DEF Load, CreateTypeOK
<1>8. CASE Commit(p)
  <2>1. poller[p].loaded \in Row /\ poller[p].set \in Row
    BY <1>0 DEF Poller
  <2>2. row' \in [Batch -> Row]
    BY <1>8, <2>1, RowsAreRows DEF Commit, CreateTypeOK
  <2> QED  BY <1>1, <1>4, <1>8, <2>2 DEF Commit, CreateTypeOK
<1> QED
  BY <1>1, <1>2, <1>3, <1>5, <1>6, <1>7, <1>8 DEF PollStep

\* So do the jobs and their drivers.
LEMMA ClusterType ==
  ASSUME TypeOK, Cluster \/ ClusterFault
  PROVE  InferTypeOK' /\ RayTypeOK'
<1> USE DEF TypeOK, RayTypeOK, JobStatus
<1>1. ASSUME NEW d \in Driver
      PROVE  KillDriver(d) \in Driver
  BY DEF KillDriver, Driver, Running, Ended
<1>2. ASSUME NEW b \in Batch, StartJob(b) \/ FinishJob(b) \/ NeverStarts(b)
      PROVE  InferTypeOK' /\ RayTypeOK'
  BY <1>2, StartRaiseKill DEF StartJob, FinishJob, NeverStarts, inferVars, InferTypeOK
<1>3. ASSUME NEW b \in Batch, DriverStep(b) \/ Raise(b) \/ Kill(b), UNCHANGED ray
      PROVE  InferTypeOK' /\ RayTypeOK'
  BY <1>3, DriverStepType, StartRaiseKill
<1>4. ASSUME NEW b \in Batch, StopJob(b)
      PROVE  InferTypeOK' /\ RayTypeOK'
  BY <1>1, <1>4 DEF StopJob, InferTypeOK
<1>5. CASE HeadRestart
  BY <1>1, <1>5 DEF HeadRestart, InferTypeOK
<1> QED
  BY <1>2, <1>3, <1>4, <1>5 DEF Cluster, ClusterFault

\* So do the pods.
LEMMA PodsType ==
  ASSUME TypeOK, NEW p \in Pod, Boot(p) \/ Shutdown(p) \/ Drain(p) \/ Crash(p)
  PROVE  /\ InferTypeOK' /\ RayTypeOK' /\ CreateTypeOK' /\ PollerTypeOK'
         /\ pod' \in [Pod -> {"up", "draining", "down"}]
<1> USE DEF TypeOK, others
<1>1. InferTypeOK' /\ RayTypeOK' /\ row' = row /\ counted' = counted
  BY DEF Boot, Shutdown, Drain, Crash, InferTypeOK, RayTypeOK
<1>2. /\ poller' \in [Pod -> Poller]
      /\ \A q \in Pod : poller'[q].pc \in Holding =>
           poller'[q].cur \in Batch /\ poller'[q].seen \in BatchStatus
  BY BetweenIsPoller DEF Boot, Shutdown, Drain, Crash, PollerTypeOK, Between, Holding
<1>3. post' \in [Batch -> Handler]
  <2>1. CASE Crash(p)
    BY <2>1 DEF Crash, LoseHandlers, CreateTypeOK, Handler, Replied
  <2> QED  BY <2>1 DEF Boot, Shutdown, Drain, CreateTypeOK
<1>4. pod' \in [Pod -> {"up", "draining", "down"}]
  BY DEF Boot, Shutdown, Drain, Crash
<1> QED  BY <1>1, <1>2, <1>3, <1>4 DEF CreateTypeOK, PollerTypeOK

LEMMA TypeInit == Init => TypeOK
<1> SUFFICES ASSUME Init PROVE TypeOK
  OBVIOUS
<1>1. 0 \in 0..MaxPrompts /\ 0 \in 0..MaxRuns /\ 0 \in 0..MaxFaults
  BY MaxPromptsAssumption, MaxRunsAssumption, FaultsAssumption
<1>2. InferTypeOK
  <2>1. EmptyDir \in Dir
    BY <1>1, FilesAreFiles DEF EmptyDir, Dir
  <2>2. IdleDriver \in Driver
    BY <1>1 DEF IdleDriver, Driver
  <2> QED  BY <2>1, <2>2 DEF Init, InferTypeOK
<1>3. RayTypeOK
  BY DEF Init, RayInit, RayTypeOK
<1>4. CreateTypeOK
  BY RowsAreRows DEF Init, CreateInit, CreateTypeOK, Handler
<1>5. PollerTypeOK
  BY BetweenIsPoller DEF Init, PollerInit, PollerTypeOK, Holding, Between, MaxCount
<1> QED  BY <1>1, <1>2, <1>3, <1>4, <1>5 DEF Init, TypeOK

LEMMA TypeStep == TypeOK /\ [Next]_vars => TypeOK'
<1> SUFFICES ASSUME TypeOK, [Next]_vars PROVE TypeOK'
  OBVIOUS
<1>0. ASSUME NEW k, Strike(k)
      PROVE  faults' \in 0..MaxFaults
  BY <1>0, FaultsAssumption DEF Strike, TypeOK
<1>1. CASE Handlers /\ UNCHANGED <<poller, counted, pod, faults>>
  BY <1>1, HandlersType DEF TypeOK, PollerTypeOK
<1>2. CASE HandlerFault /\ UNCHANGED <<poller, counted, pod>>
  BY <1>2, HandlerFaultsType DEF TypeOK, PollerTypeOK
<1>3. CASE Pollers /\ UNCHANGED <<pod, faults>>
  BY <1>3, PollersType DEF Pollers, TypeOK
<1>4. CASE PollerFault /\ UNCHANGED pod
  <2>1. faults' \in 0..MaxFaults
    BY <1>0, <1>4 DEF PollerFault
  <2> QED  BY <1>4, <2>1, PollersType DEF PollerFault, TypeOK
<1>5. CASE Cluster /\ UNCHANGED <<row, post, poller, counted, pod, faults>>
  BY <1>5, ClusterType DEF TypeOK, CreateTypeOK, PollerTypeOK
<1>6. CASE ClusterFault /\ UNCHANGED <<row, post, poller, counted, pod>>
  <2>1. faults' \in 0..MaxFaults
    BY <1>0, <1>6 DEF ClusterFault
  <2> QED  BY <1>6, <2>1, ClusterType DEF TypeOK, CreateTypeOK, PollerTypeOK
<1>7. CASE \E p \in Pod : Boot(p) \/ Shutdown(p)
  BY <1>7, PodsType DEF TypeOK, Boot, Shutdown
<1>8. CASE PodFault
  <2>1. faults' \in 0..MaxFaults
    BY <1>0, <1>8 DEF PodFault
  <2> QED  BY <1>8, <2>1, PodsType DEF PodFault, TypeOK
<1>9. CASE UNCHANGED vars
  BY <1>9 DEF vars, TypeOK, InferTypeOK, RayTypeOK, CreateTypeOK, PollerTypeOK
<1> QED
  BY <1>1, <1>2, <1>3, <1>4, <1>5, <1>6, <1>7, <1>8, <1>9 DEF Next

\* Type correctness of the whole service.
THEOREM TypeCorrect == Spec => []TypeOK
BY TypeInit, TypeStep, PTL DEF Spec

-----------------------------------------------------------------------------
(***************************************************************************)
(* The inductive invariant.  A poller acts on what it saw some steps ago;  *)
(* the invariant says what of it is still true when it does: a row that    *)
(* had a job id has it for good, a terminal answer stays Ray's answer      *)
(* until Ray forgets it, and the counts of a finished job do not change.   *)
(***************************************************************************)

\* A job is submitted once, so its driver runs at most once, and Ray's success is
\* the driver's exit 0.
RunOnce(b) ==
  /\ driver[b].run \in {0, 1}
  /\ post[b].pc \in {"idle", "insert", "submit"} =>
       ray[b] = "UNKNOWN" /\ driver[b].pc = "idle"
  /\ ray[b] = "PENDING" => driver[b].pc = "idle"
  /\ ray[b] = "SUCCEEDED" => driver[b].pc = "exit0"

Untouched(b) == row[b] = QueuedRow(disk[b].input)
Refused(b)   == row[b] = RefusedRow(disk[b].input)

\* What the handler has made of the row by each of its program points.
RowMade(b) ==
  LET pc == post[b].pc
  IN  /\ pc \in {"idle", "insert"} => row[b] = NoRow
      /\ pc # "idle" => disk[b].input > 0
      /\ pc \in {"submit", "mark", "attach"} => Untouched(b)
      /\ pc \in {"read", "ok"} => row[b].ray_job_id
      /\ pc \in {"refuse", "unavailable"} => Refused(b)
      /\ ray[b] # "UNKNOWN" => Exists(row[b])
      /\ row[b].ray_job_id => Exists(row[b])
      /\ Exists(row[b]) =>
           /\ row[b].input_count = disk[b].input
           /\ ~row[b].ray_job_id =>
                \/ Untouched(b)
                \/ Refused(b) /\ pc \in {"refuse", "unavailable", "error", "lost"}

\* A terminal row carries Ray's verdict, and a completed one the counts.
Agrees(b, s) == s \in TerminalStatuses => ray[b] = "UNKNOWN" \/ s = MapStatus(ray[b])

RowTrue(b) ==
  /\ row[b].ray_job_id => Agrees(b, row[b].status)
  /\ row[b].status = "completed" =>
       /\ driver[b].pc = "exit0"
       /\ row[b].completed_count = disk[b].results.ok
       /\ row[b].failed_count = disk[b].results.err

\* What a poller holds.
AnswerTrue(p) ==
  LET b == poller[p].cur
      s == poller[p].seen
  IN  poller[p].pc \in Holding =>
        /\ b \in poller[p].todo
        /\ Agrees(b, s)
        /\ s = "completed" => driver[b].pc = "exit0"

SessionTrue(p) ==
  LET b == poller[p].cur
      s == poller[p].seen
      l == poller[p].loaded
      t == poller[p].set
  IN  poller[p].pc = "loaded" =>
        /\ l.ray_job_id /\ t.ray_job_id /\ t.input_count = l.input_count
        /\ t.status = s
        /\ s \in ActiveStatuses => l.status # s
        /\ s = "completed" =>
             /\ t.completed_count = disk[b].results.ok
             /\ t.failed_count = disk[b].results.err
             /\ l.completed_count = disk[b].results.ok =>
                  row[b].completed_count = disk[b].results.ok
             /\ l.failed_count = disk[b].results.err =>
                  row[b].failed_count = disk[b].results.err
        /\ s # "completed" =>
             t.completed_count = l.completed_count /\ t.failed_count = l.failed_count

PollerTrue(p) ==
  /\ \A b \in poller[p].todo : row[b].ray_job_id
  /\ AnswerTrue(p) /\ SessionTrue(p)

ServiceInv ==
  /\ JobInv
  /\ \A b \in Batch : RunOnce(b) /\ RowMade(b) /\ RowTrue(b)
  /\ \A p \in Pod : PollerTrue(p)

-----------------------------------------------------------------------------
(* What a step leaves alone keeps its description.                           *)

BatchInv(b) == FirstRun(b) /\ ByNow(b) /\ RunOnce(b) /\ RowMade(b) /\ RowTrue(b)

LEMMA Parts ==
  ServiceInv <=> (\A b \in Batch : BatchInv(b)) /\ (\A p \in Pod : PollerTrue(p))
BY DEF ServiceInv, BatchInv, JobInv

\* The part of the invariant that does not depend on how often a driver has run.
PollerOwn(p) ==
  LET b == poller[p].cur
      s == poller[p].seen
      l == poller[p].loaded
      t == poller[p].set
  IN  /\ \A c \in poller[p].todo : row[c].ray_job_id
      /\ poller[p].pc \in Holding => b \in poller[p].todo
      /\ poller[p].pc = "loaded" =>
           /\ l.ray_job_id /\ t.ray_job_id /\ t.input_count = l.input_count
           /\ t.status = s
           /\ s \in ActiveStatuses => l.status # s

OwnInv ==
  /\ \A b \in Batch : RowMade(b)
  /\ \A p \in Pod : PollerOwn(p)

LEMMA OwnOfTrue ==
  ASSUME NEW p, PollerTrue(p)
  PROVE  PollerOwn(p)
BY DEF PollerTrue, AnswerTrue, SessionTrue, PollerOwn

LEMMA OwnPart == ServiceInv => OwnInv
BY OwnOfTrue DEF ServiceInv, OwnInv

LEMMA BatchFrame ==
  ASSUME NEW b \in Batch, BatchInv(b),
         disk'[b] = disk[b], driver'[b] = driver[b], ray'[b] = ray[b],
         row'[b] = row[b], post'[b] = post[b]
  PROVE  BatchInv(b)'
BY DEF BatchInv, FirstRun, ByNow, Unpublished, PublishedIsComplete, RunOnce, RowMade,
       Untouched, Refused, RowTrue, Agrees

\* The cluster only ever takes Ray's verdict away, and no result of a driver that
\* has exited 0 changes.
Kept(b) ==
  /\ row'[b] = row[b]
  /\ \A s : Agrees(b, s) => Agrees(b, s)'
  /\ driver[b].pc = "exit0" => driver'[b].pc = "exit0" /\ disk'[b].results = disk[b].results

LEMMA PollerFrame ==
  ASSUME NEW p \in Pod, PollerTrue(p), poller'[p] = poller[p],
         \A b \in poller[p].todo : Kept(b)
  PROVE  PollerTrue(p)'
<1>1. \A b \in poller'[p].todo : row'[b].ray_job_id
  BY DEF PollerTrue, Kept
<1>2. AnswerTrue(p)'
  BY DEF PollerTrue, AnswerTrue, Kept
<1>3. SessionTrue(p)'
  <2> SUFFICES ASSUME poller[p].pc = "loaded"
               PROVE  SessionTrue(p)'
    BY DEF SessionTrue
  <2>1. poller[p].cur \in poller[p].todo
    BY DEF PollerTrue, AnswerTrue, Holding
  <2>2. poller[p].seen = "completed" => driver[poller[p].cur].pc = "exit0"
    BY DEF PollerTrue, AnswerTrue, Holding
  <2>3. Kept(poller[p].cur)
    BY <2>1
  <2> QED  BY <2>2, <2>3 DEF PollerTrue, SessionTrue, Kept
<1> QED  BY <1>1, <1>2, <1>3 DEF PollerTrue

-----------------------------------------------------------------------------
(* Request handlers                                                          *)

HandlerAct(b) ==
  \/ \E p \in Pod, n \in 1..MaxPrompts : Accept(b, p, n)
  \/ CreateStep(b)
  \/ SessionRaises(b) \/ CommitUnheard(b)
  \/ \E a \in BOOLEAN : SubmitFails(b, a) \/ SubmitRaises(b, a)

\* A handler writes its row at three of its program points, and commits all of what
\* it writes there or nothing.
LEMMA HandlerWrites ==
  ASSUME NEW b \in Batch, HandlerAct(b)
  PROVE  \/ row' = row
         \/ post[b].pc = "insert" /\ InsertRow(b)
         \/ post[b].pc = "mark" /\ FailRow(b)
         \/ post[b].pc = "attach" /\ AttachJob(b)
BY DEF HandlerAct, CreateStep, Accept, Insert, Submit, MarkFailed, Refuse, Attach, Respond,
       SessionRaises, CommitUnheard, SubmitFails, SubmitRaises, Advance

LEMMA HandlerFrame ==
  ASSUME TypeOK, NEW b \in Batch, HandlerAct(b)
  PROVE  /\ driver' = driver
         /\ \A c \in Batch : c # b => /\ disk'[c] = disk[c] /\ ray'[c] = ray[c]
                                     /\ row'[c] = row[c] /\ post'[c] = post[c]
<1> USE DEF TypeOK, InferTypeOK, RayTypeOK, CreateTypeOK
<1>1. CASE \E p \in Pod, n \in 1..MaxPrompts : Accept(b, p, n)
  BY <1>1 DEF Accept
<1>2. CASE CreateStep(b)
  BY <1>2 DEF CreateStep, Insert, InsertRow, Submit, MarkFailed, FailRow, Refuse, Attach,
              AttachJob, Respond, Advance
<1>3. CASE SessionRaises(b) \/ CommitUnheard(b)
  BY <1>3 DEF SessionRaises, CommitUnheard, InsertRow, FailRow, AttachJob
<1>4. CASE \E a \in BOOLEAN : SubmitFails(b, a) \/ SubmitRaises(b, a)
  BY <1>4 DEF SubmitFails, SubmitRaises, Advance
<1> QED  BY <1>1, <1>2, <1>3, <1>4 DEF HandlerAct

\* Until the job id is attached nobody polls the row; after that the handler
\* changes nothing but itself.
LEMMA HandlerKeepsPolled ==
  ASSUME TypeOK, NEW b \in Batch, RowMade(b), row[b].ray_job_id, HandlerAct(b)
  PROVE  disk'[b] = disk[b] /\ ray'[b] = ray[b] /\ row'[b] = row[b]
<1>1. post[b].pc \notin {"idle", "insert", "submit", "mark", "refuse", "attach"}
  <2>1. ~NoRow.ray_job_id
    BY DEF NoRow
  <2>2. ~QueuedRow(disk[b].input).ray_job_id
    BY DEF QueuedRow, NoRow
  <2>3. ~RefusedRow(disk[b].input).ray_job_id
    BY DEF RefusedRow, QueuedRow, NoRow
  <2> QED  BY <2>1, <2>2, <2>3 DEF RowMade, Untouched, Refused
<1>2. \A p \in Pod, n \in 1..MaxPrompts : ~Accept(b, p, n)
  BY <1>1 DEF Accept
<1>3. \A a \in BOOLEAN : ~SubmitFails(b, a) /\ ~SubmitRaises(b, a)
  BY <1>1 DEF SubmitFails, SubmitRaises, Advance
<1>4. CreateStep(b) => Respond(b)
  BY <1>1 DEF CreateStep, Insert, Submit, MarkFailed, Refuse, Attach, Advance
<1>5. ~CommitUnheard(b)
  BY <1>1 DEF CommitUnheard
<1> QED
  BY <1>2, <1>3, <1>4, <1>5 DEF HandlerAct, Respond, SessionRaises

\* A handler keeps its description of the row, whatever the cluster does.
LEMMA HandlerRowMade ==
  ASSUME TypeOK, NEW b \in Batch, RowMade(b), HandlerAct(b)
  PROVE  RowMade(b)'
<1> USE DEF RowMade, Untouched, Refused, Exists, RefusedRow, QueuedRow, NoRow, Advance
<1>0. /\ disk[b] \in Dir /\ row[b] \in Row /\ post[b] \in Handler
      /\ disk \in [Batch -> Dir] /\ row \in [Batch -> Row]
      /\ post \in [Batch -> Handler] /\ ray \in [Batch -> JobStatus \cup {"UNKNOWN"}]
  BY DEF TypeOK, InferTypeOK, CreateTypeOK, RayTypeOK
<1>1. CASE \E p \in Pod, n \in 1..MaxPrompts : Accept(b, p, n)
  BY <1>0, <1>1 DEF Accept, Dir, Handler
<1>2. CASE Insert(b)
  BY <1>0, <1>2 DEF Insert, InsertRow, Handler
<1>3. CASE Submit(b)
  BY <1>0, <1>3 DEF Submit, Handler
<1>4. CASE MarkFailed(b)
  BY <1>0, <1>4 DEF MarkFailed, FailRow, Handler
<1>5. CASE Attach(b)
  BY <1>0, <1>5 DEF Attach, AttachJob, Handler
<1>6. CASE Respond(b)
  BY <1>0, <1>6 DEF Respond, Handler
<1>7. CASE SessionRaises(b)
  BY <1>0, <1>7 DEF SessionRaises, Handler
<1>9. CASE Refuse(b)
  BY <1>0, <1>9 DEF Refuse, Handler
<1>10. CASE CommitUnheard(b)
  <2>1. /\ disk' = disk /\ ray' = ray /\ post'[b].pc = "error"
        /\ post[b].pc \in {"insert", "mark", "attach"}
    BY <1>0, <1>10 DEF CommitUnheard, Handler
  <2>2. CASE post[b].pc = "insert" /\ InsertRow(b)
    BY <1>0, <2>1, <2>2 DEF InsertRow
  <2>3. CASE post[b].pc = "mark" /\ FailRow(b)
    BY <1>0, <2>1, <2>3 DEF FailRow
  <2>4. CASE post[b].pc = "attach" /\ AttachJob(b)
    BY <1>0, <2>1, <2>4 DEF AttachJob
  <2> QED  BY <1>10, <2>2, <2>3, <2>4 DEF CommitUnheard
<1>8. ASSUME NEW a \in BOOLEAN, SubmitFails(b, a) \/ SubmitRaises(b, a)
      PROVE  RowMade(b)'
  <2>1. /\ post[b].pc = "submit" /\ post'[b].pc \in {"mark", "error"}
        /\ disk' = disk /\ row' = row
    BY <1>0, <1>8 DEF SubmitFails, SubmitRaises, Handler
  <2> QED  BY <1>0, <2>1
<1> QED
  BY <1>1, <1>2, <1>3, <1>4, <1>5, <1>6, <1>7, <1>8, <1>9, <1>10 DEF HandlerAct, CreateStep

LEMMA HandlerBatchInv ==
  ASSUME TypeOK, NEW b \in Batch, BatchInv(b), HandlerAct(b)
  PROVE  BatchInv(b)'
<1> USE DEF BatchInv
<1>0. /\ driver' = driver /\ disk[b] \in Dir /\ row[b] \in Row /\ post[b] \in Handler
      /\ disk \in [Batch -> Dir] /\ row \in [Batch -> Row]
      /\ post \in [Batch -> Handler] /\ ray \in [Batch -> JobStatus \cup {"UNKNOWN"}]
  BY HandlerFrame DEF TypeOK, InferTypeOK, CreateTypeOK, RayTypeOK
<1>1. FirstRun(b)' /\ ByNow(b)'
  <2>1. CASE disk'[b] = disk[b]
    BY <1>0, <2>1 DEF FirstRun, ByNow, Unpublished, PublishedIsComplete
  <2>2. CASE disk'[b] # disk[b]
    <3>1. PICK p \in Pod, n \in 1..MaxPrompts : Accept(b, p, n)
      BY <2>2 DEF HandlerAct, CreateStep, Insert, Submit, MarkFailed, Refuse, Attach,
                  Respond, SessionRaises, CommitUnheard, SubmitFails, SubmitRaises
    <3>2. driver[b].pc = "idle" /\ driver[b].run = 0
      BY <3>1 DEF Accept, RunOnce, FirstRun
    <3>3. /\ disk'[b].staging = disk[b].staging /\ disk'[b].success = disk[b].success
          /\ disk'[b].failure = disk[b].failure
      BY <1>0, <3>1 DEF Accept, Dir
    <3> QED  BY <1>0, <3>2, <3>3 DEF FirstRun, ByNow
  <2> QED  BY <2>1, <2>2
<1>2. RunOnce(b)' /\ RowTrue(b)'
  <2> USE DEF RunOnce, RowMade, RowTrue, Untouched, Agrees, Exists, QueuedRow, NoRow,
              TerminalStatuses, Advance
  <2>1. CASE \E p \in Pod, n \in 1..MaxPrompts : Accept(b, p, n)
    BY <1>0, <2>1 DEF Accept, Dir, Handler
  <2>2. CASE Insert(b)
    BY <1>0, <2>2 DEF Insert, InsertRow, Handler
  <2>3. CASE Submit(b)
    BY <1>0, <2>3 DEF Submit, Handler
  <2>4. CASE MarkFailed(b)
    BY <1>0, <2>4 DEF MarkFailed, FailRow, Handler
  <2>5. CASE Attach(b)
    BY <1>0, <2>5 DEF Attach, AttachJob, Handler
  <2>6. CASE Respond(b)
    BY <1>0, <2>6 DEF Respond, Handler
  <2>7. CASE SessionRaises(b)
    BY <1>0, <2>7 DEF SessionRaises, Handler
  <2>9. CASE Refuse(b)
    BY <1>0, <2>9 DEF Refuse, Handler
  <2>10. CASE CommitUnheard(b)
    <3>1. /\ disk' = disk /\ ray' = ray /\ post'[b].pc = "error"
          /\ post[b].pc \in {"insert", "mark", "attach"}
      BY <1>0, <2>10 DEF CommitUnheard, Handler
    <3>2. CASE post[b].pc = "insert" /\ InsertRow(b)
      BY <1>0, <3>1, <3>2 DEF InsertRow
    <3>3. CASE post[b].pc = "mark" /\ FailRow(b)
      BY <1>0, <3>1, <3>3 DEF FailRow
    <3>4. CASE post[b].pc = "attach" /\ AttachJob(b)
      BY <1>0, <3>1, <3>4 DEF AttachJob
    <3> QED  BY <2>10, <3>2, <3>3, <3>4 DEF CommitUnheard
  <2>8. ASSUME NEW a \in BOOLEAN, SubmitFails(b, a) \/ SubmitRaises(b, a)
        PROVE  RunOnce(b)' /\ RowTrue(b)'
    <3>1. /\ post[b].pc = "submit" /\ post'[b].pc \in {"mark", "error"}
          /\ disk' = disk /\ row' = row
          /\ ray'[b] = "PENDING" \/ ray'[b] = ray[b]
      BY <1>0, <2>8 DEF SubmitFails, SubmitRaises, Handler
    <3>2. row[b].status = "queued" /\ ~row[b].ray_job_id
      BY <3>1
    <3> QED  BY <1>0, <3>1, <3>2
  <2> QED
    BY <2>1, <2>2, <2>3, <2>4, <2>5, <2>6, <2>7, <2>8, <2>9, <2>10
       DEF HandlerAct, CreateStep
<1> QED  BY <1>1, <1>2, HandlerRowMade

LEMMA HandlerInv ==
  ASSUME TypeOK, ServiceInv, NEW b \in Batch, HandlerAct(b), UNCHANGED poller
  PROVE  ServiceInv'
<1>1. ASSUME NEW c \in Batch
      PROVE  BatchInv(c)'
  <2>1. CASE c = b
    BY <2>1, Parts, HandlerBatchInv
  <2>2. CASE c # b
    BY <2>2, Parts, HandlerFrame, BatchFrame
  <2> QED  BY <2>1, <2>2
<1>2. ASSUME NEW p \in Pod
      PROVE  PollerTrue(p)'
  <2>1. ASSUME NEW c \in poller[p].todo
        PROVE  Kept(c)
    <3>1. c \in Batch /\ row[c].ray_job_id
      BY Parts DEF PollerTrue, TypeOK, PollerTypeOK, Poller
    <3>2. disk'[c] = disk[c] /\ ray'[c] = ray[c] /\ row'[c] = row[c]
      <4>1. CASE c = b
        BY <3>1, <4>1, Parts, HandlerKeepsPolled DEF BatchInv
      <4>2. CASE c # b
        BY <3>1, <4>2, HandlerFrame
      <4> QED  BY <4>1, <4>2
    <3> QED  BY <3>2, HandlerFrame DEF Kept, Agrees
  <2> QED  BY <2>1, Parts, PollerFrame
<1> QED
  <2>1. (\A c \in Batch : BatchInv(c)') /\ (\A p \in Pod : PollerTrue(p)')
    BY <1>1, <1>2
  <2> QED  BY <2>1 DEF ServiceInv, JobInv, BatchInv

-----------------------------------------------------------------------------
(* Pollers                                                                   *)

PollerAct(p) == PollStep(p) \/ CommitFails(p) \/ \E b \in Batch : AskFails(p, b)

LEMMA PollersLeave ==
  ASSUME TypeOK, NEW p \in Pod, PollerAct(p)
  PROVE  /\ disk' = disk /\ driver' = driver /\ ray' = ray /\ post' = post
         /\ \A q \in Pod : q # p => poller'[q] = poller[q]
         /\ row' = row \/ Commit(p)
BY DEF PollerAct, PollStep, Sweep, Sleep, Ask, JobUnknown, AskFails, MarkerUnreadable,
       NothingNew, Load, Commit, CommitFails, Skip, pollerLeaves, TypeOK, PollerTypeOK

\* Between two batches a poller only needs its snapshot to have been right.
LEMMA BetweenIsTrue ==
  ASSUME NEW p \in Pod, NEW pc \in {"off", "asleep", "sweep"}, NEW todo,
         poller'[p] = Between(pc, todo), \A b \in todo : row'[b].ray_job_id
  PROVE  PollerTrue(p)'
BY DEF PollerTrue, AnswerTrue, SessionTrue, Between, Holding

LEMMA SkipIsTrue ==
  ASSUME TypeOK, NEW p \in Pod, NEW b, Skip(p, b),
         \A c \in poller[p].todo : row'[c].ray_job_id
  PROVE  PollerTrue(p)'
<1>1. poller'[p] = Between("sweep", poller[p].todo \ {b})
  BY DEF Skip, TypeOK, PollerTypeOK
<1> QED  BY <1>1, BetweenIsTrue

\* What an answer of Ray tells at the moment it is given.
LEMMA AskIsTrue ==
  ASSUME TypeOK, ServiceInv, NEW p \in Pod, NEW b \in Batch, Ask(p, b)
  PROVE  PollerTrue(p)'
<1>1. /\ poller'[p].pc = "asked" /\ poller'[p].cur = b
      /\ poller'[p].seen = MapStatus(ray[b]) /\ poller'[p].todo = poller[p].todo
      /\ b \in poller[p].todo /\ row' = row /\ ray' = ray /\ driver' = driver
  BY DEF Ask, TypeOK, PollerTypeOK, Poller, pollerLeaves
<1>2. MapStatus(ray[b]) = "completed" => driver[b].pc = "exit0"
  BY DEF ServiceInv, RunOnce, MapStatus
<1> QED
  BY <1>1, <1>2 DEF ServiceInv, PollerTrue, AnswerTrue, SessionTrue, Agrees

\* The session of a completed job is given the counts of its results.
LEMMA LoadIsTrue ==
  ASSUME TypeOK, ServiceInv, NEW p \in Pod, Load(p)
  PROVE  PollerTrue(p)'
<1> DEFINE b == poller[p].cur
           s == poller[p].seen
           m == Marker(b, s)
           u == Update(row[b], s, m)
<1>1. b \in Batch /\ s \in BatchStatus /\ poller[p] \in Poller /\ poller[p].pc = "asked"
  BY DEF Load, TypeOK, PollerTypeOK, Holding
<1>2. poller' = [poller EXCEPT ![p] =
        [poller[p] EXCEPT !.pc = "loaded", !.loaded = row[b], !.set = u]]
  BY DEF Load
<1>3. /\ poller'[p].pc = "loaded" /\ poller'[p].cur = b /\ poller'[p].seen = s
      /\ poller'[p].todo = poller[p].todo
      /\ poller'[p].loaded = row[b] /\ poller'[p].set = u
  BY <1>1, <1>2 DEF TypeOK, PollerTypeOK, Poller
<1>4. UNCHANGED <<disk, driver, ray, row>>
  BY DEF Load, pollerLeaves
<1>5. AnswerTrue(p)'
  BY <1>1, <1>3, <1>4 DEF ServiceInv, PollerTrue, AnswerTrue, Agrees, Holding
<1>6. row[b] \in Row /\ row[b].ray_job_id /\ (s = "completed" => driver[b].pc = "exit0")
  BY <1>1 DEF ServiceInv, PollerTrue, AnswerTrue, Holding, TypeOK, CreateTypeOK
<1>7. SessionTrue(p)'
  <2>1. u.ray_job_id /\ u.input_count = row[b].input_count /\ u.status = s
    BY <1>1, <1>6 DEF Update, Row, RowOver, BatchStatus, ActiveStatuses, TerminalStatuses
  <2>2. s \in ActiveStatuses => row[b].status # s
    BY DEF Load
  <2>3. s # "completed" => /\ u.completed_count = row[b].completed_count
                           /\ u.failed_count = row[b].failed_count
    BY <1>1, <1>6 DEF Update, Row, RowOver, BatchStatus, ActiveStatuses, TerminalStatuses
  <2>4. s = "completed" => /\ u.completed_count = disk[b].results.ok
                           /\ u.failed_count = disk[b].results.err
    <3>1. s = "completed" => /\ m.state = "whole" /\ m.ok = disk[b].results.ok
                             /\ m.err = disk[b].results.err
      BY <1>1, <1>6 DEF ServiceInv, JobInv, ByNow, Marker, IsWhole
    <3> QED  BY <1>1, <1>6, <3>1 DEF Update, Row, RowOver, ActiveStatuses
  <2> QED  BY <1>3, <1>4, <1>6, <2>1, <2>2, <2>3, <2>4 DEF SessionTrue
<1> QED
  BY <1>3, <1>4, <1>5, <1>7 DEF ServiceInv, PollerTrue

\* A commit writes Ray's verdict, or leaves the one of another poller; either way
\* the counts of a completed row are those of the results.
LEMMA CommitInv ==
  ASSUME TypeOK, ServiceInv, NEW p \in Pod, Commit(p)
  PROVE  ServiceInv'
<1>0. PICK b \in Batch : b = poller[p].cur
  BY DEF Commit, TypeOK, PollerTypeOK, Holding
<1> DEFINE s == poller[p].seen
           l == poller[p].loaded
           t == poller[p].set
           n == Flush(l, t, row[b])
<1>1. /\ b \in Batch /\ s \in BatchStatus /\ b \in poller[p].todo
      /\ Agrees(b, s) /\ (s = "completed" => driver[b].pc = "exit0")
      /\ row[b].ray_job_id
  BY <1>0 DEF Commit, TypeOK, PollerTypeOK, Holding, ServiceInv, PollerTrue, AnswerTrue
<1>2. /\ row' = [row EXCEPT ![b] = n] /\ Skip(p, b) /\ poller[p].pc = "loaded"
      /\ UNCHANGED <<disk, driver, ray, post>>
  BY <1>0 DEF Commit, pollerLeaves
<1>3. row'[b] = n /\ \A c \in Batch : c # b => row'[c] = row[c]
  BY <1>1, <1>2 DEF TypeOK, CreateTypeOK
<1>4. /\ l.ray_job_id /\ t.ray_job_id /\ t.input_count = l.input_count /\ t.status = s
      /\ s \in ActiveStatuses => l.status # s
      /\ row[b] \in Row /\ l \in Row /\ t \in Row
  BY <1>0, <1>1, <1>2 DEF ServiceInv, PollerTrue, SessionTrue, TypeOK, CreateTypeOK,
                    PollerTypeOK, Poller
<1>5. /\ n.ray_job_id /\ n.input_count = row[b].input_count
      /\ n.status = IF s = l.status THEN row[b].status ELSE s
  <2>1. l.ray_job_id = t.ray_job_id /\ row[b].ray_job_id = TRUE
    BY <1>1, <1>4 DEF Row, RowOver
  <2> QED  BY <1>4, <2>1 DEF Flush, Dirty
<1>6. s = "completed" => /\ n.completed_count = disk[b].results.ok
                         /\ n.failed_count = disk[b].results.err
  BY <1>0, <1>2 DEF ServiceInv, PollerTrue, SessionTrue, Flush, Dirty
<1>7. s # "completed" => /\ n.completed_count = row[b].completed_count
                         /\ n.failed_count = row[b].failed_count
  BY <1>0, <1>2 DEF ServiceInv, PollerTrue, SessionTrue, Flush, Dirty
<1>8. BatchInv(b)'
  <2>1. BatchInv(b)
    BY <1>1, Parts
  <2>2. FirstRun(b)' /\ ByNow(b)' /\ RunOnce(b)'
    BY <1>2, <2>1 DEF BatchInv, FirstRun, ByNow, Unpublished, PublishedIsComplete, RunOnce
  <2>3. post[b].pc \notin {"idle", "insert", "submit", "mark", "refuse", "attach",
                           "unavailable"}
    <3>1. ~NoRow.ray_job_id
      BY DEF NoRow
    <3>2. ~QueuedRow(disk[b].input).ray_job_id
      BY DEF QueuedRow, NoRow
    <3>3. ~RefusedRow(disk[b].input).ray_job_id
      BY DEF RefusedRow, QueuedRow, NoRow
    <3> QED  BY <1>1, <2>1, <3>1, <3>2, <3>3 DEF BatchInv, RowMade, Untouched, Refused
  <2>4. Exists(row[b]) /\ Exists(n)
    BY <1>1, <1>5, <2>1 DEF BatchInv, RowMade, Exists, BatchStatus, ActiveStatuses,
                            TerminalStatuses
  <2>5. RowMade(b)'
    BY <1>2, <1>3, <1>5, <2>1, <2>3, <2>4 DEF BatchInv, RowMade, Exists
  <2>6. RowTrue(b)'
    <3>1. Agrees(b, n.status)
      BY <1>1, <1>5, <2>1 DEF BatchInv, RowTrue
    <3>2. ASSUME n.status = "completed"
          PROVE  /\ driver[b].pc = "exit0" /\ n.completed_count = disk[b].results.ok
                 /\ n.failed_count = disk[b].results.err
      <4>1. CASE s = "completed"
        BY <1>1, <1>6, <4>1
      <4>2. CASE s # "completed"
        <5>1. row[b].status = "completed"
          BY <1>5, <3>2, <4>2
        <5> QED  BY <1>7, <2>1, <4>2, <5>1 DEF BatchInv, RowTrue
      <4> QED  BY <4>1, <4>2
    <3> QED  BY <1>2, <1>3, <3>1, <3>2 DEF RowTrue, Agrees
  <2> QED  BY <2>2, <2>5, <2>6 DEF BatchInv
<1>9. ASSUME NEW c \in Batch
      PROVE  BatchInv(c)'
  BY <1>2, <1>3, <1>8, Parts, BatchFrame
<1>10. \A c \in Batch : row[c].ray_job_id => row'[c].ray_job_id
  BY <1>3, <1>5
<1>11. ASSUME NEW q \in Pod
       PROVE  PollerTrue(q)'
  <2>1. poller[q].todo \subseteq Batch
    BY DEF TypeOK, PollerTypeOK, Poller
  <2>2. PollerTrue(q)
    BY DEF ServiceInv
  <2>3. \A c \in poller[q].todo : row'[c].ray_job_id
    BY <1>10, <2>1, <2>2 DEF PollerTrue
  <2>4. CASE q = p
    BY <1>2, <2>2, <2>3, <2>4, SkipIsTrue
  <2>5. CASE q # p
    <3>1. poller'[q] = poller[q]
      BY <1>2, <2>5 DEF Skip, TypeOK, PollerTypeOK
    <3>2. AnswerTrue(q)'
      BY <1>2, <2>2, <3>1 DEF PollerTrue, AnswerTrue, Agrees
    <3>3. poller[q].pc = "loaded" => poller[q].cur \in Batch
      BY DEF TypeOK, PollerTypeOK, Holding
    <3>4. SessionTrue(q)'
      <4>1. CASE poller[q].cur = b
        BY <1>2, <1>3, <1>6, <1>7, <2>2, <3>1, <4>1 DEF PollerTrue, SessionTrue
      <4>2. CASE poller[q].cur # b
        BY <1>2, <1>3, <2>2, <3>1, <3>3, <4>2 DEF PollerTrue, SessionTrue
      <4> QED  BY <4>1, <4>2
    <3> QED  BY <2>3, <3>1, <3>2, <3>4 DEF PollerTrue
  <2> QED  BY <2>4, <2>5
<1> QED
  <2>1. (\A c \in Batch : BatchInv(c)') /\ (\A q \in Pod : PollerTrue(q)')
    BY <1>9, <1>11
  <2> QED  BY <2>1 DEF ServiceInv, JobInv, BatchInv

LEMMA PollerInv ==
  ASSUME TypeOK, ServiceInv, NEW p \in Pod, PollerAct(p)
  PROVE  ServiceInv'
<1>1. CASE row' = row
  <2>1. /\ disk' = disk /\ driver' = driver /\ ray' = ray /\ post' = post
        /\ \A q \in Pod : q # p => poller'[q] = poller[q]
    BY PollersLeave
  <2>2. \A c \in Batch : BatchInv(c)'
    BY <1>1, <2>1, Parts, BatchFrame
  <2>3. \A q \in Pod : \A c \in poller[q].todo : row'[c].ray_job_id
    BY <1>1 DEF ServiceInv, PollerTrue
  <2>4. PollerTrue(p)'
    <3>1. CASE Sweep(p)
      <4>1. /\ poller'[p] = Between("sweep", {b \in Batch : Listed(b)})
            /\ \A b \in {c \in Batch : Listed(c)} : row'[b].ray_job_id
        BY <1>1, <3>1 DEF Sweep, Listed, TypeOK, PollerTypeOK
      <4> QED  BY <4>1, BetweenIsTrue
    <3>2. CASE Sleep(p)
      <4>1. poller'[p] = Between("asleep", {})
        BY <3>2 DEF Sleep, TypeOK, PollerTypeOK
      <4> QED  BY <4>1, BetweenIsTrue
    <3>3. CASE \E b \in Batch : Ask(p, b)
      BY <3>3, AskIsTrue
    <3>4. CASE \E b \in Batch : AskFails(p, b)
      BY <2>3, <3>4, SkipIsTrue DEF AskFails, ServiceInv
    <3>5. CASE MarkerUnreadable(p) \/ NothingNew(p) \/ CommitFails(p) \/ Commit(p)
      BY <2>3, <3>5, SkipIsTrue DEF MarkerUnreadable, NothingNew, CommitFails, Commit,
                                    ServiceInv
    <3>6. CASE Load(p)
      BY <3>6, LoadIsTrue
    <3> QED
      BY <3>1, <3>2, <3>3, <3>4, <3>5, <3>6 DEF PollerAct, PollStep, JobUnknown
  <2>5. ASSUME NEW q \in Pod, q # p
        PROVE  PollerTrue(q)'
    <3>1. \A c \in poller[q].todo : Kept(c)
      BY <1>1, <2>1 DEF Kept, Agrees
    <3> QED  BY <2>1, <2>5, <3>1, PollerFrame DEF ServiceInv
  <2> QED
    <3>1. (\A c \in Batch : BatchInv(c)') /\ (\A q \in Pod : PollerTrue(q)')
      BY <2>2, <2>4, <2>5
    <3> QED  BY <3>1 DEF ServiceInv, JobInv, BatchInv
<1>2. CASE Commit(p)
  BY <1>2, CommitInv
<1> QED  BY <1>1, <1>2, PollersLeave

-----------------------------------------------------------------------------
(* The cluster                                                               *)

\* A driver moves only while it is running, and never touches the input.
LEMMA DriverMoves ==
  ASSUME TypeOK, NEW b \in Batch, DriverStep(b) \/ Raise(b) \/ Kill(b)
  PROVE  /\ driver[b].pc \in Running
         /\ driver'[b].run = driver[b].run /\ disk'[b].input = disk[b].input
         /\ FirstRun(b) /\ ByNow(b) => FirstRun(b)' /\ ByNow(b)'
         /\ \A c \in Batch : c # b => disk'[c] = disk[c] /\ driver'[c] = driver[c]
<1> USE DEF TypeOK
<1>0. driver[b] \in Driver /\ disk[b] \in Dir
  BY DEF InferTypeOK
<1>1. driver[b].pc \in Running /\ driver'[b].run = driver[b].run
  <2>1. CASE Raise(b)
    BY <1>0, <2>1 DEF Raise, InferTypeOK, Driver
  <2>2. CASE ~Raise(b)
    BY <1>0, <2>2 DEF DriverStep, ReadInput, OpenStaged, WriteRow, WriteStaged, Promote,
         CutLine, Tally, OpenSuccess, WriteSuccess, CleanStaging, OpenFailure, WriteFailure,
         Kill, Goto, Running, InferTypeOK, Driver
  <2> QED  BY <2>1, <2>2
<1>2. disk'[b].input = disk[b].input
  <2>1. CASE Promote(b)
    <3>1. CASE UNCHANGED disk
      BY <3>1
    <3>2. ASSUME NEW f, disk' = [disk EXCEPT ![b].staging = @ \ {f}, ![b].results = f]
          PROVE  disk'[b].input = disk[b].input
      BY <1>0, <3>2 DEF InferTypeOK, Dir
    <3> QED  BY <2>1, <3>1, <3>2 DEF Promote
  <2>2. CASE ~Promote(b)
    BY <1>0, <2>2 DEF DriverStep, ReadInput, OpenStaged, WriteRow, WriteStaged, GrowsInto,
         CutLine, Tally, OpenSuccess, WriteSuccess, CleanStaging, OpenFailure, WriteFailure,
         Raise, Kill, InferTypeOK, Dir
  <2> QED  BY <2>1, <2>2
<1> QED
  BY <1>1, <1>2, DriverStepInv, StartRaiseKill, DriversKeepApart

\* What one batch's part of a step of the cluster has to establish.
ClusterKeeps(b) == BatchInv(b)' /\ Kept(b)

LEMMA DriverKeeps ==
  ASSUME TypeOK, NEW b \in Batch, BatchInv(b), DriverStep(b) \/ Raise(b) \/ Kill(b),
         \/ ray'[b] \in {ray[b], "UNKNOWN"}
         \/ ray[b] \in {"PENDING", "RUNNING"} /\ ray'[b] = "STOPPED",
         row'[b] = row[b], post'[b] = post[b]
  PROVE  ClusterKeeps(b)
<1>1. driver[b].pc \notin {"idle", "exit0"}
  BY DriverMoves DEF Running
<1>2. \A s : Agrees(b, s) => Agrees(b, s)'
  BY DEF Agrees, MapStatus, TerminalStatuses
<1>3. FirstRun(b)' /\ ByNow(b)'
  BY DriverMoves DEF BatchInv
<1>4. RunOnce(b)'
  BY <1>1, DriverMoves DEF BatchInv, RunOnce
<1>5. RowMade(b)'
  BY <1>1, DriverMoves DEF BatchInv, RunOnce, RowMade, Untouched, Refused, Exists
<1>6. RowTrue(b)'
  BY <1>1, <1>2 DEF BatchInv, RowTrue
<1> QED
  BY <1>1, <1>2, <1>3, <1>4, <1>5, <1>6 DEF ClusterKeeps, BatchInv, Kept

\* Any number of drivers may be killed at once, with Ray's memory of them.
LEMMA KilledKeeps ==
  ASSUME TypeOK, NEW b \in Batch, BatchInv(b), driver[b].pc \in Running,
         driver'[b] = [driver[b] EXCEPT !.pc = "killed"], disk' = disk,
         ray'[b] = "UNKNOWN", row'[b] = row[b], post'[b] = post[b]
  PROVE  ClusterKeeps(b)
<1>1. /\ driver'[b].pc = "killed" /\ driver'[b].run = driver[b].run
      /\ driver[b].pc \notin {"idle", "exit0"}
  BY DEF TypeOK, InferTypeOK, Driver, Running
<1>2. \A s : Agrees(b, s)'
  BY DEF Agrees
<1>3. FirstRun(b)' /\ ByNow(b)'
  BY <1>1 DEF BatchInv, FirstRun, ByNow, Unpublished, PublishedIsComplete, Running
<1>4. RunOnce(b)' /\ RowMade(b)'
  BY <1>1 DEF BatchInv, RunOnce, RowMade, Untouched, Refused, Exists
<1>5. RowTrue(b)'
  BY <1>1, <1>2 DEF BatchInv, RowTrue
<1> QED
  BY <1>1, <1>2, <1>3, <1>4, <1>5 DEF ClusterKeeps, BatchInv, Kept

\* Ray's own steps, the driver at rest.
LEMMA JobKeeps ==
  ASSUME TypeOK, NEW b \in Batch, BatchInv(b), disk' = disk, driver'[b] = driver[b],
         row'[b] = row[b], post'[b] = post[b],
         \/ ray'[b] \in {ray[b], "UNKNOWN"}
         \/ ray[b] \in {"PENDING", "RUNNING"} /\ ray'[b] \in {"FAILED", "STOPPED"}
         \/ ray[b] = "RUNNING" /\ driver[b].pc = "exit0" /\ ray'[b] = "SUCCEEDED"
  PROVE  ClusterKeeps(b)
<1>1. \A s : Agrees(b, s) => Agrees(b, s)'
  BY DEF Agrees, MapStatus, TerminalStatuses
<1>2. FirstRun(b)' /\ ByNow(b)'
  BY DEF BatchInv, FirstRun, ByNow, Unpublished, PublishedIsComplete
<1>3. RunOnce(b)' /\ RowMade(b)'
  BY DEF BatchInv, RunOnce, RowMade, Untouched, Refused, Exists
<1>4. RowTrue(b)'
  BY <1>1 DEF BatchInv, RowTrue
<1> QED
  BY <1>1, <1>2, <1>3, <1>4 DEF ClusterKeeps, BatchInv, Kept

LEMMA StartKeeps ==
  ASSUME TypeOK, NEW b \in Batch, BatchInv(b), StartJob(b),
         row'[b] = row[b], post'[b] = post[b]
  PROVE  ClusterKeeps(b)
<1>1. /\ driver[b].pc = "idle" /\ driver[b].run = 0 /\ ray[b] = "PENDING"
      /\ driver'[b].pc = "read" /\ driver'[b].run = 1
      /\ disk' = disk /\ ray'[b] = "RUNNING"
  BY DEF StartJob, Start, BatchInv, RunOnce, FirstRun, TypeOK, InferTypeOK, RayTypeOK
<1>2. \A s : Agrees(b, s) => Agrees(b, s)'
  BY <1>1 DEF Agrees, MapStatus, TerminalStatuses
<1>3. FirstRun(b)' /\ ByNow(b)'
  BY StartRaiseKill DEF StartJob, BatchInv, TypeOK
<1>4. RunOnce(b)' /\ RowMade(b)'
  BY <1>1 DEF BatchInv, RunOnce, RowMade, Untouched, Refused, Exists
<1>5. RowTrue(b)'
  BY <1>1, <1>2 DEF BatchInv, RowTrue
<1> QED
  BY <1>1, <1>2, <1>3, <1>4, <1>5 DEF ClusterKeeps, BatchInv, Kept

\* A step of the cluster, seen from each batch.
LEMMA ClusterKept ==
  ASSUME TypeOK, ServiceInv, Cluster \/ ClusterFault, UNCHANGED <<row, post>>
  PROVE  \A b \in Batch : ClusterKeeps(b)
<1>1. ASSUME NEW b \in Batch, NEW c \in Batch, c # b,
             disk'[c] = disk[c], driver'[c] = driver[c], ray'[c] = ray[c]
      PROVE  ClusterKeeps(c)
  BY <1>1, Parts, BatchFrame DEF ClusterKeeps, Kept, Agrees
<1>2. ASSUME NEW b \in Batch, StartJob(b)
      PROVE  \A c \in Batch : ClusterKeeps(c)
  <2>1. \A c \in Batch : c # b =>
          disk'[c] = disk[c] /\ driver'[c] = driver[c] /\ ray'[c] = ray[c]
    BY <1>2 DEF StartJob, Start, TypeOK, InferTypeOK, RayTypeOK
  <2> QED  BY <1>1, <1>2, <2>1, Parts, StartKeeps
<1>3. ASSUME NEW b \in Batch, FinishJob(b) \/ NeverStarts(b)
      PROVE  \A c \in Batch : ClusterKeeps(c)
  <2>1. \A c \in Batch : c # b =>
          disk'[c] = disk[c] /\ driver'[c] = driver[c] /\ ray'[c] = ray[c]
    BY <1>3 DEF FinishJob, NeverStarts, inferVars, TypeOK, RayTypeOK
  <2>2. ClusterKeeps(b)
    BY <1>3, Parts, JobKeeps DEF FinishJob, NeverStarts, inferVars, TypeOK, RayTypeOK
  <2> QED  BY <1>1, <2>1, <2>2
<1>4. ASSUME NEW b \in Batch, DriverStep(b) \/ Raise(b) \/ Kill(b), UNCHANGED ray
      PROVE  \A c \in Batch : ClusterKeeps(c)
  <2>1. \A c \in Batch : c # b =>
          disk'[c] = disk[c] /\ driver'[c] = driver[c] /\ ray'[c] = ray[c]
    BY <1>4, DriverMoves
  <2>2. BatchInv(b) /\ ray'[b] = ray[b] /\ row'[b] = row[b] /\ post'[b] = post[b]
    BY <1>4, Parts
  <2>3. ClusterKeeps(b)
    BY <1>4, <2>2, DriverKeeps
  <2> QED  BY <1>1, <2>1, <2>3
<1>5. ASSUME NEW b \in Batch, StopJob(b)
      PROVE  \A c \in Batch : ClusterKeeps(c)
  <2>1. \A c \in Batch : c # b =>
          disk'[c] = disk[c] /\ driver'[c] = driver[c] /\ ray'[c] = ray[c]
    BY <1>5 DEF StopJob, TypeOK, InferTypeOK, RayTypeOK
  <2>2. ray[b] \in {"PENDING", "RUNNING"} /\ ray'[b] = "STOPPED" /\ disk' = disk
    BY <1>5 DEF StopJob, TypeOK, RayTypeOK
  <2>3. Kill(b) \/ driver'[b] = driver[b]
    <3>1. driver' = [driver EXCEPT ![b] = KillDriver(driver[b])]
      BY <1>5 DEF StopJob
    <3>2. CASE driver[b].pc \in Running
      <4>1. driver' = [driver EXCEPT ![b].pc = "killed"]
        BY <3>1, <3>2 DEF KillDriver
      <4> QED  BY <2>2, <3>2, <4>1 DEF Kill
    <3>3. CASE driver[b].pc \notin Running
      BY <3>1, <3>3 DEF KillDriver, TypeOK, InferTypeOK
    <3> QED  BY <3>2, <3>3
  <2>4. ClusterKeeps(b)
    BY <2>2, <2>3, Parts, DriverKeeps, JobKeeps
  <2> QED  BY <1>1, <2>1, <2>4
<1>6. CASE HeadRestart
  <2>1. ASSUME NEW b \in Batch
        PROVE  ClusterKeeps(b)
    <3>1. ray'[b] = "UNKNOWN" /\ disk' = disk /\ driver'[b] = KillDriver(driver[b])
      BY <1>6 DEF HeadRestart
    <3>2. CASE driver[b].pc \in Running
      <4>1. driver'[b] = [driver[b] EXCEPT !.pc = "killed"]
        BY <3>1, <3>2 DEF KillDriver
      <4> QED  BY <3>1, <3>2, <4>1, Parts, KilledKeeps
    <3>3. CASE driver[b].pc \notin Running
      BY <3>1, <3>3, Parts, JobKeeps DEF KillDriver
    <3> QED  BY <3>2, <3>3
  <2> QED  BY <2>1
<1> QED
  BY <1>2, <1>3, <1>4, <1>5, <1>6 DEF Cluster, ClusterFault

LEMMA ClusterInv ==
  ASSUME TypeOK, ServiceInv, Cluster \/ ClusterFault, UNCHANGED <<row, post, poller>>
  PROVE  ServiceInv'
<1>0. \A b \in Batch : ClusterKeeps(b)
  BY ClusterKept
<1>1. ASSUME NEW p \in Pod
      PROVE  PollerTrue(p)'
  <2>1. poller[p].todo \subseteq Batch
    BY DEF TypeOK, PollerTypeOK, Poller
  <2> QED  BY <1>0, <2>1, PollerFrame DEF ClusterKeeps, ServiceInv
<1>2. (\A c \in Batch : BatchInv(c)') /\ (\A p \in Pod : PollerTrue(p)')
  BY <1>0, <1>1 DEF ClusterKeeps
<1> QED  BY <1>2 DEF ServiceInv, JobInv, BatchInv

-----------------------------------------------------------------------------
(* Pods, and the theorems                                                    *)

LEMMA PodInv ==
  ASSUME TypeOK, ServiceInv, NEW p \in Pod, Boot(p) \/ Shutdown(p) \/ Drain(p) \/ Crash(p)
  PROVE  ServiceInv'
<1>1. UNCHANGED <<disk, driver, ray, row>>
  BY DEF Boot, Shutdown, Drain, Crash, others
<1>2. ASSUME NEW b \in Batch
      PROVE  BatchInv(b)'
  <2>1. BatchInv(b) /\ post[b] \in Handler
    BY Parts DEF TypeOK, CreateTypeOK
  <2>2. CASE post'[b] = post[b]
    BY <1>1, <2>1, <2>2, BatchFrame
  <2>3. CASE post[b].pc \in InFlight /\ post'[b] = [post[b] EXCEPT !.pc = "lost"]
    <3>1. post'[b].pc = "lost" /\ post[b].pc \notin {"idle", "unavailable"}
      BY <2>1, <2>3 DEF Handler, InFlight
    <3>2. FirstRun(b)' /\ ByNow(b)' /\ RunOnce(b)' /\ RowTrue(b)'
      BY <1>1, <2>1, <3>1 DEF BatchInv, FirstRun, ByNow, Unpublished, PublishedIsComplete,
                              RunOnce, RowTrue, Agrees
    <3>3. RowMade(b)'
      BY <1>1, <2>1, <3>1 DEF BatchInv, RowMade, Untouched, Refused, Exists
    <3> QED  BY <3>2, <3>3 DEF BatchInv
  <2> QED  BY <2>2, <2>3 DEF Boot, Shutdown, Drain, Crash, LoseHandlers
<1>3. ASSUME NEW q \in Pod
      PROVE  PollerTrue(q)'
  <2>1. CASE poller'[q] = poller[q]
    <3>1. \A c \in poller[q].todo : Kept(c)
      BY <1>1 DEF Kept, Agrees
    <3> QED  BY <2>1, <3>1, PollerFrame DEF ServiceInv
  <2>2. CASE poller'[q] \in {Between("asleep", {}), Between("off", {})}
    BY <2>2, BetweenIsTrue
  <2> QED
    BY <2>1, <2>2 DEF Boot, Shutdown, Drain, Crash, TypeOK, PollerTypeOK
<1> QED
  <2>1. (\A c \in Batch : BatchInv(c)') /\ (\A q \in Pod : PollerTrue(q)')
    BY <1>2, <1>3
  <2> QED  BY <2>1 DEF ServiceInv, JobInv, BatchInv

\* The kinds of step of the service.
LEMMA Steps ==
  ASSUME [Next]_vars
  PROVE  \/ (\E b \in Batch : HandlerAct(b)) /\ UNCHANGED poller
         \/ \E p \in Pod : PollerAct(p)
         \/ (Cluster \/ ClusterFault) /\ UNCHANGED <<row, post, poller>>
         \/ \E p \in Pod : Boot(p) \/ Shutdown(p) \/ Drain(p) \/ Crash(p)
         \/ UNCHANGED <<disk, driver, ray, row, post, poller>>
<1>1. CASE Pollers \/ PollerFault
  BY <1>1 DEF Pollers, PollerFault, PollerAct
<1>2. CASE UNCHANGED vars
  BY <1>2 DEF vars
<1>3. CASE Handlers /\ UNCHANGED <<poller, counted, pod, faults>>
  BY <1>3 DEF Handlers, Request, HandlerAct
<1>4. CASE HandlerFault /\ UNCHANGED <<poller, counted, pod>>
  BY <1>4 DEF HandlerFault, HandlerAct
<1> QED
  BY <1>1, <1>2, <1>3, <1>4 DEF Next, PodFault

LEMMA ServiceInvInit == Init => ServiceInv
<1> SUFFICES ASSUME Init PROVE ServiceInv
  OBVIOUS
<1>1. ASSUME NEW b \in Batch
      PROVE  BatchInv(b)
  <2>1. /\ driver[b] = IdleDriver /\ disk[b] = EmptyDir /\ ray[b] = "UNKNOWN"
        /\ row[b] = NoRow /\ post[b].pc = "idle"
    BY DEF Init, RayInit, CreateInit
  <2>2. FirstRun(b) /\ ByNow(b)
    BY <2>1 DEF FirstRun, ByNow, IdleDriver, EmptyDir, Absent, IsWhole
  <2>3. RunOnce(b) /\ RowMade(b) /\ RowTrue(b)
    BY <2>1 DEF RunOnce, RowMade, RowTrue, IdleDriver, NoRow, Exists
  <2> QED  BY <2>2, <2>3 DEF BatchInv
<1>2. ASSUME NEW p \in Pod
      PROVE  PollerTrue(p)
  BY DEF Init, PollerInit, PollerTrue, AnswerTrue, SessionTrue, Between, Holding
<1> QED  BY <1>1, <1>2, Parts

LEMMA ServiceInvStep == TypeOK /\ ServiceInv /\ [Next]_vars => ServiceInv'
<1> SUFFICES ASSUME TypeOK, ServiceInv, [Next]_vars PROVE ServiceInv'
  OBVIOUS
<1>1. CASE Handlers /\ UNCHANGED <<poller, counted, pod, faults>>
  <2>1. \E b \in Batch : HandlerAct(b)
    BY <1>1 DEF Handlers, Request, HandlerAct
  <2> QED  BY <1>1, <2>1, HandlerInv
<1>2. CASE HandlerFault /\ UNCHANGED <<poller, counted, pod>>
  <2>1. \E b \in Batch : HandlerAct(b)
    BY <1>2 DEF HandlerFault, HandlerAct
  <2> QED  BY <1>2, <2>1, HandlerInv
<1>3. CASE Pollers \/ PollerFault
  <2>1. \E p \in Pod : PollerAct(p)
    BY <1>3 DEF Pollers, PollerFault, PollerAct
  <2> QED  BY <2>1, PollerInv
<1>4. CASE (Cluster \/ ClusterFault) /\ UNCHANGED <<row, post, poller>>
  BY <1>4, ClusterInv
<1>5. CASE (\E p \in Pod : Boot(p) \/ Shutdown(p)) \/ PodFault
  <2>1. \E p \in Pod : Boot(p) \/ Shutdown(p) \/ Drain(p) \/ Crash(p)
    BY <1>5 DEF PodFault
  <2> QED  BY <2>1, PodInv
<1>6. CASE UNCHANGED vars
  <2>1. UNCHANGED <<disk, driver, ray, row, post, poller>>
    BY <1>6 DEF vars
  <2>2. ASSUME NEW b \in Batch
        PROVE  BatchInv(b)'
    BY <2>1, Parts, BatchFrame
  <2>3. ASSUME NEW p \in Pod
        PROVE  PollerTrue(p)'
    <3>1. \A c \in poller[p].todo : Kept(c)
      BY <2>1 DEF Kept, Agrees
    <3> QED  BY <2>1, <3>1, PollerFrame DEF ServiceInv
  <2>4. (\A c \in Batch : BatchInv(c)') /\ (\A q \in Pod : PollerTrue(q)')
    BY <2>2, <2>3
  <2> QED  BY <2>4 DEF ServiceInv, JobInv, BatchInv
<1> QED
  BY <1>1, <1>2, <1>3, <1>4, <1>5, <1>6 DEF Next

\* The invariant holds in every state of the service, with any number of pods.
THEOREM ServiceInvariant == Spec => [](TypeOK /\ ServiceInv)
<1>1. Init => TypeOK /\ ServiceInv
  BY TypeInit, ServiceInvInit
<1>2. TypeOK /\ ServiceInv /\ [Next]_vars => (TypeOK /\ ServiceInv)'
  BY TypeStep, ServiceInvStep
<1> QED  BY <1>1, <1>2, PTL DEF Spec

\* The results endpoint keeps the promise of a completed row: the results are all
\* there, and the row's counts are theirs.  Overlapping pollers, stale answers,
\* crashes and failed sessions do not matter.
THEOREM CompletedMeansDeliveredAlways == Spec => []CompletedMeansDelivered
<1>1. TypeOK /\ ServiceInv => CompletedMeansDelivered
  <2> SUFFICES ASSUME TypeOK, ServiceInv, NEW b \in Batch, row[b].status = "completed"
               PROVE  Delivered(b)
    BY DEF CompletedMeansDelivered
  <2>1. /\ driver[b].pc = "exit0" /\ row[b].completed_count = disk[b].results.ok
        /\ row[b].failed_count = disk[b].results.err
    BY DEF ServiceInv, RowTrue
  <2>2. driver[b].run = 1 /\ IsWhole(disk[b].success)
    BY <2>1 DEF ServiceInv, JobInv, FirstRun, ByNow, RunOnce
  <2>3. Complete(disk[b].results, disk[b].input)
    BY <2>2 DEF ServiceInv, JobInv, FirstRun, PublishedIsComplete
  <2>4. row[b].input_count = disk[b].input
    BY DEF ServiceInv, RowMade, Exists
  <2> QED  BY <2>1, <2>3, <2>4 DEF Delivered
<1> QED  BY <1>1, ServiceInvariant, PTL

\* A terminal status is Ray's verdict on the job, or Ray has forgotten the job.
THEOREM VerdictIsRaysAlways == Spec => []VerdictIsRays
<1>1. TypeOK /\ ServiceInv => VerdictIsRays
  BY DEF ServiceInv, RowTrue, Agrees, VerdictIsRays, Terminal
<1> QED  BY <1>1, ServiceInvariant, PTL

\* Ray holds no job without a committed row and an input file.
THEOREM JobHasRowAndInputAlways == Spec => []JobHasRowAndInput
<1>1. TypeOK /\ ServiceInv => JobHasRowAndInput
  <2> SUFFICES ASSUME TypeOK, ServiceInv, NEW b \in Batch, ray[b] # "UNKNOWN"
               PROVE  Exists(row[b]) /\ disk[b].input > 0 /\ row[b].input_count = disk[b].input
    BY DEF JobHasRowAndInput
  <2>1. post[b].pc # "idle"
    BY DEF ServiceInv, RunOnce
  <2> QED  BY <2>1 DEF ServiceInv, RowMade
<1> QED  BY <1>1, ServiceInvariant, PTL

\* A row without a job is as inserted, or refused as a whole by its own handler, also
\* when the handler was lost, or heard nothing, between a commit and its reply.
THEOREM UnattachedIsCreatorsAlways == Spec => []UnattachedIsCreators
<1>1. TypeOK /\ ServiceInv => UnattachedIsCreators
  BY DEF ServiceInv, RowMade, Untouched, Refused, UnattachedIsCreators
<1> QED  BY <1>1, ServiceInvariant, PTL

\* What the client was answered is borne out by the table.
THEOREM ReplyIsKeptAlways == Spec => []ReplyIsKept
<1>1. TypeOK /\ ServiceInv => ReplyIsKept
  <2>1. \A n : RefusedRow(n).status = "failed" /\ ~RefusedRow(n).ray_job_id
    BY DEF RefusedRow, QueuedRow, NoRow
  <2> QED  BY <2>1 DEF ServiceInv, RowMade, Refused, ReplyIsKept
<1> QED  BY <1>1, ServiceInvariant, PTL

-----------------------------------------------------------------------------
(* The metric of terminal batches.  A session about to end a batch has counted *)
(* it; nobody else ends a batch with a job, and no increment is undone.        *)

CountedIfEnding(p) ==
  poller[p].pc = "loaded" /\ Terminal(poller[p].set) => counted[poller[p].cur] > 0

CountInv == PolledIsCounted /\ \A p \in Pod : CountedIfEnding(p)

\* Everything that is not a session's load or commit leaves the metric alone, and
\* a row keeps its job id and status, or is not ended with a job.
LEMMA CountFrame ==
  ASSUME CountInv, counted' = counted,
         \A b \in Batch : \/ row'[b].status = row[b].status
                             /\ row'[b].ray_job_id = row[b].ray_job_id
                          \/ ~Terminal(row'[b]) \/ ~row'[b].ray_job_id,
         \A p \in Pod : poller'[p] = poller[p] \/ poller'[p].pc # "loaded"
  PROVE  CountInv'
BY DEF CountInv, PolledIsCounted, CountedIfEnding, Terminal

\* A handler only attaches a job to a row that is still queued.
LEMMA HandlersEndNothingPolled ==
  ASSUME TypeOK, ServiceInv, NEW b \in Batch, HandlerAct(b), NEW c \in Batch
  PROVE  \/ row'[c].status = row[c].status /\ row'[c].ray_job_id = row[c].ray_job_id
         \/ ~Terminal(row'[c]) \/ ~row'[c].ray_job_id
<1>1. CASE InsertRow(b)
  <2>1. ~QueuedRow(disk[b].input).ray_job_id
    BY DEF QueuedRow, NoRow
  <2> QED  BY <1>1, <2>1 DEF InsertRow, TypeOK, CreateTypeOK
<1>2. CASE post[b].pc \in {"mark", "attach"} /\ (FailRow(b) \/ AttachJob(b))
  <2>1. Untouched(b) /\ row \in [Batch -> Row] /\ row[b] \in Row
    BY <1>2 DEF ServiceInv, RowMade, TypeOK, CreateTypeOK
  <2>2. row[b].status = "queued" /\ ~row[b].ray_job_id
    BY <2>1 DEF Untouched, QueuedRow, NoRow
  <2>3. CASE FailRow(b)
    BY <2>1, <2>2, <2>3 DEF FailRow, Row, RowOver
  <2>4. CASE AttachJob(b)
    <3>1. row'[c].status = row[c].status /\ (c # b => row'[c] = row[c])
      BY <2>1, <2>4 DEF AttachJob, Row, RowOver
    <3> QED  BY <2>2, <3>1 DEF Terminal, TerminalStatuses
  <2> QED  BY <1>2, <2>3, <2>4
<1>3. CASE row' = row
  BY <1>3
<1> QED  BY <1>1, <1>2, <1>3, HandlerWrites

LEMMA LoadCounts ==
  ASSUME TypeOK, CountInv, NEW p \in Pod, Load(p)
  PROVE  CountInv'
<1> DEFINE b == poller[p].cur
           s == poller[p].seen
           u == Update(row[b], s, Marker(b, s))
<1>1. /\ b \in Batch /\ s \in BatchStatus /\ row[b] \in Row /\ poller[p] \in Poller
      /\ counted \in [Batch -> 0..MaxCount]
  BY DEF Load, TypeOK, CreateTypeOK, PollerTypeOK, Holding
<1>2. /\ poller' = [poller EXCEPT ![p] =
           [poller[p] EXCEPT !.pc = "loaded", !.loaded = row[b], !.set = u]]
      /\ counted' = IF s \in TerminalStatuses /\ counted[b] < MaxCount
                    THEN [counted EXCEPT ![b] = @ + 1] ELSE counted
      /\ row' = row
  BY DEF Load
<1>3. /\ poller'[p].cur = b /\ poller'[p].set = u
      /\ \A q \in Pod : q # p => poller'[q] = poller[q]
  BY <1>1, <1>2 DEF TypeOK, PollerTypeOK, Poller
<1>4. /\ s \in TerminalStatuses => counted'[b] > 0
      /\ \A c \in Batch : counted[c] > 0 => counted'[c] > 0
  BY <1>1, <1>2 DEF MaxCount
<1>5. u.status = s
  BY <1>1 DEF Update, Row, RowOver, BatchStatus, ActiveStatuses, TerminalStatuses
<1>6. CountedIfEnding(p)'
  BY <1>3, <1>4, <1>5 DEF CountedIfEnding, Terminal
<1>7. ASSUME NEW q \in Pod, q # p
      PROVE  CountedIfEnding(q)'
  <2>1. poller[q].pc = "loaded" => poller[q].cur \in Batch
    BY DEF TypeOK, PollerTypeOK, Holding
  <2> QED  BY <1>3, <1>4, <1>7, <2>1 DEF CountInv, CountedIfEnding, Terminal
<1>8. PolledIsCounted'
  BY <1>2, <1>4 DEF CountInv, PolledIsCounted, Terminal
<1> QED  BY <1>6, <1>7, <1>8 DEF CountInv

LEMMA CommitIsCounted ==
  ASSUME TypeOK, ServiceInv, CountInv, NEW p \in Pod, Commit(p)
  PROVE  CountInv'
<1>0. PICK b \in Batch : b = poller[p].cur
  BY DEF Commit, TypeOK, PollerTypeOK, Holding
<1> DEFINE t == poller[p].set
           l == poller[p].loaded
<1>1. /\ row' = [row EXCEPT ![b] = Flush(l, t, row[b])] /\ Skip(p, b)
      /\ poller[p].pc = "loaded" /\ counted' = counted /\ poller[p].todo \subseteq Batch
  BY <1>0 DEF Commit, TypeOK, PollerTypeOK, Poller
<1>2. /\ row'[b] = Flush(l, t, row[b])
      /\ \A c \in Batch : c # b => row'[c] = row[c]
  BY <1>1 DEF TypeOK, CreateTypeOK
<1>3. row[b].ray_job_id
  BY <1>0, <1>1 DEF ServiceInv, PollerTrue, AnswerTrue, Holding
<1>4. row'[b].status = row[b].status \/ row'[b].status = t.status
  BY <1>2 DEF Flush, Dirty
<1>5. Terminal(row'[b]) => counted[b] > 0
  BY <1>0, <1>1, <1>3, <1>4 DEF CountInv, PolledIsCounted, CountedIfEnding, Terminal
<1>6. PolledIsCounted'
  BY <1>1, <1>2, <1>5 DEF CountInv, PolledIsCounted, Terminal
<1>7. /\ poller'[p].pc = "sweep"
      /\ \A q \in Pod : q # p => poller'[q] = poller[q]
  BY <1>1 DEF Skip, Between, TypeOK, PollerTypeOK
<1>8. ASSUME NEW q \in Pod
      PROVE  CountedIfEnding(q)'
  BY <1>1, <1>7 DEF CountInv, CountedIfEnding, Terminal
<1> QED  BY <1>6, <1>8 DEF CountInv

LEMMA CountStep == TypeOK /\ ServiceInv /\ CountInv /\ [Next]_vars => CountInv'
<1> SUFFICES ASSUME TypeOK, ServiceInv, CountInv, [Next]_vars PROVE CountInv'
  OBVIOUS
<1>1. CASE (Handlers \/ HandlerFault) /\ UNCHANGED <<poller, counted>>
  <2>1. \E b \in Batch : HandlerAct(b)
    BY <1>1 DEF Handlers, Request, HandlerFault, HandlerAct
  <2> QED  BY <1>1, <2>1, HandlersEndNothingPolled, CountFrame
<1>2. CASE Pollers \/ PollerFault
  <2>1. PICK p \in Pod : PollerAct(p)
    BY <1>2 DEF Pollers, PollerFault, PollerAct
  <2>2. CASE Load(p)
    BY <2>2, LoadCounts
  <2>3. CASE Commit(p)
    BY <2>3, CommitIsCounted
  <2>4. CASE ~Load(p) /\ ~Commit(p)
    <3>1. row' = row /\ counted' = counted
      BY <2>1, <2>4 DEF PollerAct, PollStep, Sweep, Sleep, Ask, JobUnknown, AskFails,
                        MarkerUnreadable, NothingNew, CommitFails, pollerLeaves
    <3>2. poller'[p].pc # "loaded" /\ \A q \in Pod : q # p => poller'[q] = poller[q]
      <4>1. poller \in [Pod -> Poller]
        BY DEF TypeOK, PollerTypeOK
      <4>2. CASE \E b \in Batch : Ask(p, b)
        BY <4>1, <4>2 DEF Ask, Poller
      <4>3. CASE Sweep(p) \/ Sleep(p)
        BY <4>1, <4>3 DEF Sweep, Sleep, Between
      <4>4. ASSUME NEW b, Skip(p, b)
            PROVE  poller'[p].pc = "sweep" /\ \A q \in Pod : q # p => poller'[q] = poller[q]
        BY <4>1, <4>4 DEF Skip, Between
      <4> QED
        BY <2>1, <2>4, <4>2, <4>3, <4>4 DEF PollerAct, PollStep, JobUnknown, AskFails,
           MarkerUnreadable, NothingNew, CommitFails
    <3> QED  BY <3>1, <3>2, CountFrame
  <2> QED  BY <2>2, <2>3, <2>4
<1>3. CASE (Cluster \/ ClusterFault) /\ UNCHANGED <<row, post, poller, counted>>
  BY <1>3, CountFrame
<1>4. CASE (\E p \in Pod : Boot(p) \/ Shutdown(p)) \/ PodFault
  <2>1. PICK p \in Pod : Boot(p) \/ Shutdown(p) \/ Drain(p) \/ Crash(p)
    BY <1>4 DEF PodFault
  <2>2. row' = row /\ counted' = counted
    BY <2>1 DEF Boot, Shutdown, Drain, Crash, others
  <2>3. \A q \in Pod : poller'[q] = poller[q] \/ poller'[q].pc # "loaded"
    BY <2>1 DEF Boot, Shutdown, Drain, Crash, Between, TypeOK, PollerTypeOK
  <2> QED  BY <2>2, <2>3, CountFrame
<1>5. CASE UNCHANGED vars
  BY <1>5, CountFrame DEF vars
<1> QED
  BY <1>1, <1>2, <1>3, <1>4, <1>5 DEF Next

\* A batch that a poller ended was counted, whichever pods, crashes, failed commits
\* and stale answers there were.
THEOREM PolledIsCountedAlways == Spec => []PolledIsCounted
<1>1. Init => CountInv
  BY DEF Init, CreateInit, PollerInit, CountInv, PolledIsCounted, CountedIfEnding, Between,
         NoRow, Terminal, TerminalStatuses
<1>2. TypeOK /\ ServiceInv /\ CountInv /\ [Next]_vars => CountInv'
  BY CountStep
<1>3. CountInv => PolledIsCounted
  BY DEF CountInv
<1> QED  BY <1>1, <1>2, <1>3, ServiceInvariant, PTL DEF Spec

-----------------------------------------------------------------------------
(* What a client sees of a batch is a function of its row.                   *)

ResultsOf(r) ==
  IF r.status = "completed"
  THEN [state |-> "whole", ok |-> r.completed_count, err |-> r.failed_count]
  ELSE [state |-> "absent", ok |-> 0, err |-> 0]

Shown(b) ==
  /\ GetResults(b) = ResultsOf(row[b])
  /\ row[b].status = "completed" =>
       /\ row[b].completed_count \in 0..row[b].input_count
       /\ row[b].failed_count = row[b].input_count - row[b].completed_count

LEMMA ShownByRow ==
  TypeOK /\ ServiceInv /\ CompletedMeansDelivered => \A b \in Batch : Shown(b)
<1> SUFFICES ASSUME TypeOK, CompletedMeansDelivered, NEW b \in Batch
             PROVE  Shown(b)
  OBVIOUS
<1>1. row[b].input_count \in Nat /\ row[b].completed_count \in Nat
      /\ row[b].failed_count \in Nat
  BY MaxPromptsAssumption DEF TypeOK, CreateTypeOK, Row, RowOver
<1>2. CASE row[b].status = "completed"
  <2>1. /\ disk[b].results.state = "whole"
        /\ row[b].completed_count = disk[b].results.ok
        /\ row[b].failed_count = disk[b].results.err
        /\ row[b].completed_count + row[b].failed_count = row[b].input_count
    BY <1>2 DEF CompletedMeansDelivered, Delivered, Complete, IsWhole
  <2>2. GetResults(b) = ResultsOf(row[b])
    BY <1>2, <2>1 DEF GetResults, ResultsOf
  <2> QED  BY <1>1, <2>1, <2>2 DEF Shown
<1>3. CASE row[b].status # "completed"
  BY <1>3 DEF Shown, GetResults, ResultsOf
<1> QED  BY <1>2, <1>3

=============================================================================
