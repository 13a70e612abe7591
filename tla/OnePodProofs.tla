---------------------------- MODULE OnePodProofs ----------------------------
(***************************************************************************)
(* What holds as long as pods do not overlap: a terminal status is final,  *)
(* it comes with its timestamp, and the service implements the lifecycle a *)
(* client is promised (BatchLifecycle), whatever fails.                    *)
(***************************************************************************)
EXTENDS BatchServiceProofs

\* There is only one pod; it may restart any number of times.
SinglePod == \A p, q \in Pod : p = q

(***************************************************************************)
(* With a single poller nothing it holds is ever stale.                    *)
(***************************************************************************)
Fresh(p) ==
  LET b == poller[p].cur
      s == poller[p].seen
  IN  /\ \A c \in poller[p].todo : row[c].status \in ActiveStatuses
      /\ poller[p].pc \in Holding =>
           /\ s = "queued" => row[b].status = "queued"
           /\ s = "in_progress" => ray[b] # "PENDING"
      /\ poller[p].pc = "loaded" =>
           /\ poller[p].loaded = row[b]
           /\ poller[p].set.completed_at <=> poller[p].set.status \in TerminalStatuses

\* The part that is about one batch.
Kempt(b) ==
  /\ row[b].completed_at <=> Terminal(row[b])
  /\ row[b].status = "in_progress" => ray[b] # "PENDING"

OnePodInv ==
  /\ \A b \in Batch : Kempt(b)
  /\ \A p \in Pod : Fresh(p)

-----------------------------------------------------------------------------
(* How a row changes in one step.                                            *)

Appears(b) == row[b] = NoRow /\ \E n \in 1..MaxPrompts : row'[b] = QueuedRow(n)

GoesOn(b) ==
  /\ row[b].status \in ActiveStatuses
  /\ row'[b].status \in {row[b].status, "in_progress"} \cup TerminalStatuses
  /\ row'[b].input_count = row[b].input_count
  /\ row'[b].completed_at <=> Terminal(row'[b])

RowMoves(b) == row'[b] = row[b] \/ Appears(b) \/ GoesOn(b)

LEMMA HandlerMoves ==
  ASSUME TypeOK, NEW b \in Batch, RowMade(b), Kempt(b), HandlerAct(b)
  PROVE  RowMoves(b)
<1>0. /\ row[b] \in Row /\ disk[b].input \in 0..MaxPrompts /\ row \in [Batch -> Row]
  BY DEF TypeOK, InferTypeOK, CreateTypeOK, Dir
<1>1. CASE row' = row
  BY <1>1 DEF RowMoves
<1>2. CASE post[b].pc = "insert" /\ InsertRow(b)
  <2>1. row[b] = NoRow /\ disk[b].input > 0
    BY <1>2 DEF RowMade
  <2>2. row'[b] = QueuedRow(disk[b].input)
    BY <1>0, <1>2 DEF InsertRow
  <2>3. disk[b].input \in 1..MaxPrompts
    BY <1>0, <2>1, MaxPromptsAssumption
  <2> QED  BY <2>1, <2>2, <2>3 DEF RowMoves, Appears
<1>3. CASE post[b].pc = "mark" /\ FailRow(b)
  <2>1. row[b].status = "queued"
    BY <1>3 DEF RowMade, Untouched, QueuedRow, NoRow
  <2>2. /\ row'[b].status = "failed" /\ row'[b].completed_at = TRUE
        /\ row'[b].input_count = row[b].input_count
    BY <1>0, <1>3 DEF FailRow, Row, RowOver
  <2> QED
    BY <2>1, <2>2 DEF RowMoves, GoesOn, Terminal, TerminalStatuses, ActiveStatuses
<1>4. CASE post[b].pc = "attach" /\ AttachJob(b)
  <2>1. row[b].status = "queued"
    BY <1>4 DEF RowMade, Untouched, QueuedRow, NoRow
  <2>2. /\ row'[b].status = row[b].status /\ row'[b].completed_at = row[b].completed_at
        /\ row'[b].input_count = row[b].input_count
    BY <1>0, <1>4 DEF AttachJob, Row, RowOver
  <2> QED
    BY <2>1, <2>2 DEF RowMoves, GoesOn, Kempt, Terminal, TerminalStatuses, ActiveStatuses
<1> QED  BY <1>1, <1>2, <1>3, <1>4, HandlerWrites

\* The only poller commits exactly what it has made of the row that is there.
LEMMA CommitMoves ==
  ASSUME TypeOK, OwnInv, OnePodInv, NEW p \in Pod, Commit(p)
  PROVE  /\ GoesOn(poller[p].cur)
         /\ row'[poller[p].cur] = poller[p].set
         /\ \A c \in Batch : c # poller[p].cur => row'[c] = row[c]
<1>0. PICK b \in Batch : b = poller[p].cur
  BY DEF Commit, TypeOK, PollerTypeOK, Holding
<1> DEFINE s == poller[p].seen
           l == poller[p].loaded
           t == poller[p].set
<1>1. /\ poller[p].pc = "loaded" /\ b \in poller[p].todo /\ s \in BatchStatus
      /\ l \in Row /\ t \in Row /\ row \in [Batch -> Row]
  BY <1>0 DEF Commit, TypeOK, CreateTypeOK, PollerTypeOK, Poller, Holding, OwnInv,
              PollerOwn
<1>2. /\ l = row[b] /\ row[b].status \in ActiveStatuses
      /\ t.completed_at <=> t.status \in TerminalStatuses
      /\ s = "queued" => row[b].status = "queued"
  BY <1>0, <1>1 DEF OnePodInv, Fresh, Holding
<1>3. t.status = s /\ t.input_count = l.input_count /\ (s \in ActiveStatuses => l.status # s)
  BY <1>0, <1>1 DEF OwnInv, PollerOwn
<1>4. Flush(l, t, row[b]) = t
  BY <1>1, <1>2 DEF Flush, Dirty, Row, RowOver
<1>5. row' = [row EXCEPT ![b] = t]
  BY <1>0, <1>4 DEF Commit
<1>6. row'[b] = t /\ \A c \in Batch : c # b => row'[c] = row[c]
  BY <1>1, <1>5
<1>7. s \in {"in_progress"} \cup TerminalStatuses
  BY <1>1, <1>2, <1>3 DEF BatchStatus, ActiveStatuses
<1> QED
  BY <1>0, <1>2, <1>3, <1>6, <1>7 DEF GoesOn, Terminal

-----------------------------------------------------------------------------
(* Every step, seen from the rows and from Ray.                              *)

LEMMA RowsMove ==
  ASSUME TypeOK, OwnInv, OnePodInv, [Next]_vars, NEW b \in Batch
  PROVE  RowMoves(b)
<1>1. ASSUME NEW c \in Batch, HandlerAct(c)
      PROVE  RowMoves(b)
  <2>1. CASE c = b
    BY <1>1, <2>1, HandlerMoves DEF OwnInv, OnePodInv
  <2>2. CASE c # b
    BY <1>1, <2>2, HandlerFrame DEF RowMoves
  <2> QED  BY <2>1, <2>2
<1>2. ASSUME NEW p \in Pod, PollerAct(p)
      PROVE  RowMoves(b)
  <2>1. CASE Commit(p)
    BY <2>1, CommitMoves DEF RowMoves
  <2>2. CASE row' = row
    BY <2>2 DEF RowMoves
  <2> QED  BY <1>2, <2>1, <2>2, PollersLeave
<1>3. ASSUME NEW p \in Pod, Boot(p) \/ Shutdown(p) \/ Drain(p) \/ Crash(p)
      PROVE  row' = row
  BY <1>3 DEF Boot, Shutdown, Drain, Crash, others
<1> QED
  BY <1>1, <1>2, <1>3, Steps DEF RowMoves

\* A job that somebody polls is never pending again.
LEMMA PendingIsPast ==
  ASSUME TypeOK, OwnInv, [Next]_vars, NEW b \in Batch, row[b].ray_job_id,
         ray'[b] = "PENDING"
  PROVE  ray[b] = "PENDING"
<1>1. ASSUME NEW c \in Batch, HandlerAct(c)
      PROVE  ray'[b] = ray[b]
  <2>1. CASE c = b
    BY <1>1, <2>1, HandlerKeepsPolled DEF OwnInv
  <2>2. CASE c # b
    BY <1>1, <2>2, HandlerFrame
  <2> QED  BY <2>1, <2>2
<1>2. ASSUME NEW p \in Pod, PollerAct(p)
      PROVE  ray' = ray
  BY <1>2, PollersLeave
<1>3. CASE Cluster \/ ClusterFault
  BY <1>3 DEF Cluster, ClusterFault, StartJob, FinishJob, NeverStarts, StopJob, HeadRestart,
              TypeOK, RayTypeOK
<1>4. ASSUME NEW p \in Pod, Boot(p) \/ Shutdown(p) \/ Drain(p) \/ Crash(p)
      PROVE  ray' = ray
  BY <1>4 DEF Boot, Shutdown, Drain, Crash, others
<1> QED
  BY <1>1, <1>2, <1>3, <1>4, Steps

\* A request handler never says that a batch is in progress.
LEMMA HandlerNeverBegins ==
  ASSUME TypeOK, NEW b \in Batch, HandlerAct(b), row[b].status = "queued"
  PROVE  row'[b].status # "in_progress"
<1>0. row[b] \in Row /\ row \in [Batch -> Row]
  BY DEF TypeOK, CreateTypeOK
<1>1. CASE InsertRow(b)
  BY <1>0, <1>1 DEF InsertRow, QueuedRow, NoRow
<1>2. CASE FailRow(b)
  BY <1>0, <1>2 DEF FailRow, Row, RowOver
<1>3. CASE AttachJob(b)
  BY <1>0, <1>3 DEF AttachJob, Row, RowOver
<1>4. CASE row' = row
  BY <1>4
<1> QED  BY <1>1, <1>2, <1>3, <1>4, HandlerWrites

-----------------------------------------------------------------------------
(* The invariant is preserved.                                               *)

LEMMA KemptStep ==
  ASSUME TypeOK, OwnInv, OnePodInv, [Next]_vars, NEW b \in Batch
  PROVE  Kempt(b)'
<1>1. Kempt(b) /\ RowMoves(b)
  BY RowsMove DEF OnePodInv
<1>2. (row[b].completed_at <=> Terminal(row[b]))'
  BY <1>1 DEF Kempt, RowMoves, Appears, GoesOn, QueuedRow, NoRow, Terminal, TerminalStatuses
<1>3. ASSUME row'[b].status = "in_progress", ray'[b] = "PENDING"
      PROVE  FALSE
  <2>1. CASE row'[b] = row[b]
    <3>1. row[b].ray_job_id
      BY <1>3, <2>1 DEF OwnInv, RowMade, Untouched, Refused, RefusedRow, QueuedRow, NoRow,
              Exists
    <3> QED  BY <1>1, <1>3, <2>1, <3>1, PendingIsPast DEF Kempt
  <2>2. CASE row'[b] # row[b]
    <3>1. ~Appears(b)
      BY <1>3 DEF Appears, QueuedRow, NoRow
    <3>2. GoesOn(b)
      BY <1>1, <2>2, <3>1 DEF RowMoves
    <3>3. PICK p \in Pod : Commit(p) /\ poller[p].cur = b
      <4>1. ASSUME NEW c \in Batch, HandlerAct(c)
            PROVE  FALSE
        <5>1. c = b /\ ~row[b].ray_job_id
          BY <2>2, <4>1, HandlerFrame, HandlerKeepsPolled DEF OwnInv
        <5>2. row[b].status = "queued"
          <6>1. ~Exists(row[b]) \/ Untouched(b) \/ Refused(b)
            BY <5>1 DEF OwnInv, RowMade
          <6>2. row[b].status \in ActiveStatuses
            BY <3>2 DEF GoesOn
          <6> QED  BY <6>1, <6>2 DEF Untouched, Refused, RefusedRow, QueuedRow, NoRow, Exists,
                                     ActiveStatuses
        <5> QED  BY <1>3, <2>2, <4>1, <5>1, <5>2, HandlerNeverBegins
      <4>2. ASSUME NEW p \in Pod, Boot(p) \/ Shutdown(p) \/ Drain(p) \/ Crash(p)
            PROVE  row' = row
        BY <4>2 DEF Boot, Shutdown, Drain, Crash, others
      <4>3. PICK p \in Pod : PollerAct(p)
        BY <2>2, <4>1, <4>2, Steps
      <4>4. Commit(p)
        BY <2>2, <4>3, PollersLeave
      <4> QED  BY <2>2, <4>4, CommitMoves
    <3>4. poller[p].seen = "in_progress" /\ ray' = ray
      <4>1. poller[p].set = row'[b] /\ poller[p].set.status = poller[p].seen
        BY <3>3, CommitMoves DEF Commit, OwnInv, PollerOwn
      <4> QED  BY <1>3, <3>3, <4>1 DEF Commit, pollerLeaves
    <3> QED  BY <1>3, <3>3, <3>4 DEF OnePodInv, Fresh, Holding, Commit
  <2> QED  BY <2>1, <2>2
<1> QED  BY <1>2, <1>3 DEF Kempt

\* A poller at rest, while what it has listed does not change.
LEMMA FreshFrame ==
  ASSUME TypeOK, OwnInv, OnePodInv, NEW p \in Pod, poller'[p] = poller[p],
         \A b \in poller[p].todo :
           row'[b] = row[b] /\ (ray'[b] = "PENDING" => ray[b] = "PENDING")
  PROVE  Fresh(p)'
<1>1. poller[p].pc \in Holding => poller[p].cur \in poller[p].todo
  BY DEF OwnInv, PollerOwn
<1> QED  BY <1>1 DEF OnePodInv, Fresh, Holding

LEMMA BetweenIsFresh ==
  ASSUME NEW p \in Pod, NEW pc \in {"off", "asleep", "sweep"}, NEW todo,
         poller'[p] = Between(pc, todo), \A b \in todo : row'[b].status \in ActiveStatuses
  PROVE  Fresh(p)'
BY DEF Fresh, Between, Holding

LEMMA SkipIsFresh ==
  ASSUME TypeOK, NEW p \in Pod, NEW b, Skip(p, b),
         \A c \in poller[p].todo \ {b} : row'[c].status \in ActiveStatuses
  PROVE  Fresh(p)'
<1>1. poller'[p] = Between("sweep", poller[p].todo \ {b})
  BY DEF Skip, TypeOK, PollerTypeOK
<1> QED  BY <1>1, BetweenIsFresh

\* The answer for an active row is active only as far as the row has got.
LEMMA AskIsFresh ==
  ASSUME TypeOK, OnePodInv, NEW p \in Pod, NEW b \in Batch, Ask(p, b)
  PROVE  Fresh(p)'
<1>1. /\ poller'[p].pc = "asked" /\ poller'[p].cur = b
      /\ poller'[p].seen = MapStatus(ray[b]) /\ poller'[p].todo = poller[p].todo
      /\ b \in poller[p].todo /\ row' = row /\ ray' = ray
  BY DEF Ask, TypeOK, PollerTypeOK, Poller, pollerLeaves
<1>2. row[b].status \in ActiveStatuses /\ Kempt(b)
  BY <1>1 DEF OnePodInv, Fresh
<1>3. MapStatus(ray[b]) = "queued" => ray[b] = "PENDING"
  BY DEF MapStatus
<1>4. MapStatus(ray[b]) = "in_progress" => ray[b] # "PENDING"
  BY DEF MapStatus
<1> QED
  BY <1>1, <1>2, <1>3, <1>4 DEF OnePodInv, Fresh, Kempt, ActiveStatuses

LEMMA LoadIsFresh ==
  ASSUME TypeOK, OwnInv, OnePodInv, NEW p \in Pod, Load(p)
  PROVE  Fresh(p)'
<1>0. PICK b \in Batch : b = poller[p].cur
  BY DEF Load, TypeOK, PollerTypeOK, Holding
<1> DEFINE s == poller[p].seen
           u == Update(row[b], s, Marker(b, s))
<1>1. /\ s \in BatchStatus /\ poller[p] \in Poller /\ poller[p].pc = "asked"
      /\ b \in poller[p].todo /\ row[b] \in Row
  BY <1>0 DEF Load, TypeOK, CreateTypeOK, PollerTypeOK, Holding, OwnInv, PollerOwn
<1>2. poller' = [poller EXCEPT ![p] =
        [poller[p] EXCEPT !.pc = "loaded", !.loaded = row[b], !.set = u]]
  BY <1>0 DEF Load
<1>3. /\ poller'[p].pc = "loaded" /\ poller'[p].cur = b /\ poller'[p].seen = s
      /\ poller'[p].todo = poller[p].todo
      /\ poller'[p].loaded = row[b] /\ poller'[p].set = u
  BY <1>0, <1>1, <1>2 DEF TypeOK, PollerTypeOK, Poller
<1>4. row' = row /\ ray' = ray
  BY DEF Load, pollerLeaves
<1>5. row[b].status \in ActiveStatuses /\ row[b].completed_at = FALSE
  BY <1>1 DEF OnePodInv, Fresh, Kempt, Terminal, ActiveStatuses, TerminalStatuses,
              Row, RowOver
<1>6. u.completed_at <=> u.status \in TerminalStatuses
  BY <1>1, <1>5 DEF Update, Row, RowOver, BatchStatus, ActiveStatuses, TerminalStatuses
<1> QED
  BY <1>0, <1>1, <1>3, <1>4, <1>6 DEF OnePodInv, Fresh, Holding

LEMMA PollerIsFresh ==
  ASSUME TypeOK, OwnInv, OnePodInv, NEW p \in Pod, PollerAct(p)
  PROVE  Fresh(p)'
<1>1. \A c \in poller[p].todo : c \in Batch /\ row[c].status \in ActiveStatuses
  BY DEF OnePodInv, Fresh, TypeOK, PollerTypeOK, Poller
<1>2. CASE Sweep(p)
  <2>1. /\ poller'[p] = Between("sweep", {b \in Batch : Listed(b)})
        /\ \A b \in {c \in Batch : Listed(c)} : row'[b].status \in ActiveStatuses
    BY <1>2 DEF Sweep, Listed, TypeOK, PollerTypeOK
  <2> QED  BY <2>1, BetweenIsFresh
<1>3. CASE Sleep(p)
  <2>1. poller'[p] = Between("asleep", {})
    BY <1>3 DEF Sleep, TypeOK, PollerTypeOK
  <2> QED  BY <2>1, BetweenIsFresh
<1>4. CASE \E b \in Batch : Ask(p, b)
  BY <1>4, AskIsFresh
<1>5. CASE Load(p)
  BY <1>5, LoadIsFresh
<1>6. CASE Commit(p)
  BY <1>1, <1>6, CommitMoves, SkipIsFresh DEF Commit
<1>7. ASSUME NEW b, Skip(p, b), row' = row
      PROVE  Fresh(p)'
  BY <1>1, <1>7, SkipIsFresh
<1>8. CASE \/ \E b \in Batch : AskFails(p, b)
           \/ MarkerUnreadable(p) \/ NothingNew(p) \/ CommitFails(p)
  BY <1>7, <1>8 DEF AskFails, MarkerUnreadable, NothingNew, CommitFails
<1> QED
  BY <1>2, <1>3, <1>4, <1>5, <1>6, <1>8 DEF PollerAct, PollStep, JobUnknown

LEMMA FreshStep ==
  ASSUME TypeOK, OwnInv, OnePodInv, SinglePod, [Next]_vars, NEW p \in Pod
  PROVE  Fresh(p)'
<1>1. \A b \in poller[p].todo : b \in Batch /\ row[b].ray_job_id
  BY DEF OwnInv, PollerOwn, TypeOK, PollerTypeOK, Poller
<1>2. ASSUME poller'[p] = poller[p], \A b \in poller[p].todo : row'[b] = row[b]
      PROVE  Fresh(p)'
  BY <1>1, <1>2, FreshFrame, PendingIsPast
<1>3. ASSUME NEW c \in Batch, HandlerAct(c), UNCHANGED poller
      PROVE  Fresh(p)'
  <2>1. ASSUME NEW b \in poller[p].todo
        PROVE  row'[b] = row[b]
    <3>1. CASE b = c
      BY <1>1, <1>3, <3>1, HandlerKeepsPolled DEF OwnInv
    <3>2. CASE b # c
      BY <1>1, <1>3, <3>2, HandlerFrame
    <3> QED  BY <3>1, <3>2
  <2> QED  BY <1>2, <1>3, <2>1
<1>4. ASSUME NEW q \in Pod, PollerAct(q)
      PROVE  Fresh(p)'
  <2>1. q = p
    BY DEF SinglePod
  <2> QED  BY <1>4, <2>1, PollerIsFresh
<1>5. ASSUME NEW q \in Pod, Boot(q) \/ Shutdown(q) \/ Drain(q) \/ Crash(q)
      PROVE  Fresh(p)'
  <2>1. row' = row
    BY <1>5 DEF Boot, Shutdown, Drain, Crash, others
  <2>2. poller'[p] = poller[p] \/ poller'[p] \in {Between("asleep", {}), Between("off", {})}
    BY <1>5 DEF Boot, Shutdown, Drain, Crash, TypeOK, PollerTypeOK
  <2> QED  BY <1>2, <2>1, <2>2, BetweenIsFresh
<1>6. CASE UNCHANGED <<row, poller>>
  BY <1>2, <1>6
<1> QED
  BY <1>3, <1>4, <1>5, <1>6, Steps

LEMMA OnePodInit == Init => OnePodInv
BY DEF Init, CreateInit, PollerInit, OnePodInv, Kempt, Fresh, Between, Holding, NoRow,
       Terminal, TerminalStatuses

LEMMA OnePodStep ==
  ASSUME TypeOK, OwnInv, OnePodInv, SinglePod, [Next]_vars
  PROVE  OnePodInv'
<1>1. (\A b \in Batch : Kempt(b)') /\ (\A p \in Pod : Fresh(p)')
  BY KemptStep, FreshStep
<1> QED  BY <1>1 DEF OnePodInv

\* The inductive invariant of a service whose pods do not overlap.
THEOREM OnePodInvariant ==
  ASSUME SinglePod
  PROVE  Spec => [](TypeOK /\ ServiceInv /\ OnePodInv)
<1>1. Init => TypeOK /\ ServiceInv /\ OnePodInv
  BY TypeInit, ServiceInvInit, OnePodInit
<1>2. TypeOK /\ ServiceInv /\ OnePodInv /\ [Next]_vars => (TypeOK /\ ServiceInv /\ OnePodInv)'
  BY TypeStep, ServiceInvStep, OwnPart, OnePodStep
<1> QED  BY <1>1, <1>2, PTL DEF Spec

\* completed_at is set exactly in the terminal statuses.
THEOREM EndIsTimedAlways ==
  ASSUME SinglePod
  PROVE  Spec => []EndIsTimed
<1>1. TypeOK /\ ServiceInv /\ OnePodInv => EndIsTimed
  BY DEF OnePodInv, Kempt, EndIsTimed
<1> QED  BY <1>1, OnePodInvariant, PTL

\* As long as pods do not overlap, no step takes a batch out of a terminal status.
THEOREM TerminalIsFinalAlways ==
  ASSUME SinglePod
  PROVE  Spec => TerminalIsFinal
<1>1. TypeOK /\ ServiceInv /\ OnePodInv /\ [Next]_vars =>
        [\A b \in Batch : Terminal(row[b]) => row'[b].status = row[b].status]_vars
  BY OwnPart, RowsMove DEF RowMoves, Appears, GoesOn, Terminal, TerminalStatuses, ActiveStatuses, NoRow
<1> QED  BY <1>1, OnePodInvariant, PTL DEF Spec, TerminalIsFinal

-----------------------------------------------------------------------------
(* The refinement.                                                           *)

\* No step changes the rows of two batches.
LEMMA OneRowMoves ==
  ASSUME TypeOK, ServiceInv, OnePodInv, [Next]_vars
  PROVE  \/ \A c \in Batch : row'[c] = row[c]
         \/ \E b \in Batch : \A c \in Batch : c # b => row'[c] = row[c]
<1>1. ASSUME NEW b \in Batch, HandlerAct(b)
      PROVE  \A c \in Batch : c # b => row'[c] = row[c]
  BY <1>1, HandlerFrame
<1>2. ASSUME NEW p \in Pod, PollerAct(p)
      PROVE  \/ \A c \in Batch : row'[c] = row[c]
             \/ \E b \in Batch : \A c \in Batch : c # b => row'[c] = row[c]
  <2>1. CASE Commit(p)
    <3>1. poller[p].cur \in Batch
      BY <2>1 DEF Commit, TypeOK, PollerTypeOK, Holding
    <3> QED  BY <2>1, <3>1, OwnPart, CommitMoves
  <2> QED  BY <1>2, <2>1, PollersLeave
<1>3. ASSUME NEW p \in Pod, Boot(p) \/ Shutdown(p) \/ Drain(p) \/ Crash(p)
      PROVE  row' = row
  BY <1>3 DEF Boot, Shutdown, Drain, Crash, others
<1> QED  BY <1>1, <1>2, <1>3, Steps

\* The step of one row is a step of the lifecycle, or none.
LEMMA RowRefines ==
  ASSUME TypeOK, NEW b \in Batch, RowMoves(b),
         \A c \in Batch : c # b => row'[c] = row[c],
         \A c \in Batch : Shown(c), \A c \in Batch : Shown(c)'
  PROVE  [Promised!Next]_(Promised!lifeVars)
<1> DEFINE statuses == [c \in Batch |-> GetStatus(c)]
           inputs   == [c \in Batch |-> row[c].input_count]
           streams  == [c \in Batch |-> GetResults(c)]
<1>1. \A c \in Batch : GetResults(c) = ResultsOf(row[c])
                       /\ GetResults(c)' = ResultsOf(row'[c])
  BY DEF Shown, ResultsOf
<1>2. ASSUME row'[b].status = row[b].status, row'[b].input_count = row[b].input_count,
             ResultsOf(row'[b]) = ResultsOf(row[b])
      PROVE  UNCHANGED Promised!lifeVars
  BY <1>1, <1>2 DEF Promised!lifeVars, GetStatus
<1>3. CASE row'[b] = row[b]
  BY <1>2, <1>3
<1>4. CASE Appears(b)
  <2>1. PICK n \in 1..MaxPrompts : row'[b] = QueuedRow(n)
    BY <1>4 DEF Appears
  <2>2. /\ row[b].status = "absent"
        /\ row'[b].status = "queued" /\ row'[b].input_count = n
    <3>1. row[b] = NoRow /\ NoRow \in Row
      BY <1>4, RowsAreRows DEF Appears
    <3>2. row[b].status = "absent"
      BY <3>1 DEF NoRow
    <3> QED  BY <2>1, <3>1, <3>2 DEF QueuedRow, Row, RowOver
  <2>3. Promised!Appear(b, n)
    BY <1>1, <2>2 DEF Promised!Appear, GetStatus, ResultsOf
  <2> QED  BY <2>3 DEF Promised!Next
<1>5. CASE GoesOn(b)
  <2>1. row'[b].input_count = row[b].input_count /\ row[b].status \in ActiveStatuses
    BY <1>5 DEF GoesOn
  <2>2. ASSUME row'[b].status # "completed"
        PROVE  ResultsOf(row'[b]) = ResultsOf(row[b])
    BY <2>1, <2>2 DEF ResultsOf, ActiveStatuses
  <2>3. CASE row'[b].status = row[b].status
    BY <1>2, <2>1, <2>2, <2>3 DEF ActiveStatuses
  <2>4. CASE row'[b].status = "in_progress" /\ row[b].status = "queued"
    <3>1. Promised!Progress(b)
      BY <1>1, <2>1, <2>2, <2>4 DEF Promised!Progress, GetStatus
    <3> QED  BY <3>1 DEF Promised!Next
  <2>5. CASE row'[b].status = "completed"
    <3>1. /\ row'[b].completed_count \in 0..row[b].input_count
          /\ row'[b].failed_count = row[b].input_count - row'[b].completed_count
      BY <2>1, <2>5 DEF Shown
    <3>2. ResultsOf(row'[b]) = [state |-> "whole", ok |-> row'[b].completed_count,
                               err |-> row[b].input_count - row'[b].completed_count]
      BY <2>5, <3>1 DEF ResultsOf
    <3>3. streams' = [streams EXCEPT ![b] =
            [state |-> "whole", ok |-> row'[b].completed_count,
             err |-> inputs[b] - row'[b].completed_count]]
      BY <1>1, <3>2
    <3>4. /\ statuses[b] \in {"queued", "in_progress"}
          /\ statuses' = [statuses EXCEPT ![b] = "completed"]
          /\ inputs' = inputs
      BY <2>1, <2>5 DEF GetStatus, ActiveStatuses
    <3>5. row'[b].completed_count \in 0..inputs[b]
      BY <3>1
    <3>6. Promised!Complete(b)
      BY <3>3, <3>4, <3>5 DEF Promised!Complete
    <3> QED  BY <3>6 DEF Promised!Next
  <2>6. ASSUME NEW s \in {"failed", "cancelled"}, row'[b].status = s
        PROVE  Promised!Next
    <3>1. Promised!GiveUp(b, s)
      BY <1>1, <2>1, <2>2, <2>6 DEF Promised!GiveUp, GetStatus, ActiveStatuses
    <3> QED  BY <3>1 DEF Promised!Next
  <2> QED
    BY <1>5, <2>3, <2>4, <2>5, <2>6 DEF GoesOn, ActiveStatuses, TerminalStatuses
<1> QED  BY <1>3, <1>4, <1>5 DEF RowMoves

\* As long as pods do not overlap, whatever fails, a client sees the promised
\* lifecycle: results appear with the status completed, once, all of them.
THEOREM LifecycleKeptAlways ==
  ASSUME SinglePod
  PROVE  Spec => LifecycleKept
<1> DEFINE AllShown == \A b \in Batch : Shown(b)
<1>1. Init => Promised!Init
  BY DEF Init, CreateInit, Promised!Init, Promised!NoResults, GetStatus, GetResults, NoRow
<1>2. ASSUME TypeOK, ServiceInv, OnePodInv, AllShown, AllShown', [Next]_vars
      PROVE  [Promised!Next]_(Promised!lifeVars)
  <2>1. \A b \in Batch : RowMoves(b)
    BY <1>2, OwnPart, RowsMove
  <2>2. CASE \A c \in Batch : row'[c] = row[c]
    <3>1. \A c \in Batch : GetResults(c)' = GetResults(c)
      BY <1>2, <2>2 DEF Shown, ResultsOf
    <3> QED  BY <2>2, <3>1 DEF Promised!lifeVars, GetStatus
  <2>3. CASE \E b \in Batch : \A c \in Batch : c # b => row'[c] = row[c]
    BY <1>2, <2>1, <2>3, RowRefines
  <2> QED  BY <1>2, <2>2, <2>3, OneRowMoves
<1>3. TypeOK /\ ServiceInv /\ CompletedMeansDelivered => AllShown
  BY ShownByRow
<1> HIDE DEF AllShown
<1>4. TypeOK /\ ServiceInv /\ OnePodInv /\ AllShown /\ AllShown' /\ [Next]_vars
        => [Promised!Next]_(Promised!lifeVars)
  BY <1>2
<1>5. Spec => []AllShown
  BY <1>3, ServiceInvariant, CompletedMeansDeliveredAlways, PTL
<1> QED
  BY <1>1, <1>4, <1>5, OnePodInvariant, PTL DEF Spec, LifecycleKept, Promised!Spec

=============================================================================
