---------------------------- MODULE OverlapProofs ----------------------------
(***************************************************************************)
(* What is left of the promised lifecycle when any number of pods overlap: *)
(* a batch ends in one way, and the service implements OverlapLifecycle.   *)
(*                                                                         *)
(* TerminalIsFinal, on which OnePodProofs rests, is false here: a stale    *)
(* commit sets the status of an ended batch back.  What it does not touch  *)
(* is how the batch ended, which the other columns keep (EndOf); the       *)
(* invariant says so of the row, of the row objects that sessions hold,    *)
(* and of the answers they were opened for.                                *)
(***************************************************************************)
EXTENDS BatchServiceProofs

-----------------------------------------------------------------------------
(* How a row says that its batch ended.                                      *)

LEMMA EndCases ==
  ASSUME NEW r
  PROVE  /\ EndOf(r) = "open" <=> ~r.completed_at
         /\ EndOf(r) = "failed" <=> r.completed_at /\ r.error # "none"
         /\ EndOf(r) = "completed" <=> /\ r.completed_at /\ r.error = "none"
                                       /\ r.completed_count + r.failed_count > 0
         /\ EndOf(r) \in {"open"} \cup TerminalStatuses
<1>1. CASE ~r.completed_at
  BY <1>1 DEF EndOf
<1>2. CASE r.completed_at /\ r.error # "none"
  BY <1>2 DEF EndOf, TerminalStatuses
<1>3. CASE r.completed_at /\ r.error = "none"
  BY <1>3 DEF EndOf, TerminalStatuses
<1> QED  BY <1>1, <1>2, <1>3

\* The columns of a row, or of a row object, of a batch whose results are d and whose
\* driver is at pc.
RowShape(r, d, pc) ==
  /\ EndOf(r) = "open" => r.error = "none"
  /\ EndOf(r) # "completed" => r.completed_count = 0 /\ r.failed_count = 0
  /\ EndOf(r) = "completed" =>
       pc = "exit0" /\ r.completed_count = d.ok /\ r.failed_count = d.err
  /\ Terminal(r) => EndOf(r) = r.status

\* What a session for answer s makes of the object it loaded.
SessionShape(l, t, s) ==
  /\ s \in ActiveStatuses => t = [l EXCEPT !.status = s]
  /\ s \in TerminalStatuses => t.completed_at
  /\ s = "completed" => t.error = l.error
  /\ s = "failed" => t.error # "none"
  /\ s = "cancelled" => t.error = "none"

\* The counts of a session, beside the results and the stored row.
CountShape(l, t, s, r, d, pc) ==
  /\ s = "completed" =>
       /\ pc = "exit0" /\ d.ok + d.err > 0
       /\ t.completed_count = d.ok /\ t.failed_count = d.err
       /\ l.completed_count = d.ok => r.completed_count = d.ok
       /\ l.failed_count = d.err => r.failed_count = d.err
  /\ s # "completed" =>
       t.completed_count = l.completed_count /\ t.failed_count = l.failed_count

LEMMA UpdateShapes ==
  ASSUME NEW l \in Row, NEW s \in BatchStatus, NEW m
  PROVE  SessionShape(l, Update(l, s, m), s)
BY DEF SessionShape, Update, Row, RowOver, BatchStatus, ActiveStatuses, TerminalStatuses

\* The session of an active answer writes the status only, whatever it loaded.
LEMMA ActiveFlush ==
  ASSUME NEW r \in Row, NEW l \in Row, NEW s \in ActiveStatuses, l.status # s
  PROVE  Flush(l, [l EXCEPT !.status = s], r) = [r EXCEPT !.status = s]
BY DEF Flush, Dirty, Row, RowOver

\* The session of a terminal answer leaves the row ended in that way, though it writes
\* only the columns it changed, over a row that another session may have ended since.
LEMMA TerminalFlush ==
  ASSUME NEW r \in Row, NEW l \in Row, NEW t \in Row, NEW s \in TerminalStatuses, NEW d, NEW pc,
         RowShape(r, d, pc), RowShape(l, d, pc), SessionShape(l, t, s), t.status = s,
         CountShape(l, t, s, r, d, pc),
         EndOf(l) # "open" => EndOf(r) = EndOf(l), EndOf(r) \in {"open", s}
  PROVE  /\ EndOf(Flush(l, t, r)) = s
         /\ RowShape(Flush(l, t, r), d, pc)
         /\ EndOf(r) = "open" => Flush(l, t, r).status = s
<1> DEFINE n == Flush(l, t, r)
<1>1. /\ n.status = Dirty(l.status, s, r.status)
      /\ n.error = Dirty(l.error, t.error, r.error)
      /\ n.completed_at = Dirty(l.completed_at, t.completed_at, r.completed_at)
      /\ n.completed_count = Dirty(l.completed_count, t.completed_count, r.completed_count)
      /\ n.failed_count = Dirty(l.failed_count, t.failed_count, r.failed_count)
  BY DEF Flush
<1>2. n.completed_at
  <2>1. l.completed_at => r.completed_at
    BY EndCases
  <2> QED  BY <1>1, <2>1 DEF Dirty, SessionShape, Row, RowOver
<1>3. EndOf(r) = "open" => n.status = s
  <2>1. l.status = s => EndOf(l) # "open"
    BY DEF RowShape, Terminal, TerminalStatuses
  <2> QED  BY <1>1, <2>1, EndCases DEF Dirty, TerminalStatuses
<1>4. Terminal(n) => n.status = s
  <2>1. CASE EndOf(r) = "open"
    BY <1>3, <2>1
  <2>2. CASE EndOf(r) = s
    BY <1>1, <2>2 DEF Dirty, Terminal, RowShape
  <2> QED  BY <2>1, <2>2
<1>5. CASE s = "completed"
  <2>1. n.completed_count = d.ok /\ n.failed_count = d.err /\ d.ok + d.err > 0 /\ pc = "exit0"
    BY <1>1, <1>5 DEF CountShape, Dirty
  <2>2. r.error = "none"
    BY <1>5, EndCases DEF RowShape
  <2>3. n.error = "none"
    BY <1>1, <1>5, <2>2 DEF SessionShape, Dirty
  <2>4. EndOf(n) = "completed"
    BY <1>2, <2>1, <2>3, EndCases
  <2> HIDE DEF n
  <2>5. RowShape(n, d, pc)
    BY <1>4, <1>5, <2>1, <2>4 DEF RowShape
  <2> QED  BY <1>3, <1>5, <2>4, <2>5 DEF n
<1>6. CASE s = "failed"
  <2>1. n.completed_count = 0 /\ n.failed_count = 0
    BY <1>1, <1>6 DEF CountShape, Dirty, RowShape
  <2>2. n.error # "none"
    <3>1. l.error # "none" => r.error # "none"
      BY EndCases DEF RowShape
    <3> QED  BY <1>1, <1>6, <3>1 DEF SessionShape, Dirty
  <2>3. EndOf(n) = "failed"
    BY <1>2, <2>2, EndCases
  <2> HIDE DEF n
  <2>4. RowShape(n, d, pc)
    BY <1>4, <1>6, <2>1, <2>3 DEF RowShape
  <2> QED  BY <1>3, <1>6, <2>3, <2>4 DEF n
<1>7. CASE s = "cancelled"
  <2>1. n.completed_count = 0 /\ n.failed_count = 0
    BY <1>1, <1>7 DEF CountShape, Dirty, RowShape
  <2>2. r.error = "none"
    BY <1>7, EndCases DEF RowShape
  <2>3. n.error = "none"
    BY <1>1, <1>7, <2>2 DEF SessionShape, Dirty
  <2>4. EndOf(n) = "cancelled"
    BY <1>2, <2>1, <2>3 DEF EndOf
  <2> HIDE DEF n
  <2>5. RowShape(n, d, pc)
    BY <1>4, <1>7, <2>1, <2>4 DEF RowShape
  <2> QED  BY <1>3, <1>7, <2>4, <2>5 DEF n
<1> QED  BY <1>5, <1>6, <1>7 DEF TerminalStatuses

\* A status that is not terminal says nothing of the end.
LEMMA StatusOnly ==
  ASSUME NEW r \in Row, NEW s \in ActiveStatuses, NEW d, NEW pc, RowShape(r, d, pc)
  PROVE  /\ EndOf([r EXCEPT !.status = s]) = EndOf(r)
         /\ RowShape([r EXCEPT !.status = s], d, pc)
<1> DEFINE n == [r EXCEPT !.status = s]
<1>1. /\ n.completed_at = r.completed_at /\ n.error = r.error /\ n.status = s
      /\ n.completed_count = r.completed_count /\ n.failed_count = r.failed_count
  BY DEF Row, RowOver
<1> HIDE DEF n
<1>2. EndOf(n) = EndOf(r)
  BY <1>1 DEF EndOf
<1>3. RowShape(n, d, pc)
  BY <1>1, <1>2 DEF RowShape, Terminal, ActiveStatuses, TerminalStatuses
<1> QED  BY <1>2, <1>3 DEF n

-----------------------------------------------------------------------------
(* The invariant.                                                            *)

\* p is about to end the batch it is at.
Ending(p) == poller[p].pc \in Holding /\ poller[p].seen \in TerminalStatuses

\* The end that the row keeps is Ray's verdict, or, without a job, the creator's.
EndKnown(b) ==
  /\ RowShape(row[b], disk[b].results, driver[b].pc)
  /\ row[b].ray_job_id => Agrees(b, EndOf(row[b]))
  /\ ~row[b].ray_job_id => EndOf(row[b]) \in {"open", "failed"}

\* The row has ended as the object that the session loaded.
SessionKnown(p) ==
  LET b == poller[p].cur
      l == poller[p].loaded
  IN  poller[p].pc = "loaded" =>
        /\ RowShape(l, disk[b].results, driver[b].pc)
        /\ SessionShape(l, poller[p].set, poller[p].seen)
        /\ EndOf(l) # "open" => EndOf(row[b]) = EndOf(l)

\* The row has not ended in another way than the one p is about to write.  What both
\* say of Ray (Agrees) is lost when Ray forgets the job; this is not.
AnswerKnown(p) == Ending(p) => EndOf(row[poller[p].cur]) \in {"open", poller[p].seen}

AnswersAgree ==
  \A p, q \in Pod : Ending(p) /\ Ending(q) /\ poller[p].cur = poller[q].cur =>
    poller[p].seen = poller[q].seen

LifeInv ==
  /\ \A b \in Batch : EndKnown(b)
  /\ \A p \in Pod : SessionKnown(p) /\ AnswerKnown(p)
  /\ AnswersAgree

\* A poller is at a row with a job.
LEMMA EndingIsPolled ==
  ASSUME TypeOK, ServiceInv, NEW p \in Pod, poller[p].pc \in Holding
  PROVE  /\ poller[p].cur \in Batch /\ poller[p].seen \in BatchStatus
         /\ row[poller[p].cur].ray_job_id
         /\ Agrees(poller[p].cur, poller[p].seen)
<1>1. poller[p].cur \in Batch /\ poller[p].seen \in BatchStatus
  BY DEF TypeOK, PollerTypeOK
<1> QED  BY <1>1 DEF ServiceInv, PollerTrue, AnswerTrue

-----------------------------------------------------------------------------
(* What a step leaves alone.                                                 *)

\* The results of a driver that has exited 0 are as they were.
ResultsStay(b) ==
  driver[b].pc = "exit0" => driver'[b].pc = "exit0" /\ disk'[b].results = disk[b].results

\* How a batch ended does not change.
EndStays(b) == EndOf(row[b]) # "open" => EndOf(row'[b]) = EndOf(row[b])

LEMMA ShapeStays ==
  ASSUME NEW b, NEW r, ResultsStay(b), RowShape(r, disk[b].results, driver[b].pc)
  PROVE  RowShape(r, disk'[b].results, driver'[b].pc)
BY DEF RowShape, ResultsStay

LEMMA EndKnownFrame ==
  ASSUME NEW b \in Batch, EndKnown(b), Kept(b)
  PROVE  EndKnown(b)'
<1>1. RowShape(row[b], disk'[b].results, driver'[b].pc)
  BY ShapeStays DEF EndKnown, Kept, ResultsStay
<1> QED  BY <1>1 DEF EndKnown, Kept

LEMMA SessionFrame ==
  ASSUME NEW p \in Pod, SessionKnown(p), poller'[p] = poller[p],
         ResultsStay(poller[p].cur), EndStays(poller[p].cur)
  PROVE  SessionKnown(p)'
<1> DEFINE b == poller[p].cur
           l == poller[p].loaded
<1>1. CASE poller[p].pc = "loaded"
  <2>1. RowShape(l, disk'[b].results, driver'[b].pc)
    BY <1>1, ShapeStays DEF SessionKnown
  <2>2. EndOf(l) # "open" => EndOf(row'[b]) = EndOf(l)
    BY <1>1 DEF SessionKnown, EndStays
  <2> QED  BY <1>1, <2>1, <2>2 DEF SessionKnown
<1>2. CASE poller[p].pc # "loaded"
  BY <1>2 DEF SessionKnown
<1> QED  BY <1>1, <1>2

\* Rows stay as they are, and pollers too, or they let go of what they held.
LEMMA SteadyStep ==
  ASSUME TypeOK, LifeInv, \A b \in Batch : Kept(b),
         \A p \in Pod : poller'[p] = poller[p] \/ poller'[p].pc \notin Holding
  PROVE  LifeInv'
<1>1. ASSUME NEW b \in Batch
      PROVE  EndKnown(b)'
  BY EndKnownFrame DEF LifeInv
<1>2. ASSUME NEW p \in Pod
      PROVE  SessionKnown(p)' /\ AnswerKnown(p)'
  <2>1. CASE poller'[p].pc \notin Holding
    BY <2>1 DEF SessionKnown, AnswerKnown, Ending, Holding
  <2>2. CASE poller'[p] = poller[p] /\ poller[p].pc \in Holding
    <3>1. Kept(poller[p].cur)
      BY <2>2 DEF TypeOK, PollerTypeOK
    <3>2. SessionKnown(p)'
      BY <2>2, <3>1, SessionFrame DEF LifeInv, Kept, ResultsStay, EndStays
    <3>3. AnswerKnown(p)'
      BY <2>2, <3>1 DEF LifeInv, AnswerKnown, Ending, Kept
    <3> QED  BY <3>2, <3>3
  <2> QED  BY <2>1, <2>2
<1>3. AnswersAgree'
  BY DEF LifeInv, AnswersAgree, Ending
<1>4. (\A b \in Batch : EndKnown(b)') /\ (\A p \in Pod : SessionKnown(p)' /\ AnswerKnown(p)')
  BY <1>1, <1>2
<1> QED  BY <1>3, <1>4 DEF LifeInv

-----------------------------------------------------------------------------
(* Request handlers                                                          *)

\* A handler ends no batch but one without a job, which it fails.
LEMMA HandlerEnds ==
  ASSUME TypeOK, ServiceInv, NEW b \in Batch, EndKnown(b), HandlerAct(b)
  PROVE  EndKnown(b)' /\ EndStays(b)
<1>1. CASE row[b].ray_job_id
  <2>1. disk'[b] = disk[b] /\ ray'[b] = ray[b] /\ row'[b] = row[b]
    BY <1>1, HandlerKeepsPolled DEF ServiceInv
  <2>2. Kept(b)
    BY <2>1, HandlerFrame DEF Kept, Agrees
  <2> QED  BY <2>1, <2>2, EndKnownFrame DEF EndStays
<1>2. CASE ~row[b].ray_job_id
  <2>1. /\ row[b] \in Row /\ row \in [Batch -> Row]
        /\ RowShape(row[b], disk'[b].results, driver'[b].pc)
    <3>1. EndOf(row[b]) # "completed"
      BY <1>2 DEF EndKnown
    <3> QED  BY <3>1 DEF EndKnown, RowShape, TypeOK, CreateTypeOK
  <2>2. CASE row'[b] = row[b]
    BY <1>2, <2>1, <2>2 DEF EndKnown, EndStays
  <2>3. CASE post[b].pc = "insert" /\ InsertRow(b)
    <3>1. row[b] = NoRow /\ row'[b] = QueuedRow(disk[b].input)
      BY <2>1, <2>3 DEF InsertRow, ServiceInv, RowMade
    <3>2. /\ ~row'[b].completed_at /\ row'[b].error = "none" /\ row'[b].status = "queued"
          /\ row'[b].completed_count = 0 /\ row'[b].failed_count = 0
          /\ ~row'[b].ray_job_id /\ ~row[b].completed_at
      BY <3>1 DEF QueuedRow, NoRow
    <3> QED  BY <3>2, EndCases DEF EndKnown, EndStays, RowShape, Terminal, TerminalStatuses
  <2>4. CASE post[b].pc \in {"mark", "attach"} /\ (FailRow(b) \/ AttachJob(b))
    <3>1. row[b] = QueuedRow(disk[b].input)
      BY <2>4 DEF ServiceInv, RowMade, Untouched
    <3>2. /\ ~row[b].completed_at /\ row[b].error = "none" /\ row[b].status = "queued"
          /\ row[b].completed_count = 0 /\ row[b].failed_count = 0
      BY <3>1 DEF QueuedRow, NoRow
    <3>3. CASE FailRow(b)
      <4>1. row'[b] = [row[b] EXCEPT !.status = "failed", !.error = "submit",
                                     !.completed_at = TRUE]
        BY <2>1, <3>3 DEF FailRow
      <4>2. /\ row'[b].completed_at /\ row'[b].error # "none" /\ row'[b].status = "failed"
            /\ row'[b].completed_count = 0 /\ row'[b].failed_count = 0
            /\ ~row'[b].ray_job_id
        BY <1>2, <2>1, <3>2, <4>1 DEF Row, RowOver
      <4> QED  BY <3>2, <4>2, EndCases DEF EndKnown, EndStays, RowShape
    <3>4. CASE AttachJob(b)
      <4>1. row'[b] = [row[b] EXCEPT !.ray_job_id = TRUE]
        BY <2>1, <3>4 DEF AttachJob
      <4>2. /\ ~row'[b].completed_at /\ row'[b].error = "none" /\ row'[b].status = "queued"
            /\ row'[b].completed_count = 0 /\ row'[b].failed_count = 0
            /\ row'[b].ray_job_id
        BY <2>1, <3>2, <4>1 DEF Row, RowOver
      <4> QED
        BY <3>2, <4>2, EndCases DEF EndKnown, EndStays, RowShape, Agrees, Terminal,
                                    TerminalStatuses
    <3> QED  BY <2>4, <3>3, <3>4
  <2> QED  BY <2>2, <2>3, <2>4, HandlerWrites
<1> QED  BY <1>1, <1>2

LEMMA HandlerLife ==
  ASSUME TypeOK, ServiceInv, LifeInv, NEW b \in Batch, HandlerAct(b), UNCHANGED poller
  PROVE  LifeInv'
<1>1. ASSUME NEW c \in Batch, c # b \/ row[c].ray_job_id
      PROVE  Kept(c)
  <2>1. disk'[c] = disk[c] /\ ray'[c] = ray[c] /\ row'[c] = row[c]
    BY <1>1, HandlerFrame, HandlerKeepsPolled DEF ServiceInv
  <2> QED  BY <2>1, HandlerFrame DEF Kept, Agrees
<1>2. ASSUME NEW c \in Batch
      PROVE  EndKnown(c)'
  BY <1>1, HandlerEnds, EndKnownFrame DEF LifeInv
<1>3. ASSUME NEW p \in Pod
      PROVE  SessionKnown(p)' /\ AnswerKnown(p)'
  <2>1. CASE poller[p].pc \notin Holding
    BY <2>1 DEF SessionKnown, AnswerKnown, Ending, Holding
  <2>2. CASE poller[p].pc \in Holding
    <3>1. Kept(poller[p].cur)
      BY <1>1, <2>2, EndingIsPolled
    <3>2. SessionKnown(p)'
      BY <3>1, SessionFrame DEF LifeInv, Kept, ResultsStay, EndStays
    <3>3. AnswerKnown(p)'
      BY <3>1 DEF LifeInv, AnswerKnown, Ending, Kept
    <3> QED  BY <3>2, <3>3
  <2> QED  BY <2>1, <2>2
<1>4. AnswersAgree'
  BY DEF LifeInv, AnswersAgree, Ending
<1>5. (\A c \in Batch : EndKnown(c)') /\ (\A p \in Pod : SessionKnown(p)' /\ AnswerKnown(p)')
  BY <1>2, <1>3
<1> QED  BY <1>4, <1>5 DEF LifeInv

-----------------------------------------------------------------------------
(* Pollers                                                                   *)

\* Otherwise a poller is left between two batches.
LEMMA IdleOtherwise ==
  ASSUME TypeOK, NEW p \in Pod, PollerAct(p), ~Load(p), ~\E b \in Batch : Ask(p, b)
  PROVE  poller'[p].pc \notin Holding
<1>1. poller \in [Pod -> Poller]
  BY DEF TypeOK, PollerTypeOK
<1>2. CASE Sweep(p) \/ Sleep(p)
  BY <1>1, <1>2 DEF Sweep, Sleep, Between, Holding
<1>3. ASSUME NEW b, Skip(p, b)
      PROVE  poller'[p].pc \notin Holding
  BY <1>1, <1>3 DEF Skip, Between, Holding
<1> QED
  BY <1>2, <1>3 DEF PollerAct, PollStep, JobUnknown, AskFails, MarkerUnreadable, NothingNew,
                    Commit, CommitFails

LEMMA PollerKeeps ==
  ASSUME TypeOK, NEW p \in Pod, PollerAct(p), ~Commit(p)
  PROVE  \A b \in Batch : Kept(b)
BY PollersLeave DEF Kept, Agrees

\* What a poller does to its own answer is nothing to the others.
LEMMA OthersFrame ==
  ASSUME TypeOK, LifeInv, NEW p \in Pod, \A b \in Batch : Kept(b),
         \A q \in Pod : q # p => poller'[q] = poller[q],
         SessionKnown(p)', AnswerKnown(p)',
         \A q \in Pod : q # p /\ Ending(p)' /\ Ending(q) /\ poller[q].cur = poller'[p].cur =>
           poller[q].seen = poller'[p].seen
  PROVE  LifeInv'
<1>1. \A b \in Batch : EndKnown(b)'
  BY EndKnownFrame DEF LifeInv
<1>2. ASSUME NEW q \in Pod, q # p
      PROVE  SessionKnown(q)' /\ AnswerKnown(q)'
  <2>1. CASE poller[q].pc \notin Holding
    BY <1>2, <2>1 DEF SessionKnown, AnswerKnown, Ending, Holding
  <2>2. CASE poller[q].pc \in Holding
    <3>1. Kept(poller[q].cur) /\ poller'[q] = poller[q]
      BY <1>2, <2>2 DEF TypeOK, PollerTypeOK
    <3>2. SessionKnown(q)'
      BY <3>1, SessionFrame DEF LifeInv, Kept, ResultsStay, EndStays
    <3>3. AnswerKnown(q)'
      BY <3>1 DEF LifeInv, AnswerKnown, Ending, Kept
    <3> QED  BY <3>2, <3>3
  <2> QED  BY <2>1, <2>2
<1>3. AnswersAgree'
  <2> SUFFICES ASSUME NEW q \in Pod, NEW r \in Pod, Ending(q)', Ending(r)',
                      poller'[q].cur = poller'[r].cur
               PROVE  poller'[q].seen = poller'[r].seen
    BY DEF AnswersAgree
  <2>1. CASE q = p \/ r = p
    BY <2>1 DEF Ending
  <2>2. CASE q # p /\ r # p
    BY <2>2 DEF LifeInv, AnswersAgree, Ending
  <2> QED  BY <2>1, <2>2
<1>4. \A q \in Pod : SessionKnown(q)' /\ AnswerKnown(q)'
  BY <1>2
<1> QED  BY <1>1, <1>3, <1>4 DEF LifeInv

\* A new answer is Ray's at this moment; so is every other that is held, and the end
\* that the row keeps.
LEMMA AskLife ==
  ASSUME TypeOK, ServiceInv, LifeInv, NEW p \in Pod, NEW b \in Batch, Ask(p, b)
  PROVE  LifeInv'
<1>1. /\ poller'[p].pc = "asked" /\ poller'[p].cur = b /\ poller'[p].seen = MapStatus(ray[b])
      /\ \A q \in Pod : q # p => poller'[q] = poller[q]
      /\ row' = row /\ ray[b] # "UNKNOWN" /\ b \in poller[p].todo
  BY DEF Ask, TypeOK, PollerTypeOK, Poller
<1>2. row[b].ray_job_id
  BY <1>1 DEF ServiceInv, PollerTrue
<1>3. Agrees(b, EndOf(row[b])) /\ EndOf(row[b]) \in {"open"} \cup TerminalStatuses
  BY <1>2, EndCases DEF LifeInv, EndKnown
<1>4. SessionKnown(p)' /\ AnswerKnown(p)'
  BY <1>1, <1>3 DEF SessionKnown, AnswerKnown, Agrees
<1>5. ASSUME NEW q \in Pod, Ending(q), poller[q].cur = b
      PROVE  poller[q].seen = MapStatus(ray[b])
  BY <1>1, <1>5, EndingIsPolled DEF Ending, Agrees
<1>6. PollerAct(p) /\ ~Commit(p)
  BY <1>1 DEF PollerAct, PollStep, Ask, Commit
<1> QED  BY <1>1, <1>4, <1>5, <1>6, PollerKeeps, OthersFrame

\* A session holds the row of this moment and the answer it was opened for.
LEMMA LoadLife ==
  ASSUME TypeOK, LifeInv, NEW p \in Pod, Load(p)
  PROVE  LifeInv'
<1> DEFINE b == poller[p].cur
           s == poller[p].seen
           u == Update(row[b], s, Marker(b, s))
<1>1. b \in Batch /\ s \in BatchStatus /\ row[b] \in Row /\ poller[p].pc = "asked"
  BY DEF Load, TypeOK, PollerTypeOK, CreateTypeOK, Holding
<1>2. /\ poller' = [poller EXCEPT ![p] =
           [poller[p] EXCEPT !.pc = "loaded", !.loaded = row[b], !.set = u]]
      /\ UNCHANGED <<disk, driver, row>>
  BY DEF Load, pollerLeaves
<1>3. /\ poller'[p].pc = "loaded" /\ poller'[p].cur = b /\ poller'[p].seen = s
      /\ poller'[p].loaded = row[b] /\ poller'[p].set = u
      /\ \A q \in Pod : q # p => poller'[q] = poller[q]
  BY <1>2 DEF TypeOK, PollerTypeOK, Poller
<1>4. SessionShape(row[b], u, s)
  BY <1>1, UpdateShapes
<1>5. SessionKnown(p)'
  BY <1>1, <1>2, <1>3, <1>4 DEF SessionKnown, LifeInv, EndKnown
<1>6. Ending(p)' => Ending(p)
  BY <1>1, <1>3 DEF Ending, Holding
<1>7. AnswerKnown(p)'
  BY <1>2, <1>3, <1>6 DEF LifeInv, AnswerKnown
<1>8. \A q \in Pod : q # p /\ Ending(p)' /\ Ending(q) /\ poller[q].cur = poller'[p].cur =>
        poller[q].seen = poller'[p].seen
  BY <1>3, <1>6 DEF LifeInv, AnswersAgree
<1>9. PollerAct(p) /\ ~Commit(p)
  BY <1>1 DEF PollerAct, PollStep, Commit
<1> QED  BY <1>3, <1>5, <1>7, <1>8, <1>9, PollerKeeps, OthersFrame

\* What a commit makes of its row: it ends a batch that has not ended, or writes the end
\* again, or a status that is not terminal; the end that the row keeps stays.
Committed(b) ==
  /\ row[b].ray_job_id /\ row'[b].ray_job_id /\ row'[b].input_count = row[b].input_count
  /\ RowShape(row'[b], disk[b].results, driver[b].pc)
  /\ \/ EndOf(row'[b]) = EndOf(row[b])
     \/ EndOf(row[b]) = "open" /\ Terminal(row'[b])

LEMMA CommitEnds ==
  ASSUME TypeOK, ServiceInv, LifeInv, NEW p \in Pod, Commit(p)
  PROVE  /\ poller[p].cur \in Batch /\ Committed(poller[p].cur)
         /\ Ending(p) => EndOf(row'[poller[p].cur]) = poller[p].seen
         /\ ~Ending(p) => EndOf(row'[poller[p].cur]) = EndOf(row[poller[p].cur])
         /\ \A c \in Batch : c # poller[p].cur => row'[c] = row[c]
<1> DEFINE b == poller[p].cur
           s == poller[p].seen
           l == poller[p].loaded
           t == poller[p].set
           r == row[b]
           d == disk[b].results
           pc == driver[b].pc
           n == Flush(l, t, r)
<1>1. /\ poller[p].pc = "loaded" /\ poller[p].pc \in Holding
      /\ row' = [row EXCEPT ![b] = Flush(l, t, row[b])]
  BY DEF Commit, Holding
<1>2. /\ b \in Batch /\ s \in BatchStatus /\ r.ray_job_id /\ Agrees(b, s)
      /\ r \in Row /\ l \in Row /\ t \in Row
  BY <1>1, EndingIsPolled DEF TypeOK, CreateTypeOK, PollerTypeOK, Poller
<1>3. row'[b] = n /\ \A c \in Batch : c # b => row'[c] = row[c]
  BY <1>1, <1>2 DEF TypeOK, CreateTypeOK
<1>4. /\ l.ray_job_id /\ t.ray_job_id /\ t.input_count = l.input_count /\ t.status = s
      /\ s \in ActiveStatuses => l.status # s
  BY <1>1 DEF ServiceInv, PollerTrue, SessionTrue
<1>5. n.ray_job_id /\ n.input_count = r.input_count
  <2>1. l.ray_job_id = t.ray_job_id
    BY <1>2, <1>4 DEF Row, RowOver
  <2> QED  BY <1>2, <1>4, <2>1 DEF Flush, Dirty
<1>6. /\ RowShape(r, d, pc) /\ RowShape(l, d, pc) /\ SessionShape(l, t, s)
      /\ EndOf(l) # "open" => EndOf(r) = EndOf(l)
  BY <1>1, <1>2 DEF LifeInv, EndKnown, SessionKnown
<1>7. CASE s \in ActiveStatuses
  <2>1. n = [r EXCEPT !.status = s]
    BY <1>2, <1>4, <1>6, <1>7, ActiveFlush DEF SessionShape
  <2>2. EndOf(n) = EndOf(r) /\ RowShape(n, d, pc)
    BY <1>2, <1>6, <1>7, <2>1, StatusOnly
  <2>3. ~Ending(p)
    BY <1>7 DEF Ending, ActiveStatuses, TerminalStatuses
  <2> QED  BY <1>2, <1>3, <1>5, <2>2, <2>3 DEF Committed
<1>8. CASE s \in TerminalStatuses
  <2>1. Ending(p)
    BY <1>1, <1>8 DEF Ending
  <2>2. EndOf(r) \in {"open", s}
    BY <2>1 DEF LifeInv, AnswerKnown
  <2>3. CountShape(l, t, s, r, d, pc)
    <3>1. s = "completed" => pc = "exit0" /\ d.ok + d.err > 0
      <4> SUFFICES ASSUME s = "completed"
                   PROVE  pc = "exit0" /\ d.ok + d.err > 0
        OBVIOUS
      <4>1. pc = "exit0"
        BY <1>1 DEF ServiceInv, PollerTrue, AnswerTrue
      <4>2. driver[b].run = 1 /\ IsWhole(disk[b].success)
        BY <1>2, <4>1 DEF ServiceInv, JobInv, FirstRun, ByNow, RunOnce
      <4>3. Complete(d, disk[b].input)
        BY <1>2, <4>2 DEF ServiceInv, JobInv, FirstRun, PublishedIsComplete
      <4>4. disk[b].input > 0
        BY <1>2 DEF ServiceInv, RowMade, Exists, NoRow
      <4> QED  BY <4>1, <4>3, <4>4 DEF Complete
    <3> QED  BY <1>1, <3>1 DEF CountShape, ServiceInv, PollerTrue, SessionTrue
  <2>4. EndOf(n) = s /\ RowShape(n, d, pc) /\ (EndOf(r) = "open" => n.status = s)
    <3>1. /\ r \in Row /\ l \in Row /\ t \in Row /\ s \in TerminalStatuses /\ t.status = s
          /\ RowShape(r, d, pc) /\ RowShape(l, d, pc) /\ SessionShape(l, t, s)
          /\ CountShape(l, t, s, r, d, pc)
          /\ EndOf(l) # "open" => EndOf(r) = EndOf(l)
          /\ EndOf(r) \in {"open", s}
      BY <1>2, <1>4, <1>6, <1>8, <2>2, <2>3
    <3> HIDE DEF b, s, l, t, r, d, pc
    <3> QED  BY ONLY <3>1, TerminalFlush
  <2> HIDE DEF n
  <2>5. EndOf(n) = EndOf(r) \/ (EndOf(r) = "open" /\ Terminal(n))
    BY <1>8, <2>2, <2>4 DEF Terminal
  <2> QED  BY <1>2, <1>3, <1>5, <2>1, <2>4, <2>5 DEF Committed
<1> QED  BY <1>2, <1>7, <1>8 DEF BatchStatus

\* A commit writes an end only where no other is held, loaded or shown.
LEMMA CommitLife ==
  ASSUME TypeOK, ServiceInv, LifeInv, NEW p \in Pod, Commit(p)
  PROVE  LifeInv'
<1> DEFINE b == poller[p].cur
<1>1. /\ b \in Batch /\ Committed(b)
      /\ Ending(p) => EndOf(row'[b]) = poller[p].seen
      /\ ~Ending(p) => EndOf(row'[b]) = EndOf(row[b])
      /\ \A c \in Batch : c # b => row'[c] = row[c]
  BY CommitEnds
<1>2. /\ poller'[p].pc = "sweep" /\ poller[p].pc \in Holding
      /\ \A q \in Pod : q # p => poller'[q] = poller[q]
      /\ UNCHANGED <<disk, driver, ray>>
  BY DEF Commit, Skip, Between, Holding, pollerLeaves, TypeOK, PollerTypeOK
<1>3. \A c \in Batch : ResultsStay(c) /\ EndStays(c)
  BY <1>1, <1>2 DEF ResultsStay, EndStays, Committed
<1>4. ASSUME NEW c \in Batch
      PROVE  EndKnown(c)'
  <2>1. CASE c = b
    <3>1. Agrees(b, EndOf(row'[b]))
      <4>1. CASE Ending(p)
        BY <1>1, <1>2, <4>1, EndingIsPolled
      <4>2. CASE ~Ending(p)
        BY <1>1, <4>2 DEF LifeInv, EndKnown, Committed
      <4> QED  BY <4>1, <4>2
    <3> QED  BY <1>1, <1>2, <2>1, <3>1 DEF Committed, EndKnown, Agrees
  <2>2. CASE c # b
    BY <1>1, <1>2, <2>2, EndKnownFrame DEF LifeInv, Kept, Agrees
  <2> QED  BY <2>1, <2>2
<1>5. ASSUME NEW q \in Pod
      PROVE  SessionKnown(q)' /\ AnswerKnown(q)'
  <2>1. CASE poller'[q].pc \notin Holding
    BY <2>1 DEF SessionKnown, AnswerKnown, Ending, Holding
  <2>2. CASE poller'[q].pc \in Holding
    <3>1. q # p /\ poller'[q] = poller[q] /\ poller[q].cur \in Batch
      BY <1>2, <2>2 DEF Holding, TypeOK, PollerTypeOK
    <3>2. SessionKnown(q)'
      BY <1>3, <3>1, SessionFrame DEF LifeInv
    <3>3. AnswerKnown(q)'
      <4> SUFFICES ASSUME Ending(q)
                   PROVE  EndOf(row'[poller[q].cur]) \in {"open", poller[q].seen}
        BY <3>1 DEF AnswerKnown, Ending
      <4>1. EndOf(row[poller[q].cur]) \in {"open", poller[q].seen}
        BY DEF LifeInv, AnswerKnown
      <4>2. CASE poller[q].cur = b /\ Ending(p)
        BY <1>1, <4>2 DEF LifeInv, AnswersAgree
      <4>3. CASE poller[q].cur = b /\ ~Ending(p)
        BY <1>1, <4>1, <4>3
      <4>4. CASE poller[q].cur # b
        BY <1>1, <3>1, <4>1, <4>4
      <4> QED  BY <4>2, <4>3, <4>4
    <3> QED  BY <3>2, <3>3
  <2> QED  BY <2>1, <2>2
<1>6. AnswersAgree'
  BY <1>2 DEF LifeInv, AnswersAgree, Ending, Holding
<1>7. (\A c \in Batch : EndKnown(c)') /\ (\A q \in Pod : SessionKnown(q)' /\ AnswerKnown(q)')
  BY <1>4, <1>5
<1> QED  BY <1>6, <1>7 DEF LifeInv

-----------------------------------------------------------------------------
(* The invariant of a service whose pods overlap.                            *)

\* A pod that starts or ends takes answers away and brings none.
LEMMA PodsDropAnswers ==
  ASSUME TypeOK, (\E p \in Pod : Boot(p) \/ Shutdown(p)) \/ PodFault
  PROVE  /\ UNCHANGED <<disk, driver, ray, row>>
         /\ \A q \in Pod : poller'[q] = poller[q] \/ poller'[q].pc \notin Holding
<1>1. PICK p \in Pod : Boot(p) \/ Shutdown(p) \/ Drain(p) \/ Crash(p)
  BY DEF PodFault
<1>2. UNCHANGED <<disk, driver, ray, row>>
  BY <1>1 DEF Boot, Shutdown, Drain, Crash, others
<1>3. \A q \in Pod : poller'[q] = poller[q] \/ poller'[q].pc \notin Holding
  BY <1>1 DEF Boot, Shutdown, Drain, Crash, Between, Holding, TypeOK, PollerTypeOK
<1> QED  BY <1>2, <1>3

LEMMA LifeInit == Init => LifeInv
<1> SUFFICES ASSUME Init PROVE LifeInv
  OBVIOUS
<1>1. ASSUME NEW b \in Batch
      PROVE  EndKnown(b)
  <2>1. /\ ~row[b].completed_at /\ row[b].error = "none" /\ row[b].status = "absent"
        /\ row[b].completed_count = 0 /\ row[b].failed_count = 0 /\ ~row[b].ray_job_id
    BY DEF Init, CreateInit, NoRow
  <2> QED  BY <2>1, EndCases DEF EndKnown, RowShape, Terminal, TerminalStatuses
<1>2. \A p \in Pod : SessionKnown(p) /\ AnswerKnown(p) /\ ~Ending(p)
  BY DEF Init, PollerInit, SessionKnown, AnswerKnown, Ending, Between, Holding
<1> QED  BY <1>1, <1>2 DEF LifeInv, AnswersAgree

LEMMA LifeStep ==
  ASSUME TypeOK, ServiceInv, LifeInv, [Next]_vars
  PROVE  LifeInv'
<1>1. CASE (Handlers \/ HandlerFault) /\ UNCHANGED poller
  <2>1. \E b \in Batch : HandlerAct(b)
    BY <1>1 DEF Handlers, Request, HandlerFault, HandlerAct
  <2> QED  BY <1>1, <2>1, HandlerLife
<1>2. CASE Pollers \/ PollerFault
  <2>1. PICK p \in Pod : PollerAct(p)
    BY <1>2 DEF Pollers, PollerFault, PollerAct
  <2>2. CASE ~Load(p) /\ ~Commit(p) /\ ~\E b \in Batch : Ask(p, b)
    BY <2>1, <2>2, PollersLeave, PollerKeeps, IdleOtherwise, SteadyStep
  <2> QED  BY <2>1, <2>2, AskLife, LoadLife, CommitLife
<1>3. CASE (Cluster \/ ClusterFault) /\ UNCHANGED <<row, post, poller>>
  BY <1>3, ClusterKept, SteadyStep DEF ClusterKeeps
<1>4. CASE (\E p \in Pod : Boot(p) \/ Shutdown(p)) \/ PodFault
  <2>1. /\ UNCHANGED <<disk, driver, ray, row>>
        /\ \A q \in Pod : poller'[q] = poller[q] \/ poller'[q].pc \notin Holding
    BY <1>4, PodsDropAnswers
  <2> QED  BY <2>1, SteadyStep DEF Kept, Agrees
<1>5. CASE UNCHANGED vars
  BY <1>5, SteadyStep DEF vars, Kept, Agrees
<1> QED
  BY <1>1, <1>2, <1>3, <1>4, <1>5 DEF Next

\* The invariant holds in every state of the service, with any number of pods.
THEOREM LifeInvariant == Spec => [](TypeOK /\ ServiceInv /\ LifeInv)
<1>1. Init => LifeInv
  BY LifeInit
<1>2. TypeOK /\ ServiceInv /\ LifeInv /\ [Next]_vars => LifeInv'
  BY LifeStep
<1> QED  BY <1>1, <1>2, ServiceInvariant, PTL DEF Spec

-----------------------------------------------------------------------------
(* One end per batch.                                                        *)

\* A step leaves a row as it is, makes it, fails it for want of a job, or commits.
RowSteps(b) ==
  \/ row'[b] = row[b]
  \/ row[b] = NoRow /\ \E n \in 1..MaxPrompts : row'[b] = QueuedRow(n)
  \/ row[b].status = "queued" /\ row'[b].status = "failed"
       /\ EndOf(row[b]) = "open" /\ row'[b].input_count = row[b].input_count
  \/ row[b].status = "queued" /\ row'[b].status = "queued"
       /\ EndOf(row[b]) = "open" /\ EndOf(row'[b]) = "open"
       /\ row'[b].input_count = row[b].input_count
  \/ Committed(b)

LEMMA HandlerRowSteps ==
  ASSUME TypeOK, ServiceInv, NEW b \in Batch, HandlerAct(b)
  PROVE  RowSteps(b)
<1>1. row[b] \in Row /\ row \in [Batch -> Row] /\ disk[b].input \in 0..MaxPrompts
  BY DEF TypeOK, CreateTypeOK, InferTypeOK, Dir
<1>2. CASE post[b].pc = "insert" /\ InsertRow(b)
  <2>1. row[b] = NoRow /\ row'[b] = QueuedRow(disk[b].input) /\ disk[b].input > 0
    BY <1>1, <1>2 DEF InsertRow, ServiceInv, RowMade
  <2>2. disk[b].input \in 1..MaxPrompts
    BY <1>1, <2>1, MaxPromptsAssumption
  <2> QED  BY <2>1, <2>2 DEF RowSteps
<1>3. CASE post[b].pc \in {"mark", "attach"} /\ (FailRow(b) \/ AttachJob(b))
  <2>1. row[b] = QueuedRow(disk[b].input)
    BY <1>3 DEF ServiceInv, RowMade, Untouched
  <2>2. row[b].status = "queued" /\ ~row[b].completed_at
    BY <2>1 DEF QueuedRow, NoRow
  <2>3. CASE FailRow(b)
    <3>1. row'[b] = [row[b] EXCEPT !.status = "failed", !.error = "submit",
                                   !.completed_at = TRUE]
      BY <1>1, <2>3 DEF FailRow
    <3> QED  BY <1>1, <2>2, <3>1, EndCases DEF RowSteps, Row, RowOver
  <2>4. CASE AttachJob(b)
    <3>1. row'[b] = [row[b] EXCEPT !.ray_job_id = TRUE]
      BY <1>1, <2>4 DEF AttachJob
    <3>2. /\ row'[b].status = "queued" /\ ~row'[b].completed_at
          /\ row'[b].input_count = row[b].input_count
      BY <1>1, <2>2, <3>1 DEF Row, RowOver
    <3> QED  BY <2>2, <3>2, EndCases DEF RowSteps
  <2> QED  BY <1>3, <2>3, <2>4
<1>4. CASE row' = row
  BY <1>4 DEF RowSteps
<1> QED  BY <1>2, <1>3, <1>4, HandlerWrites

\* No step changes the rows of two batches.
LEMMA OneRowSteps ==
  ASSUME TypeOK, ServiceInv, LifeInv, [Next]_vars
  PROVE  \/ \A c \in Batch : row'[c] = row[c]
         \/ \E b \in Batch : RowSteps(b) /\ \A c \in Batch : c # b => row'[c] = row[c]
<1>1. ASSUME NEW b \in Batch, HandlerAct(b)
      PROVE  RowSteps(b) /\ \A c \in Batch : c # b => row'[c] = row[c]
  BY <1>1, HandlerFrame, HandlerRowSteps
<1>2. ASSUME NEW p \in Pod, PollerAct(p)
      PROVE  \/ \A c \in Batch : row'[c] = row[c]
             \/ \E b \in Batch : RowSteps(b) /\ \A c \in Batch : c # b => row'[c] = row[c]
  <2>1. CASE Commit(p)
    BY <2>1, CommitEnds DEF RowSteps
  <2> QED  BY <1>2, <2>1, PollersLeave
<1>3. ASSUME NEW p \in Pod, Boot(p) \/ Shutdown(p) \/ Drain(p) \/ Crash(p)
      PROVE  row' = row
  BY <1>3 DEF Boot, Shutdown, Drain, Crash, others
<1> QED  BY <1>1, <1>2, <1>3, Steps

\* Once a batch has ended, its row keeps how.
LEMMA EndsStay ==
  ASSUME TypeOK, ServiceInv, LifeInv, [Next]_vars, NEW b \in Batch
  PROVE  EndStays(b)
<1>1. CASE RowSteps(b)
  <2>1. ~NoRow.completed_at
    BY DEF NoRow
  <2> QED  BY <1>1, <2>1, EndCases DEF RowSteps, EndStays, Committed
<1>2. CASE row'[b] = row[b]
  BY <1>2 DEF EndStays
<1> QED  BY <1>1, <1>2, OneRowSteps

\* However many pollers overlap and however stale their answers are, a batch that has
\* shown an end never shows another one, through a loss of Ray's job table too.
THEOREM EndIsNeverRevisedEver == Spec => EndIsNeverRevised
<1> SUFFICES ASSUME NEW b \in Batch, NEW s \in TerminalStatuses
             PROVE  Spec => [](row[b].status = s => [](Terminal(row[b]) => row[b].status = s))
  BY DEF EndIsNeverRevised
<1> DEFINE EndIs == EndOf(row[b]) = s
<1>1. TypeOK /\ ServiceInv /\ LifeInv /\ row[b].status = s => EndIs
  BY DEF LifeInv, EndKnown, RowShape, Terminal
<1>2. TypeOK /\ ServiceInv /\ LifeInv /\ EndIs /\ [Next]_vars => EndIs'
  BY EndsStay DEF EndStays, TerminalStatuses
<1>3. TypeOK /\ ServiceInv /\ LifeInv /\ EndIs => (Terminal(row[b]) => row[b].status = s)
  BY DEF LifeInv, EndKnown, RowShape
<1> QED  BY <1>1, <1>2, <1>3, LifeInvariant, PTL DEF Spec

-----------------------------------------------------------------------------
(* The refinement.                                                           *)

\* Neither what a client sees of a batch changes, nor how it ended.
LEMMA NothingShown ==
  ASSUME \A c \in Batch : Shown(c), \A c \in Batch : Shown(c)',
         \A c \in Batch : row'[c] = row[c]
  PROVE  UNCHANGED Overlapping!overlapVars
<1>1. \A c \in Batch : GetResults(c)' = GetResults(c)
  BY DEF Shown
<1> QED  BY <1>1 DEF Overlapping!overlapVars, GetStatus

\* The abstract variables change at b only, to what the row of b makes of them.
LEMMA ShownMoves ==
  ASSUME NEW b \in Batch, \A c \in Batch : c # b => row'[c] = row[c],
         \A c \in Batch : Shown(c), \A c \in Batch : Shown(c)'
  PROVE  /\ [c \in Batch |-> GetStatus(c)]' =
              [[c \in Batch |-> GetStatus(c)] EXCEPT ![b] = row'[b].status]
         /\ [c \in Batch |-> row[c].input_count]' =
              [[c \in Batch |-> row[c].input_count] EXCEPT ![b] = row'[b].input_count]
         /\ [c \in Batch |-> GetResults(c)]' =
              [[c \in Batch |-> GetResults(c)] EXCEPT ![b] = ResultsOf(row'[b])]
         /\ [c \in Batch |-> EndShown(row[c])]' =
              [[c \in Batch |-> EndShown(row[c])] EXCEPT ![b] = EndShown(row'[b])]
         /\ GetStatus(b) = row[b].status /\ GetResults(b) = ResultsOf(row[b])
<1>1. \A c \in Batch : GetResults(c) = ResultsOf(row[c])
                       /\ GetResults(c)' = ResultsOf(row'[c])
  BY DEF Shown, ResultsOf
<1> QED  BY <1>1 DEF GetStatus

\* What the row of b shows as before is unchanged altogether.
LEMMA ShownStays ==
  ASSUME NEW b \in Batch, \A c \in Batch : c # b => row'[c] = row[c],
         \A c \in Batch : Shown(c), \A c \in Batch : Shown(c)'
  PROVE  /\ row'[b].input_count = row[b].input_count =>
              UNCHANGED [c \in Batch |-> row[c].input_count]
         /\ ResultsOf(row'[b]) = ResultsOf(row[b]) => UNCHANGED [c \in Batch |-> GetResults(c)]
         /\ EndShown(row'[b]) = EndShown(row[b]) =>
              UNCHANGED [c \in Batch |-> EndShown(row[c])]
<1>1. \A c \in Batch : GetResults(c) = ResultsOf(row[c])
                       /\ GetResults(c)' = ResultsOf(row'[c])
  BY DEF Shown, ResultsOf
<1>2. ASSUME ResultsOf(row'[b]) = ResultsOf(row[b])
      PROVE  \A c \in Batch : GetResults(c)' = GetResults(c)
  BY <1>1, <1>2
<1>3. ASSUME EndShown(row'[b]) = EndShown(row[b])
      PROVE  \A c \in Batch : EndShown(row'[c]) = EndShown(row[c])
  BY <1>3
<1> QED  BY <1>2, <1>3

\* A batch that has not ended shows its end.
LEMMA FirstEnd ==
  ASSUME NEW b \in Batch, \A c \in Batch : c # b => row'[c] = row[c],
         \A c \in Batch : Shown(c), \A c \in Batch : Shown(c)',
         row[b].status # "absent", row'[b].input_count = row[b].input_count,
         EndOf(row[b]) = "open", row'[b].status \in TerminalStatuses,
         EndOf(row'[b]) = row'[b].status
  PROVE  Overlapping!Next
<1> DEFINE inputs == [c \in Batch |-> row[c].input_count]
           ends   == [c \in Batch |-> EndShown(row[c])]
<1>1. EndShown(row[b]) = Overlapping!Open
  BY DEF EndShown, Overlapping!Open, Overlapping!NoResults
<1>2. inputs' = inputs
  BY ShownStays
<1>3. EndShown(row'[b]) = [status |-> row'[b].status, results |-> ResultsOf(row'[b])]
  BY DEF EndShown, ResultsOf
<1>4. CASE row'[b].status = "completed"
  <2> DEFINE o == row'[b].completed_count
  <2>1. o \in 0..inputs[b] /\ row'[b].failed_count = inputs[b] - o
    BY <1>4 DEF Shown
  <2>2. ResultsOf(row'[b]) = Overlapping!Whole(o, inputs[b] - o)
    BY <1>4, <2>1 DEF ResultsOf, Overlapping!Whole
  <2>3. Overlapping!ShowEnd(b, [status  |-> "completed",
                                results |-> Overlapping!Whole(o, inputs[b] - o)])
    BY <1>2, <1>3, <1>4, <2>2, ShownMoves DEF Overlapping!ShowEnd
  <2>4. /\ [c \in Batch |-> GetStatus(c)][b] # "absent" /\ ends[b] = Overlapping!Open
    BY <1>1, ShownMoves
  <2>5. Overlapping!Complete(b)
    BY <2>1, <2>3, <2>4 DEF Overlapping!Complete
  <2> QED  BY <2>5 DEF Overlapping!Next
<1>5. CASE row'[b].status # "completed"
  <2> DEFINE s == row'[b].status
  <2>1. ResultsOf(row'[b]) = Overlapping!NoResults
    BY <1>5 DEF ResultsOf, Overlapping!NoResults
  <2>2. Overlapping!ShowEnd(b, [status |-> s, results |-> Overlapping!NoResults])
    BY <1>2, <1>3, <2>1, ShownMoves DEF Overlapping!ShowEnd
  <2>3. Overlapping!GiveUp(b, s)
    BY <1>1, <2>2, ShownMoves DEF Overlapping!GiveUp
  <2>4. s \in {"failed", "cancelled"}
    BY <1>5 DEF TerminalStatuses
  <2> QED  BY <2>3, <2>4 DEF Overlapping!Next
<1> QED  BY <1>4, <1>5

\* A batch shows the end its row keeps, or shows none and keeps it.
LEMMA SameEnd ==
  ASSUME NEW b \in Batch, \A c \in Batch : c # b => row'[c] = row[c],
         \A c \in Batch : Shown(c), \A c \in Batch : Shown(c)',
         row[b].status # "absent", row'[b].input_count = row[b].input_count,
         EndShown(row'[b]) = EndShown(row[b]), row'[b].status \in BatchStatus,
         Terminal(row'[b]) => EndOf(row'[b]) = row'[b].status
  PROVE  Overlapping!Next
<1> DEFINE s == row'[b].status
<1>1. CASE s \in ActiveStatuses
  <2>1. ResultsOf(row'[b]) = Overlapping!NoResults
    BY <1>1 DEF ResultsOf, Overlapping!NoResults, ActiveStatuses
  <2>2. Overlapping!GoOn(b, s)
    BY <2>1, ShownMoves, ShownStays DEF Overlapping!GoOn
  <2> QED  BY <1>1, <2>2 DEF Overlapping!Next, ActiveStatuses
<1>2. CASE s \in TerminalStatuses
  <2>1. EndOf(row'[b]) = s /\ s # "open"
    BY <1>2 DEF Terminal, TerminalStatuses
  <2>2. EndShown(row[b]) = [status |-> s, results |-> ResultsOf(row'[b])]
    BY <2>1 DEF EndShown, ResultsOf
  <2>3. EndShown(row[b]) # Overlapping!Open
    BY <2>1, <2>2 DEF Overlapping!Open
  <2>4. PICK e : e = EndShown(row'[b])
    OBVIOUS
  <2>5. e.status = s /\ e.results = ResultsOf(row'[b])
    BY <2>2, <2>4
  <2>6. Overlapping!ShowEnd(b, e)
    BY <2>4, <2>5, ShownMoves, ShownStays DEF Overlapping!ShowEnd
  <2>7. Overlapping!ComeBack(b)
    BY <2>3, <2>4, <2>6 DEF Overlapping!ComeBack
  <2> QED  BY <2>7 DEF Overlapping!Next
<1> QED  BY <1>1, <1>2 DEF BatchStatus

\* The step of one row is a step of the lifecycle, or none.
LEMMA RowOverlaps ==
  ASSUME TypeOK, ServiceInv, LifeInv, TypeOK', ServiceInv', LifeInv',
         NEW b \in Batch, RowSteps(b), \A c \in Batch : c # b => row'[c] = row[c],
         \A c \in Batch : Shown(c), \A c \in Batch : Shown(c)'
  PROVE  [Overlapping!Next]_(Overlapping!overlapVars)
<1>1. Terminal(row'[b]) => EndOf(row'[b]) = row'[b].status
  BY DEF LifeInv, EndKnown, RowShape
<1>2. CASE row'[b] = row[b]
  BY <1>2, NothingShown
<1>3. CASE row[b] = NoRow /\ \E n \in 1..MaxPrompts : row'[b] = QueuedRow(n)
  <2>1. PICK n \in 1..MaxPrompts : row'[b] = QueuedRow(n)
    BY <1>3
  <2>2. /\ row[b].status = "absent" /\ row'[b].status = "queued" /\ row'[b].input_count = n
        /\ ~row[b].completed_at /\ ~row'[b].completed_at
    <3>1. row[b].status = "absent" /\ ~row[b].completed_at
      BY <1>3 DEF NoRow
    <3>2. row'[b].status = "queued" /\ row'[b].input_count = n /\ ~row'[b].completed_at
      BY <2>1 DEF QueuedRow, NoRow
    <3> QED  BY <3>1, <3>2
  <2>3. ResultsOf(row'[b]) = ResultsOf(row[b]) /\ EndShown(row'[b]) = EndShown(row[b])
    BY <2>2, EndCases DEF ResultsOf, EndShown
  <2>4. Overlapping!Appear(b, n)
    BY <2>2, <2>3, ShownMoves, ShownStays DEF Overlapping!Appear
  <2> QED  BY <2>4 DEF Overlapping!Next
<1>4. CASE /\ row[b].status = "queued" /\ row'[b].status = "failed"
           /\ EndOf(row[b]) = "open" /\ row'[b].input_count = row[b].input_count
  BY <1>1, <1>4, FirstEnd DEF Terminal, TerminalStatuses
<1>5. CASE /\ row[b].status = "queued" /\ row'[b].status = "queued"
           /\ EndOf(row[b]) = "open" /\ EndOf(row'[b]) = "open"
           /\ row'[b].input_count = row[b].input_count
  <2>1. EndShown(row'[b]) = EndShown(row[b])
    BY <1>5 DEF EndShown
  <2> QED  BY <1>1, <1>5, <2>1, SameEnd DEF BatchStatus, ActiveStatuses
<1>6. CASE Committed(b)
  <2>1. row[b].status # "absent" /\ row'[b].status \in BatchStatus
    BY <1>6 DEF Committed, ServiceInv, RowMade, Exists, TypeOK, CreateTypeOK, Row, RowOver
  <2>2. CASE EndOf(row'[b]) = EndOf(row[b])
    <3>1. EndShown(row'[b]) = EndShown(row[b])
      BY <1>6, <2>2 DEF EndShown, Committed, RowShape, LifeInv, EndKnown
    <3> QED  BY <1>1, <1>6, <2>1, <3>1, SameEnd DEF Committed
  <2>3. CASE EndOf(row[b]) = "open" /\ Terminal(row'[b])
    BY <1>1, <1>6, <2>1, <2>3, FirstEnd DEF Committed, Terminal
  <2> QED  BY <1>6, <2>2, <2>3 DEF Committed
<1> QED  BY <1>2, <1>3, <1>4, <1>5, <1>6 DEF RowSteps

\* However many pods there are, a client sees the lifecycle of OverlapLifecycle: a batch
\* ends in one way and has one result; a stale answer only hides them for a while.
THEOREM OverlapKeptAlways == Spec => OverlapKept
<1> DEFINE AllShown == \A b \in Batch : Shown(b)
           Known    == TypeOK /\ ServiceInv /\ LifeInv /\ AllShown
<1>1. Init => Overlapping!Init
  <2>1. EndOf(NoRow) = "open"
    BY EndCases DEF NoRow
  <2> QED
    BY <2>1 DEF Init, CreateInit, Overlapping!Init, Overlapping!NoResults, Overlapping!Open,
                GetStatus, GetResults, EndShown, NoRow
<1>2. Known /\ Known' /\ [Next]_vars => [Overlapping!Next]_(Overlapping!overlapVars)
  BY OneRowSteps, RowOverlaps, NothingShown
<1>3. TypeOK /\ ServiceInv /\ CompletedMeansDelivered => AllShown
  BY ShownByRow
<1> HIDE DEF AllShown
<1>4. Spec => []Known
  BY <1>3, LifeInvariant, CompletedMeansDeliveredAlways, PTL
<1> HIDE DEF Known
<1> QED  BY <1>1, <1>2, <1>4, PTL DEF Spec, OverlapKept, Overlapping!Spec

=============================================================================
