-------------------------- MODULE BatchInferProofs --------------------------
(***************************************************************************)
(* Theorems about the inference job, for any number of prompts and runs.   *)
(***************************************************************************)
EXTENDS BatchInfer, TLAPS

\* The files the job writes are files, whatever their counts within the bounds.
LEMMA FilesAreFiles ==
  ASSUME NEW r \in 0..MaxRuns, NEW o \in 0..MaxPrompts, NEW e \in 0..MaxPrompts
  PROVE  /\ Absent \in File /\ Torn(r) \in File
         /\ Cut(r, o, e) \in File /\ Whole(r, o, e) \in File
  BY MaxPromptsAssumption, MaxRunsAssumption DEF File, Absent, Torn, Cut, Whole

\* Growing a staged file replaces it by a file, in the directory of the batch only.
LEMMA GrowthType ==
  ASSUME disk \in [Batch -> Dir], NEW b \in Batch, NEW f \in File, GrowsInto(b, f)
  PROVE  disk' \in [Batch -> Dir]
<1>1. disk[b] \in Dir
  OBVIOUS
<1>2. (disk[b].staging \ Growing(b)) \cup {f} \in SUBSET File
  BY <1>1 DEF Dir
<1> QED  BY <1>1, <1>2 DEF GrowsInto, Dir

\* What can become of a file that grows: one more row, or all of them.
LEMMA GrowthBounds ==
  ASSUME disk \in [Batch -> Dir], NEW b \in Batch, NEW f \in Growing(b)
  PROVE  /\ f \in disk[b].staging /\ IsTorn(f)
         /\ f.run = driver[b].run /\ f.run \in 0..MaxRuns
         /\ f.ok \in 0..MaxPrompts /\ f.err \in 0..MaxPrompts
         /\ f.ok + f.err + 1 < disk[b].input =>
              f.ok + 1 \in 0..MaxPrompts /\ f.err + 1 \in 0..MaxPrompts
         /\ \A o \in f.ok..(disk[b].input - f.err) :
              o \in 0..MaxPrompts /\ disk[b].input - o \in 0..MaxPrompts
<1>1. disk[b] \in Dir /\ f \in disk[b].staging /\ IsTorn(f) /\ f.run = driver[b].run
  BY DEF Growing
<1>2. f \in File /\ disk[b].input \in 0..MaxPrompts /\ MaxPrompts \in Nat
  BY <1>1, MaxPromptsAssumption DEF Dir
<1>3. f.run \in 0..MaxRuns /\ f.ok \in 0..MaxPrompts /\ f.err \in 0..MaxPrompts
  BY <1>2 DEF File
<1> QED  BY <1>1, <1>2, <1>3

\* Every step of a driver keeps the types of the volume and of the drivers.
LEMMA DriverStepType ==
  ASSUME InferTypeOK, NEW b \in Batch, DriverStep(b)
  PROVE  InferTypeOK'
<1> USE DEF InferTypeOK
<1>0. /\ disk[b] \in Dir /\ driver[b] \in Driver
      /\ driver[b].run \in 0..MaxRuns /\ driver[b].ok \in 0..MaxPrompts
      /\ driver[b].err \in 0..MaxPrompts /\ disk[b].input \in 0..MaxPrompts
      /\ disk[b].results \in File /\ disk[b].staging \subseteq File
  BY DEF Dir, Driver
<1>1. CASE ReadInput(b)
  BY <1>0, <1>1 DEF ReadInput, Goto, Driver, Running
<1>2. CASE OpenStaged(b)
  <2>1. Torn(driver[b].run) \in File
    BY <1>0, FilesAreFiles
  <2> QED  BY <1>0, <1>2, <2>1 DEF OpenStaged, Goto, Driver, Running, Dir
<1>3. CASE WriteStaged(b)
  <2>1. PICK f \in Growing(b) : \E o \in f.ok..(disk[b].input - f.err) :
          GrowsInto(b, Whole(f.run, o, disk[b].input - o))
    BY <1>3 DEF WriteStaged
  <2>2. PICK o \in f.ok..(disk[b].input - f.err) :
          GrowsInto(b, Whole(f.run, o, disk[b].input - o))
    BY <2>1
  <2>3. Whole(f.run, o, disk[b].input - o) \in File
    BY <2>2, GrowthBounds, FilesAreFiles
  <2>4. disk' \in [Batch -> Dir]
    BY <2>2, <2>3, GrowthType
  <2> QED  BY <1>0, <1>3, <2>4 DEF WriteStaged, Goto, Driver, Running
<1>4. CASE Promote(b)
  <2>1. CASE disk[b].staging = {} /\ Goto(b, "promote", "raise") /\ UNCHANGED disk
    BY <1>0, <2>1 DEF Goto, Driver, Running
  <2>2. CASE /\ Goto(b, "promote", "tally")
             /\ \E f \in disk[b].staging :
                  disk' = [disk EXCEPT ![b].staging = @ \ {f}, ![b].results = f]
    <3>1. PICK f \in disk[b].staging :
            disk' = [disk EXCEPT ![b].staging = @ \ {f}, ![b].results = f]
      BY <2>2
    <3>2. f \in File /\ disk[b].staging \ {f} \in SUBSET File
      BY <1>0
    <3>3. disk' \in [Batch -> Dir]
      BY <1>0, <3>1, <3>2 DEF Dir
    <3> QED  BY <1>0, <2>2, <3>3 DEF Goto, Driver, Running
  <2> QED  BY <1>4, <2>1, <2>2 DEF Promote
<1>5. CASE Tally(b)
  <2>1. Absent \in File
    BY <1>0, FilesAreFiles
  <2> QED  BY <1>0, <1>5, <2>1 DEF Tally, Driver, Running, Dir, File
<1>6. CASE OpenSuccess(b)
  BY <1>0, <1>6, FilesAreFiles DEF OpenSuccess, Goto, Driver, Running, Dir
<1>7. CASE WriteSuccess(b)
  BY <1>0, <1>7, FilesAreFiles DEF WriteSuccess, Goto, Driver, Running, Dir
<1>8. CASE CleanStaging(b)
  BY <1>0, <1>8 DEF CleanStaging, Goto, Driver, Ended, Dir
<1>9. CASE OpenFailure(b)
  BY <1>0, <1>9, FilesAreFiles DEF OpenFailure, Goto, Driver, Running, Dir
<1>10. CASE WriteFailure(b)
  <2>1. Whole(driver[b].run, 0, 0) \in File
    <3>1. 0 \in 0..MaxPrompts
      BY MaxPromptsAssumption
    <3> QED  BY <1>0, <3>1, FilesAreFiles
  <2> QED  BY <1>0, <1>10, <2>1 DEF WriteFailure, Goto, Driver, Ended, Dir
<1>11. CASE WriteRow(b)
  <2>1. PICK f \in Growing(b) :
          /\ f.ok + f.err + 1 < disk[b].input
          /\ \/ GrowsInto(b, Cut(f.run, f.ok + 1, f.err))
             \/ GrowsInto(b, Cut(f.run, f.ok, f.err + 1))
    BY <1>11 DEF WriteRow
  <2>2. Cut(f.run, f.ok + 1, f.err) \in File /\ Cut(f.run, f.ok, f.err + 1) \in File
    BY <2>1, GrowthBounds, FilesAreFiles
  <2>3. disk' \in [Batch -> Dir]
    BY <2>1, <2>2, GrowthType
  <2> QED  BY <1>11, <2>3 DEF WriteRow
<1>12. CASE CutLine(b)
  BY <1>0, <1>12 DEF CutLine, Goto, Driver, Running
<1> QED
  BY <1>1, <1>2, <1>3, <1>4, <1>5, <1>6, <1>7, <1>8, <1>9, <1>10, <1>11, <1>12
     DEF DriverStep

-----------------------------------------------------------------------------
(***************************************************************************)
(* The inductive invariant: what the directory holds at each point of the  *)
(* program.  FirstRun is about a directory no earlier execution has been   *)
(* in; ByNow holds in every execution.                                     *)
(***************************************************************************)
Unpublished(b) == ~IsWhole(disk[b].success)

FirstRun(b) ==
  LET pc == driver[b].pc
      d  == disk[b]
  IN  /\ pc = "idle" <=> driver[b].run = 0
      /\ driver[b].run = 0 => d.staging = {} /\ d.success = Absent
      /\ driver[b].run = 1 =>
           /\ pc \in {"read", "stage"} => d.staging = {} /\ Unpublished(b)
           /\ pc = "write" =>
                Unpublished(b) /\ \A f \in d.staging : IsTorn(f) /\ f.run = 1
           /\ pc = "promote" => Unpublished(b) /\ \A f \in d.staging : Complete(f, d.input)
           /\ pc \in {"tally", "mark", "marking"} =>
                Unpublished(b) /\ Complete(d.results, d.input)
           /\ PublishedIsComplete(b)

ByNow(b) ==
  LET pc == driver[b].pc
      d  == disk[b]
  IN  /\ pc \in {"mark", "marking"} =>
           driver[b].ok = d.results.ok /\ driver[b].err = d.results.err
      /\ pc \in {"clean", "exit0"} =>
           /\ IsWhole(d.success) /\ d.success.run = driver[b].run
           /\ d.success.ok = d.results.ok /\ d.success.err = d.results.err
      /\ pc \in {"mark", "marking", "clean", "exit0"} => d.failure = Absent
      /\ pc = "exit0" => d.staging = {}
      /\ IsWhole(d.failure) =>
           /\ d.failure.run <= driver[b].run
           /\ d.failure.run = driver[b].run => pc = "exit1"

JobInv == \A b \in Batch : FirstRun(b) /\ ByNow(b)

\* A driver touches the directory of its own batch only.
LEMMA DriversKeepApart ==
  ASSUME InferTypeOK, NEW b \in Batch, NEW c \in Batch, c # b,
         DriverStep(b) \/ Start(b) \/ Raise(b) \/ Kill(b)
  PROVE  disk'[c] = disk[c] /\ driver'[c] = driver[c]
BY DEF InferTypeOK, DriverStep, Start, Raise, Kill, Goto, ReadInput, OpenStaged,
       WriteRow, WriteStaged, GrowsInto, Promote, CutLine, Tally, OpenSuccess,
       WriteSuccess, CleanStaging, OpenFailure, WriteFailure

\* Each step of the driver of b takes it from one description of its directory to
\* the next.
LEMMA DriverStepInv ==
  ASSUME InferTypeOK, NEW b \in Batch, FirstRun(b), ByNow(b), DriverStep(b)
  PROVE  FirstRun(b)' /\ ByNow(b)'
<1> USE DEF InferTypeOK
<1>0. /\ disk[b] \in Dir /\ driver[b] \in Driver
      /\ driver[b].run \in Nat /\ disk[b].input \in Nat
  BY MaxRunsAssumption, MaxPromptsAssumption DEF Dir, Driver
<1> USE DEF FirstRun, ByNow, Unpublished, PublishedIsComplete, Goto, Dir, Driver
<1>1. CASE ReadInput(b)
  BY <1>0, <1>1 DEF ReadInput
<1>2. CASE OpenStaged(b)
  BY <1>0, <1>2 DEF OpenStaged, Torn, IsTorn
<1>3. CASE WriteStaged(b)
  <2>1. PICK f \in Growing(b) : \E o \in f.ok..(disk[b].input - f.err) :
          GrowsInto(b, Whole(f.run, o, disk[b].input - o))
    BY <1>3 DEF WriteStaged
  <2>2. PICK o \in f.ok..(disk[b].input - f.err) :
          GrowsInto(b, Whole(f.run, o, disk[b].input - o))
    BY <2>1
  <2>3. o \in 0..MaxPrompts
    BY <2>2, GrowthBounds
  <2>4. Complete(Whole(f.run, o, disk[b].input - o), disk[b].input)
    BY <1>0, <2>3, MaxPromptsAssumption DEF Complete, Whole, IsWhole
  <2>5. driver[b].pc = "write" /\ driver' = [driver EXCEPT ![b].pc = "promote"]
    BY <1>3 DEF WriteStaged
  <2>6. /\ disk'[b].input = disk[b].input /\ disk'[b].success = disk[b].success
        /\ disk'[b].results = disk[b].results /\ disk'[b].failure = disk[b].failure
        /\ disk'[b].staging = (disk[b].staging \ Growing(b))
                                \cup {Whole(f.run, o, disk[b].input - o)}
    BY <1>0, <2>2 DEF GrowsInto
  <2>7. driver'[b].pc = "promote" /\ driver'[b].run = driver[b].run
    BY <1>0, <2>5
  <2>8. driver[b].run = 1 => disk[b].staging \ Growing(b) = {}
    BY <2>5 DEF Growing
  <2>9. FirstRun(b)'
    BY <2>4, <2>5, <2>6, <2>7, <2>8 DEF Complete
  <2> QED  BY <2>5, <2>6, <2>7, <2>9
<1>4. CASE Promote(b)
  <2>1. CASE disk[b].staging = {} /\ Goto(b, "promote", "raise") /\ UNCHANGED disk
    BY <1>0, <2>1
  <2>2. CASE /\ Goto(b, "promote", "tally")
             /\ \E f \in disk[b].staging :
                  disk' = [disk EXCEPT ![b].staging = @ \ {f}, ![b].results = f]
    <3>1. PICK f \in disk[b].staging :
            disk' = [disk EXCEPT ![b].staging = @ \ {f}, ![b].results = f]
      BY <2>2
    <3>2. driver[b].pc = "promote" /\ driver' = [driver EXCEPT ![b].pc = "tally"]
      BY <2>2
    <3>3. /\ disk'[b].results = f /\ disk'[b].input = disk[b].input
          /\ disk'[b].success = disk[b].success
          /\ driver'[b].pc = "tally" /\ driver'[b].run = driver[b].run
      BY <1>0, <3>1, <3>2
    <3>4. FirstRun(b)'
      BY <3>1, <3>2, <3>3 DEF Complete
    <3>5. disk'[b].failure = disk[b].failure
      BY <1>0, <3>1
    <3>6. ByNow(b)'
      BY <3>2, <3>3, <3>5
    <3> QED  BY <3>4, <3>6
  <2> QED  BY <1>4, <2>1, <2>2 DEF Promote
<1>5. CASE Tally(b)
  BY <1>0, <1>5 DEF Tally, Absent, IsWhole
<1>6. CASE OpenSuccess(b)
  BY <1>0, <1>6 DEF OpenSuccess, IsWhole, Torn
<1>7. CASE WriteSuccess(b)
  BY <1>0, <1>7 DEF WriteSuccess, IsWhole, Whole
<1>8. CASE CleanStaging(b)
  BY <1>0, <1>8 DEF CleanStaging
<1>9. CASE OpenFailure(b)
  BY <1>0, <1>9 DEF OpenFailure, Torn, IsWhole
<1>10. CASE WriteFailure(b)
  BY <1>0, <1>10 DEF WriteFailure, IsWhole, Whole
<1>11. CASE WriteRow(b)
  <2>1. PICK f \in Growing(b), g \in {Cut(h.run, h.ok + 1, h.err) : h \in Growing(b)}
                                 \cup {Cut(h.run, h.ok, h.err + 1) : h \in Growing(b)} :
          g.run = f.run /\ GrowsInto(b, g)
    BY <1>11 DEF WriteRow, Cut
  <2>2. IsTorn(g) /\ g.run = driver[b].run
    BY <2>1, GrowthBounds DEF Cut, IsTorn
  <2>3. driver[b].pc = "write" /\ driver' = driver
    BY <1>11 DEF WriteRow
  <2>4. /\ disk'[b].input = disk[b].input /\ disk'[b].success = disk[b].success
        /\ disk'[b].results = disk[b].results /\ disk'[b].failure = disk[b].failure
        /\ disk'[b].staging = (disk[b].staging \ Growing(b)) \cup {g}
    BY <1>0, <2>1 DEF GrowsInto
  <2>5. FirstRun(b)'
    BY <2>2, <2>3, <2>4 DEF Complete
  <2> QED  BY <2>3, <2>4, <2>5
<1>12. CASE CutLine(b)
  BY <1>0, <1>12 DEF CutLine
<1> QED
  BY <1>1, <1>2, <1>3, <1>4, <1>5, <1>6, <1>7, <1>8, <1>9, <1>10, <1>11, <1>12
     DEF DriverStep

\* The three other steps a driver can take keep the types and the description.
LEMMA StartRaiseKill ==
  ASSUME InferTypeOK, NEW b \in Batch, Start(b) \/ Raise(b) \/ Kill(b)
  PROVE  InferTypeOK' /\ (FirstRun(b) /\ ByNow(b) => FirstRun(b)' /\ ByNow(b)')
<1>0. /\ driver[b] \in Driver /\ driver[b].run \in 0..MaxRuns
      /\ MaxRuns \in Nat /\ 0 \in 0..MaxPrompts
  BY MaxRunsAssumption, MaxPromptsAssumption DEF InferTypeOK, Driver
<1>1. InferTypeOK'
  BY <1>0 DEF InferTypeOK, Driver, Start, Raise, Kill, Running, Ended
<1>2. ASSUME FirstRun(b), ByNow(b)
      PROVE  FirstRun(b)' /\ ByNow(b)'
  <2> USE <1>0, <1>2 DEF InferTypeOK, FirstRun, ByNow, Unpublished, PublishedIsComplete
  <2>1. CASE Start(b)
    <3>1. /\ driver'[b].pc = "read" /\ driver'[b].run = driver[b].run + 1
          /\ disk' = disk /\ driver[b].run \in Nat
      BY <2>1 DEF Start
    <3>2. driver'[b].run # 0 /\ (driver'[b].run = 1 => driver[b].run = 0)
      BY <3>1
    <3>3. driver[b].run = 0 => Unpublished(b) /\ disk[b].staging = {}
      BY DEF Absent, IsWhole
    <3>4. /\ ~(driver'[b].pc \in {"mark", "marking", "clean", "exit0", "idle"})
          /\ IsWhole(disk[b].failure) => disk[b].failure.run < driver'[b].run
      <4>1. IsWhole(disk[b].failure) => disk[b].failure.run \in Nat
        BY DEF Dir, File
      <4> QED  BY <3>1, <4>1
    <3>5. FirstRun(b)'
      BY <3>1, <3>2, <3>3
    <3>6. IsWhole(disk'[b].failure) => /\ disk'[b].failure.run <= driver'[b].run
                                      /\ disk'[b].failure.run # driver'[b].run
      <4>1. disk[b].failure \in File /\ driver'[b].run \in Nat
        BY <3>1 DEF Dir
      <4> QED  BY <3>1, <3>4, <4>1, MaxRunsAssumption DEF File
    <3> QED  BY <3>4, <3>5, <3>6
  <2>2. CASE Raise(b)
    <3>1. /\ driver[b].pc \in Running /\ driver'[b].pc \in {"raise", "exit1"}
          /\ driver'[b].run = driver[b].run /\ disk' = disk
      BY <2>2 DEF Raise, Driver
    <3> QED  BY <3>1 DEF Running
  <2>3. CASE Kill(b)
    BY <2>3 DEF Kill, Driver, Running
  <2> QED  BY <2>1, <2>2, <2>3
<1> QED  BY <1>1, <1>2

-----------------------------------------------------------------------------
(* The job alone, over any directories.                                      *)

LEMMA InferInductive == InferSpec => [](InferTypeOK /\ JobInv)
<1>1. InferInit => InferTypeOK /\ JobInv
  <2> SUFFICES ASSUME InferInit PROVE InferTypeOK /\ JobInv
    OBVIOUS
  <2>1. InferTypeOK
    BY MaxPromptsAssumption, MaxRunsAssumption
       DEF InferInit, InferTypeOK, EmptyDir, Dir, File, Absent, IdleDriver, Driver
  <2>2. ASSUME NEW b \in Batch
        PROVE  FirstRun(b) /\ ByNow(b)
    <3>1. /\ driver[b] = IdleDriver /\ disk[b].staging = {}
          /\ disk[b].success = Absent /\ disk[b].failure = Absent
      BY DEF InferInit, EmptyDir
    <3> QED  BY <3>1 DEF FirstRun, ByNow, IdleDriver, Absent, IsWhole
  <2> QED  BY <2>1, <2>2 DEF JobInv
<1>2. InferTypeOK /\ JobInv /\ [InferNext]_inferVars => (InferTypeOK /\ JobInv)'
  <2> SUFFICES ASSUME InferTypeOK, JobInv, [InferNext]_inferVars
               PROVE  (InferTypeOK /\ JobInv)'
    OBVIOUS
  <2>1. CASE InferNext
    <3>1. PICK b \in Batch : Start(b) \/ DriverStep(b) \/ Raise(b) \/ Kill(b)
      BY <2>1 DEF InferNext
    <3>2. InferTypeOK' /\ FirstRun(b)' /\ ByNow(b)'
      BY <3>1, DriverStepType, DriverStepInv, StartRaiseKill DEF JobInv
    <3>3. ASSUME NEW c \in Batch, c # b
          PROVE  FirstRun(c)' /\ ByNow(c)'
      <4>1. disk'[c] = disk[c] /\ driver'[c] = driver[c]
        BY <3>1, <3>3, DriversKeepApart
      <4> QED  BY <4>1 DEF JobInv, FirstRun, ByNow, Unpublished, PublishedIsComplete
    <3> QED  BY <3>2, <3>3 DEF JobInv
  <2>2. CASE UNCHANGED inferVars
    BY <2>2 DEF inferVars, InferTypeOK, JobInv, FirstRun, ByNow, Unpublished,
                PublishedIsComplete
  <2> QED  BY <2>1, <2>2
<1> QED  BY <1>1, <1>2, PTL DEF InferSpec

\* Type correctness of the job and its directory.
THEOREM InferTypeCorrect == InferSpec => []InferTypeOK
BY InferInductive, PTL

\* A driver that exits 0 leaves a _SUCCESS with the counts of the results beside
\* it, in the first execution and in every later one.
THEOREM MarkerTellsResultsAlways == InferSpec => []MarkerTellsResults
<1>1. InferTypeOK /\ JobInv => MarkerTellsResults
  BY DEF JobInv, ByNow, MarkerTellsResults
<1> QED  BY <1>1, InferInductive, PTL

\* In the first execution a readable _SUCCESS stands beside complete results.
THEOREM FirstRunIsCleanAlways == InferSpec => []FirstRunIsClean
<1>1. InferTypeOK /\ JobInv => FirstRunIsClean
  BY DEF JobInv, FirstRun, FirstRunIsClean
<1> QED  BY <1>1, InferInductive, PTL

\* The exit code and the markers agree in every execution, raises in main()'s own
\* handler included.
THEOREM ExitCodeTellsMarkersAlways == InferSpec => []ExitCodeTellsMarkers
<1>1. InferTypeOK /\ JobInv => ExitCodeTellsMarkers
  BY DEF JobInv, ByNow, ExitCodeTellsMarkers
<1> QED  BY <1>1, InferInductive, PTL

-----------------------------------------------------------------------------
(***************************************************************************)
(* The inference job implements JobContract until a batch's script is run  *)
(* a second time, for any number of batches and prompts.                   *)
(***************************************************************************)

\* A process that has not ended, or not begun, is open.
LEMMA OpenVerdict ==
  ASSUME NEW b, driver[b].pc \in Running \cup {"idle"}
  PROVE  Verdict(b) = "open"
BY DEF Verdict, Running

\* A step that only stages leaves the files its readers open alone.
LEMMA StagingKeepsRest ==
  ASSUME InferTypeOK, NEW b \in Batch, NEW S, disk' = [disk EXCEPT ![b].staging = S]
  PROVE  /\ disk'[b].input = disk[b].input /\ disk'[b].success = disk[b].success
         /\ disk'[b].results = disk[b].results /\ disk'[b].staging = S
<1>1. disk[b] \in Dir /\ disk'[b] = [disk[b] EXCEPT !.staging = S]
  BY DEF InferTypeOK
<1> QED  BY <1>1 DEF Dir

\* The first execution announces its result in one step, the end of the marker's
\* write; no other step of the driver changes what is announced or ends it
\* untruly.
LEMMA FirstRunSteps ==
  ASSUME InferTypeOK, NEW b \in Batch, FirstRun(b), ByNow(b),
         driver[b].run <= 1, driver'[b].run <= 1,
         Start(b) \/ DriverStep(b) \/ Raise(b) \/ Kill(b)
  PROVE  /\ disk'[b].input = disk[b].input
         /\ Verdict(b) = "open"
         /\ \/ /\ Announced(b)' = Announced(b)
               /\ Verdict(b)' \in {"open", "failed", "killed", "succeeded"}
               /\ Verdict(b)' = "succeeded" => Announced(b) # Contract!Nothing
            \/ /\ Announced(b) = Contract!Nothing /\ Verdict(b)' = "open"
               /\ \E o \in 0..disk[b].input :
                    Announced(b)' = Contract!Result(o, disk[b].input - o)
<1> USE DEF InferTypeOK
<1>0. /\ disk[b] \in Dir /\ driver[b] \in Driver /\ driver[b].run \in 0..1
      /\ disk[b].results \in File /\ disk[b].input \in 0..MaxPrompts
      /\ disk[b].results.ok \in 0..MaxPrompts /\ disk[b].results.err \in 0..MaxPrompts
  <2>1. disk[b] \in Dir /\ driver[b] \in Driver
    OBVIOUS
  <2>2. driver[b].run \in 0..MaxRuns
    BY <2>1 DEF Driver
  <2>3. driver[b].run \in 0..1
    BY <2>2, MaxRunsAssumption
  <2>4. disk[b].results \in File /\ disk[b].input \in 0..MaxPrompts
    BY <2>1 DEF Dir
  <2> QED  BY <2>1, <2>3, <2>4 DEF File
<1>1. driver[b].run = 1 \/ driver[b].pc = "idle"
  BY <1>0 DEF FirstRun
<1>2. CASE Start(b)
  <2>1. driver[b].pc = "idle"
    <3>1. driver'[b].run = driver[b].run + 1
      BY <1>0, <1>2 DEF Start
    <3> QED  BY <1>0, <1>1, <3>1
  <2>2. disk' = disk /\ driver'[b].pc = "read"
    BY <1>0, <1>2 DEF Start
  <2> QED  BY <2>1, <2>2 DEF Announced, Verdict
<1>3. CASE Raise(b)
  <2>1. /\ driver[b].pc \in Running /\ driver'[b].pc \in {"raise", "exit1"}
        /\ disk' = disk
    BY <1>0, <1>3 DEF Raise
  <2> QED  BY <2>1, OpenVerdict DEF Announced, Verdict
<1>4. CASE Kill(b)
  <2>1. driver[b].pc \in Running /\ driver'[b].pc = "killed" /\ disk' = disk
    BY <1>0, <1>4 DEF Kill
  <2> QED  BY <2>1, OpenVerdict DEF Announced, Verdict
<1>5. CASE ReadInput(b)
  <2>1. driver[b].pc = "read" /\ driver'[b].pc \in {"raise", "stage"} /\ disk' = disk
    BY <1>0, <1>5 DEF ReadInput, Goto
  <2> QED  BY <2>1 DEF Announced, Verdict
<1>6. CASE OpenStaged(b) \/ WriteRow(b) \/ WriteStaged(b)
  <2>1. driver[b].pc \in {"stage", "write"} /\ driver'[b].pc \in {"write", "promote"}
    <3>1. \/ Goto(b, "stage", "write") \/ Goto(b, "write", "promote")
          \/ driver[b].pc = "write" /\ driver' = driver
      BY <1>6 DEF OpenStaged, WriteRow, WriteStaged
    <3> QED  BY <1>0, <3>1 DEF Goto, Driver
  <2>2. PICK S : disk' = [disk EXCEPT ![b].staging = S]
    <3>1. CASE OpenStaged(b)
      <4>1. disk' = [disk EXCEPT ![b].staging = disk[b].staging \cup {Torn(driver[b].run)}]
        BY <3>1 DEF OpenStaged
      <4> QED  BY <4>1
    <3>2. CASE WriteRow(b) \/ WriteStaged(b)
      <4>1. PICK f : GrowsInto(b, f)
        BY <3>2 DEF WriteRow, WriteStaged
      <4>2. disk' = [disk EXCEPT ![b].staging = (disk[b].staging \ Growing(b)) \cup {f}]
        BY <4>1 DEF GrowsInto
      <4> QED  BY <4>2
    <3> QED  BY <1>6, <3>1, <3>2
  <2>3. /\ disk'[b].input = disk[b].input /\ disk'[b].success = disk[b].success
        /\ disk'[b].results = disk[b].results
    BY <2>2, StagingKeepsRest
  <2> QED  BY <2>1, <2>3 DEF Announced, Verdict
<1>7. CASE Promote(b)
  <2>1. driver[b].pc = "promote" /\ driver'[b].pc \in {"raise", "tally"}
    BY <1>0, <1>7 DEF Promote, Goto
  <2>2. /\ disk'[b].input = disk[b].input /\ disk'[b].success = disk[b].success
    <3>1. CASE disk' = disk
      BY <3>1
    <3>2. CASE disk[b].staging # {}
      <4>1. PICK f \in disk[b].staging :
              disk' = [disk EXCEPT ![b].staging = disk[b].staging \ {f}, ![b].results = f]
        BY <1>7, <3>2 DEF Promote
      <4>2. disk'[b] = [[disk[b] EXCEPT !.staging = disk[b].staging \ {f}]
                          EXCEPT !.results = f]
        BY <4>1
      <4> QED  BY <1>0, <4>2 DEF Dir
    <3> QED  BY <1>7, <3>1, <3>2 DEF Promote
  <2>3. ~IsWhole(disk[b].success) /\ ~IsWhole(disk'[b].success)
    BY <1>1, <2>1, <2>2 DEF FirstRun, Unpublished
  <2> QED  BY <2>1, <2>2, <2>3 DEF Announced, Verdict
<1>8. CASE Tally(b)
  <2>1. /\ driver[b].pc = "tally" /\ driver'[b].pc = "mark"
        /\ disk'[b].input = disk[b].input /\ disk'[b].success = disk[b].success
        /\ disk'[b].results = disk[b].results
    BY <1>0, <1>8 DEF Tally, Driver, Dir
  <2> QED  BY <2>1 DEF Announced, Verdict
<1>9. CASE OpenSuccess(b)
  <2>1. /\ driver[b].pc = "mark" /\ driver'[b].pc = "marking"
        /\ disk'[b].input = disk[b].input /\ disk'[b].success = Torn(driver[b].run)
    BY <1>0, <1>9 DEF OpenSuccess, Goto, Dir
  <2>2. ~IsWhole(disk[b].success) /\ ~IsWhole(disk'[b].success)
    BY <1>1, <2>1 DEF FirstRun, Unpublished, IsWhole, Torn
  <2>3. Announced(b) = Contract!Nothing /\ Announced(b)' = Contract!Nothing
    BY <2>2 DEF Announced, IsWhole, Contract!Nothing
  <2>4. Verdict(b) = "open" /\ Verdict(b)' = "open"
    BY <2>1 DEF Verdict
  <2> QED  BY <2>1, <2>3, <2>4
<1>10. CASE WriteSuccess(b)
  <2>1. /\ driver[b].pc = "marking" /\ driver'[b].pc = "clean"
        /\ disk'[b].input = disk[b].input /\ disk'[b].results = disk[b].results
        /\ IsWhole(disk'[b].success)
    BY <1>0, <1>10 DEF WriteSuccess, Goto, Dir, IsWhole, Whole
  <2>2. ~IsWhole(disk[b].success) /\ Complete(disk[b].results, disk[b].input)
    BY <1>1, <2>1 DEF FirstRun, Unpublished
  <2>3. /\ disk[b].results.ok \in 0..disk[b].input
        /\ disk[b].results.err = disk[b].input - disk[b].results.ok
    BY <1>0, <2>2, MaxPromptsAssumption DEF Complete
  <2>4. Announced(b)' = Contract!Result(disk[b].results.ok, disk[b].input - disk[b].results.ok)
    BY <2>1, <2>3 DEF Announced, Contract!Result
  <2>5. Announced(b) = Contract!Nothing
    BY <2>2 DEF Announced, IsWhole, Contract!Nothing
  <2> QED  BY <2>1, <2>3, <2>4, <2>5 DEF Verdict
<1>11. CASE CleanStaging(b)
  <2>1. /\ driver[b].pc = "clean" /\ driver'[b].pc = "exit0"
        /\ disk'[b].input = disk[b].input /\ disk'[b].success = disk[b].success
        /\ disk'[b].results = disk[b].results
    BY <1>0, <1>11 DEF CleanStaging, Goto, Dir
  <2>2. Announced(b) # Contract!Nothing
    BY <2>1 DEF ByNow, Announced, Contract!Nothing
  <2> QED  BY <2>1, <2>2 DEF Announced, Verdict
<1>12. CASE OpenFailure(b) \/ WriteFailure(b)
  <2>1. driver[b].pc \in {"raise", "failing"} /\ driver'[b].pc \in {"failing", "exit1"}
    <3>1. Goto(b, "raise", "failing") \/ Goto(b, "failing", "exit1")
      BY <1>12 DEF OpenFailure, WriteFailure
    <3> QED  BY <1>0, <3>1 DEF Goto, Driver
  <2>2. PICK f : disk' = [disk EXCEPT ![b].failure = f]
    BY <1>12 DEF OpenFailure, WriteFailure
  <2>3. /\ disk'[b].input = disk[b].input /\ disk'[b].success = disk[b].success
        /\ disk'[b].results = disk[b].results
    <3>1. disk'[b] = [disk[b] EXCEPT !.failure = f]
      BY <2>2
    <3> QED  BY <1>0, <3>1 DEF Dir
  <2> QED  BY <2>1, <2>3 DEF Announced, Verdict
<1>13. CASE CutLine(b)
  <2>1. driver[b].pc = "tally" /\ driver'[b].pc = "raise" /\ disk' = disk
    BY <1>0, <1>13 DEF CutLine, Goto
  <2> QED  BY <2>1 DEF Announced, Verdict
<1> QED
  BY <1>2, <1>3, <1>4, <1>5, <1>6, <1>7, <1>8, <1>9, <1>10, <1>11, <1>12, <1>13
     DEF DriverStep

\* The number of executions never drops.
LEMMA RunsNeverDrop ==
  ASSUME InferTypeOK, NEW b \in Batch, Start(b) \/ DriverStep(b) \/ Raise(b) \/ Kill(b)
  PROVE  driver'[b].run \in {driver[b].run, driver[b].run + 1}
<1>0. driver[b] \in Driver /\ driver \in [Batch -> Driver]
  BY DEF InferTypeOK
<1>1. CASE Start(b)
  BY <1>0, <1>1 DEF Start
<1>2. CASE Tally(b)
  BY <1>0, <1>2 DEF Tally, Driver
<1>3. ASSUME NEW to, driver' = [driver EXCEPT ![b].pc = to]
      PROVE  driver'[b].run = driver[b].run
  BY <1>0, <1>3 DEF Driver
<1>4. CASE WriteRow(b)
  BY <1>0, <1>4 DEF WriteRow
<1>5. CASE Raise(b)
  BY <1>0, <1>5 DEF Raise, Driver
<1>6. CASE ~Start(b) /\ ~Tally(b) /\ ~WriteRow(b) /\ ~Raise(b)
  <2>1. PICK to : driver' = [driver EXCEPT ![b].pc = to]
    BY <1>6 DEF DriverStep, Kill, ReadInput, OpenStaged, WriteStaged, Promote, CutLine,
                OpenSuccess, WriteSuccess, CleanStaging, OpenFailure, WriteFailure, Goto
  <2> QED  BY <1>3, <2>1
<1> QED  BY <1>1, <1>2, <1>4, <1>5, <1>6

\* A step of the job is a step of the contract, or none.
LEMMA JobStepKeepsContract ==
  ASSUME InferTypeOK, JobInv, [InferNext]_inferVars, FirstExecutions'
  PROVE  [Contract!Next]_(Contract!contractVars)
<1>1. CASE UNCHANGED inferVars
  BY <1>1 DEF inferVars, Contract!contractVars, Announced, Verdict
<1>2. CASE InferNext
  <2>1. PICK b \in Batch : Start(b) \/ DriverStep(b) \/ Raise(b) \/ Kill(b)
    BY <1>2 DEF InferNext
  <2>2. ASSUME NEW c \in Batch, c # b
        PROVE  /\ disk'[c].input = disk[c].input /\ Announced(c)' = Announced(c)
               /\ Verdict(c)' = Verdict(c)
    <3>1. disk'[c] = disk[c] /\ driver'[c] = driver[c]
      BY <2>1, <2>2, DriversKeepApart
    <3> QED  BY <3>1 DEF Announced, Verdict
  <2>3. FirstRun(b) /\ ByNow(b)
    BY DEF JobInv
  <2>9. driver[b].run <= 1 /\ driver'[b].run <= 1
    <3>1. driver[b].run \in Nat /\ driver'[b].run <= 1
      BY MaxRunsAssumption DEF InferTypeOK, Driver, FirstExecutions
    <3> QED  BY <2>1, <3>1, RunsNeverDrop
  <2>4. disk'[b].input = disk[b].input /\ Verdict(b) = "open"
    BY <2>1, <2>3, <2>9, FirstRunSteps
  <2>5. [c \in Batch |-> disk[c].input]' = [c \in Batch |-> disk[c].input]
    BY <2>2, <2>4
  <2>6. CASE /\ Announced(b)' = Announced(b)
             /\ Verdict(b)' \in {"open", "failed", "killed", "succeeded"}
             /\ Verdict(b)' = "succeeded" => Announced(b) # Contract!Nothing
    <3>1. [c \in Batch |-> Announced(c)]' = [c \in Batch |-> Announced(c)]
      BY <2>2, <2>6
    <3>2. [c \in Batch |-> Verdict(c)]'
            = [[c \in Batch |-> Verdict(c)] EXCEPT ![b] = Verdict(b)']
      BY <2>2
    <3>3. CASE Verdict(b)' = "open"
      <4>1. [c \in Batch |-> Verdict(c)]' = [c \in Batch |-> Verdict(c)]
        BY <2>2, <2>4, <3>3
      <4> QED  BY <2>5, <3>1, <4>1 DEF Contract!contractVars
    <3>4. CASE Verdict(b)' \in {"failed", "killed", "succeeded"}
      <4>1. Contract!End(b, Verdict(b)')
        BY <2>4, <2>5, <2>6, <3>1, <3>2 DEF Contract!End
      <4> QED  BY <3>4, <4>1 DEF Contract!Next
    <3> QED  BY <2>6, <3>3, <3>4
  <2>7. CASE /\ Announced(b) = Contract!Nothing /\ Verdict(b)' = "open"
             /\ \E o \in 0..disk[b].input :
                  Announced(b)' = Contract!Result(o, disk[b].input - o)
    <3>1. [c \in Batch |-> Verdict(c)]' = [c \in Batch |-> Verdict(c)]
      BY <2>2, <2>4, <2>7
    <3>2. [c \in Batch |-> Announced(c)]'
            = [[c \in Batch |-> Announced(c)] EXCEPT ![b] = Announced(b)']
      BY <2>2
    <3>3. Contract!Announce(b)
      BY <2>4, <2>5, <2>7, <3>1, <3>2 DEF Contract!Announce
    <3> QED  BY <3>3 DEF Contract!Next
  <2> QED  BY <2>1, <2>3, <2>9, <2>6, <2>7, FirstRunSteps
<1> QED  BY <1>1, <1>2

\* Until a batch's script is run a second time the job implements its contract:
\* what main() and run_batch() do to the volume is an announcement, an end, or
\* nothing its readers see.
THEOREM ContractKeptAlways == InferSpec => ContractKept
<1>1. InferInit => Contract!Init
  <2> SUFFICES ASSUME InferInit PROVE Contract!Init
    OBVIOUS
  <2>1. ASSUME NEW b \in Batch
        PROVE  /\ disk[b].input \in 0..MaxPrompts /\ Announced(b) = Contract!Nothing
               /\ Verdict(b) = "open"
    <3>1. PICK n \in 0..MaxPrompts : disk[b] = [EmptyDir EXCEPT !.input = n]
      BY <2>1 DEF InferInit
    <3>2. disk[b].input = n /\ disk[b].success = Absent
      BY <3>1 DEF EmptyDir
    <3>3. ~IsWhole(disk[b].success)
      BY <3>2 DEF Absent, IsWhole
    <3>4. Announced(b) = Contract!Nothing
      BY <3>3 DEF Announced, IsWhole, Contract!Nothing
    <3>5. Verdict(b) = "open"
      BY <2>1 DEF InferInit, IdleDriver, Verdict
    <3> QED  BY <3>2, <3>4, <3>5
  <2> QED  BY <2>1 DEF Contract!Init
<1>2. InferTypeOK /\ JobInv /\ [InferNext]_inferVars
        => [FirstExecutions' => [Contract!Next]_(Contract!contractVars)]_inferVars
  BY JobStepKeepsContract
<1> QED  BY <1>1, <1>2, InferInductive, PTL DEF InferSpec, ContractKept

=============================================================================
