----------------------------- MODULE BatchInfer -----------------------------
(***************************************************************************)
(* The inference job (inference/jobs/batch_infer.py) and the directory of  *)
(* one batch on the shared volume, RESULTS_DIR/<batch_id>/.                *)
(*                                                                         *)
(* A driver process runs main() once per execution.  Every write another   *)
(* process can observe is a step of its own, so that the driver can be     *)
(* killed, or raise, between any two of them.  Path.write_text truncates   *)
(* and then writes, so a marker is "torn" between the two, and a JSONL     *)
(* file is while some of its rows are missing.  The rows of a JSONL file   *)
(* are abstracted to how many of them carry an answer (ok) and how many    *)
(* an error (err).                                                         *)
(***************************************************************************)
EXTENDS Naturals

CONSTANTS
  Batch,       \* batch ids
  MaxPrompts,  \* bound on the prompts of one batch
  MaxRuns      \* bound on the executions of the script for one batch

ASSUME MaxPromptsAssumption == MaxPrompts \in Nat \ {0}
ASSUME MaxRunsAssumption    == MaxRuns \in Nat \ {0}

VARIABLES
  disk,        \* disk[b]: what the batch's directory holds
  driver       \* driver[b]: the process running main() for b

inferVars == <<disk, driver>>

-----------------------------------------------------------------------------
(* Files.  "run" is the execution that wrote the file.                      *)

File == [state : {"absent", "torn", "whole"}, run : 0..MaxRuns,
         ok : 0..MaxPrompts, err : 0..MaxPrompts]

Absent         == [state |-> "absent", run |-> 0, ok |-> 0, err |-> 0]
Torn(r)        == [state |-> "torn",   run |-> r, ok |-> 0, err |-> 0]
Cut(r, o, e)   == [state |-> "torn",   run |-> r, ok |-> o, err |-> e]
Whole(r, o, e) == [state |-> "whole",  run |-> r, ok |-> o, err |-> e]

IsWhole(f) == f.state = "whole"
IsTorn(f)  == f.state = "torn"

\* input = 0 says that input.jsonl is missing: a batch has at least one prompt.
Dir == [input : 0..MaxPrompts, staging : SUBSET File, results : File,
        success : File, failure : File]

EmptyDir == [input |-> 0, staging |-> {}, results |-> Absent,
             success |-> Absent, failure |-> Absent]

\* The program counter names what the driver does next.
Running == {"read", "stage", "write", "promote", "tally", "mark", "marking",
            "clean", "raise", "failing"}
Ended   == {"exit0", "exit1", "killed"}
InTry   == Running \ {"raise", "failing"}

Driver == [pc : Running \cup Ended \cup {"idle"}, run : 0..MaxRuns,
           ok : 0..MaxPrompts, err : 0..MaxPrompts]

IdleDriver == [pc |-> "idle", run |-> 0, ok |-> 0, err |-> 0]

Complete(f, n) == IsWhole(f) /\ f.ok + f.err = n

-----------------------------------------------------------------------------
(* The steps of run_batch() and main().                                     *)

Goto(b, from, to) ==
  /\ driver[b].pc = from
  /\ driver' = [driver EXCEPT ![b].pc = to]

\* A process enters main(): the first execution, or a later one by hand.
Start(b) ==
  /\ driver[b].pc \notin Running
  /\ driver[b].run < MaxRuns
  /\ driver' = [driver EXCEPT ![b] =
       [pc |-> "read", run |-> driver[b].run + 1, ok |-> 0, err |-> 0]]
  /\ UNCHANGED disk

\* Mutant of ReadInput: a missing input is a batch with nothing to do.
MissingIsEmpty(b) ==
  /\ Goto(b, "read", IF disk[b].input = 0 THEN "exit0" ELSE "stage")
  /\ UNCHANGED disk

ReadInput(b) ==
  /\ Goto(b, "read", IF disk[b].input = 0 THEN "raise" ELSE "stage")
  /\ UNCHANGED disk

\* Mutant of OpenStaged: results of an earlier execution are removed first.
ClearingOpenStaged(b) ==
  /\ Goto(b, "stage", "write")
  /\ disk' = [disk EXCEPT ![b].staging = @ \cup {Torn(driver[b].run)},
                          ![b].results = Absent]

\* write_json creates the block's file in _staging, which is never emptied first.
OpenStaged(b) ==
  /\ Goto(b, "stage", "write")
  /\ disk' = [disk EXCEPT ![b].staging = @ \cup {Torn(driver[b].run)}]

\* The file the driver of b is writing.
Growing(b) == {f \in disk[b].staging : IsTorn(f) /\ f.run = driver[b].run}

GrowsInto(b, f) == disk' = [disk EXCEPT ![b].staging = (@ \ Growing(b)) \cup {f}]

\* Rows reach the file one by one; the last of them completes it (WriteStaged).
WriteRow(b) ==
  /\ driver[b].pc = "write"
  /\ \E f \in Growing(b) :
       /\ f.ok + f.err + 1 < disk[b].input
       /\ \/ GrowsInto(b, Cut(f.run, f.ok + 1, f.err))
          \/ GrowsInto(b, Cut(f.run, f.ok, f.err + 1))
  /\ UNCHANGED driver

\* Mutant of WriteStaged: prompts whose generation failed leave no row.
LossyWriteStaged(b) ==
  /\ Goto(b, "write", "promote")
  /\ \E o \in 0..disk[b].input : GrowsInto(b, Whole(driver[b].run, o, 0))

\* Every prompt yields one row, an answer or an error (QwenPredictor.__call__).
WriteStaged(b) ==
  /\ Goto(b, "write", "promote")
  /\ \E f \in Growing(b) : \E o \in f.ok..(disk[b].input - f.err) :
       GrowsInto(b, Whole(f.run, o, disk[b].input - o))

\* Mutant of Promote: the staged rows are added to those of an earlier execution.
AppendingPromote(b) ==
  /\ Goto(b, "promote", IF disk[b].staging = {} THEN "raise" ELSE "tally")
  /\ IF disk[b].staging = {} THEN UNCHANGED disk
     ELSE \E f \in disk[b].staging :
            disk' = [disk EXCEPT ![b].staging = @ \ {f},
              ![b].results = [f EXCEPT !.ok = @ + disk[b].results.ok,
                                       !.err = @ + disk[b].results.err]]

\* sorted(glob)[0].rename: Ray's file names are random, so any staged file may
\* come first.  write_json has left one by now; that there is none is the code's
\* own defence, a RuntimeError.
Promote(b) ==
  /\ Goto(b, "promote", IF disk[b].staging = {} THEN "raise" ELSE "tally")
  /\ IF disk[b].staging = {} THEN UNCHANGED disk
     ELSE \E f \in disk[b].staging :
            disk' = [disk EXCEPT ![b].staging = @ \ {f}, ![b].results = f]

\* Mutants of Tally: the counts are assumed and not read back; a _FAILED left
\* by an earlier execution stays.
AssumedTally(b) ==
  /\ driver[b].pc = "tally"
  /\ driver' = [driver EXCEPT ![b].pc = "mark", ![b].ok = disk[b].input, ![b].err = 0]
  /\ disk' = [disk EXCEPT ![b].failure = Absent]

KeepingTally(b) ==
  /\ driver[b].pc = "tally"
  /\ driver' = [driver EXCEPT ![b].pc = "mark",
                              ![b].ok = disk[b].results.ok,
                              ![b].err = disk[b].results.err]
  /\ UNCHANGED disk

\* json.loads raises on a line that was cut.
CutLine(b) ==
  /\ IsTorn(disk[b].results)
  /\ Goto(b, "tally", "raise")
  /\ UNCHANGED disk

\* The rows of results.jsonl are counted (those of a torn file too, if the cut was
\* between two lines), then a stale _FAILED is removed.
Tally(b) ==
  /\ driver[b].pc = "tally"
  /\ driver' = [driver EXCEPT ![b].pc = "mark",
                              ![b].ok = disk[b].results.ok,
                              ![b].err = disk[b].results.err]
  /\ disk' = [disk EXCEPT ![b].failure = Absent]

OpenSuccess(b) ==
  /\ Goto(b, "mark", "marking")
  /\ disk' = [disk EXCEPT ![b].success = Torn(driver[b].run)]

WriteSuccess(b) ==
  /\ Goto(b, "marking", "clean")
  /\ disk' = [disk EXCEPT ![b].success =
       Whole(driver[b].run, driver[b].ok, driver[b].err)]

CleanStaging(b) ==
  /\ Goto(b, "clean", "exit0")
  /\ disk' = [disk EXCEPT ![b].staging = {}]

\* An exception: in the try block of main() it leads to the handler, in the handler
\* (a volume that is full or gone) out of the process, with exit status 1 all the same.
Raise(b) ==
  /\ driver[b].pc \in Running
  /\ driver' = [driver EXCEPT ![b].pc = IF @ \in InTry THEN "raise" ELSE "exit1"]
  /\ UNCHANGED disk

OpenFailure(b) ==
  /\ Goto(b, "raise", "failing")
  /\ disk' = [disk EXCEPT ![b].failure = Torn(driver[b].run)]

WriteFailure(b) ==
  /\ Goto(b, "failing", "exit1")
  /\ disk' = [disk EXCEPT ![b].failure = Whole(driver[b].run, 0, 0)]

\* The process dies: out of memory, or with its node.
Kill(b) ==
  /\ driver[b].pc \in Running
  /\ driver' = [driver EXCEPT ![b].pc = "killed"]
  /\ UNCHANGED disk

DriverStep(b) ==
  \/ ReadInput(b)    \/ OpenStaged(b)   \/ WriteRow(b)     \/ WriteStaged(b)
  \/ Promote(b)      \/ CutLine(b)      \/ Tally(b)        \/ OpenSuccess(b)
  \/ WriteSuccess(b) \/ CleanStaging(b) \/ OpenFailure(b) \/ WriteFailure(b)

-----------------------------------------------------------------------------
(* The job alone, over a directory the API server has prepared or not.      *)

InferInit ==
  /\ disk \in [Batch -> {[EmptyDir EXCEPT !.input = n] : n \in 0..MaxPrompts}]
  /\ driver = [b \in Batch |-> IdleDriver]

InferNext == \E b \in Batch : Start(b) \/ DriverStep(b) \/ Raise(b) \/ Kill(b)

InferSpec == InferInit /\ [][InferNext]_inferVars

-----------------------------------------------------------------------------
(* Properties                                                               *)

\* Every variable holds what the job and the volume can hold; no file and no tally
\* has more rows than there are prompts, also after executions that found files.
InferTypeOK ==
  /\ disk   \in [Batch -> Dir]
  /\ driver \in [Batch -> Driver]

\* Whatever earlier executions left behind, a driver that exits 0 has just
\* written a _SUCCESS whose counts are those of the results.jsonl beside it
\* (the poller copies the marker's counts into the row without recounting).
MarkerTellsResults ==
  \A b \in Batch : driver[b].pc = "exit0" =>
    /\ IsWhole(disk[b].success)
    /\ disk[b].success.run = driver[b].run
    /\ disk[b].success.ok  = disk[b].results.ok
    /\ disk[b].success.err = disk[b].results.err

\* "Its presence means output is clean" (batch_infer.py:288) for the first
\* execution of a batch, however it ends: a readable _SUCCESS stands beside a
\* results file with one row per prompt, and with the marker's counts.
PublishedIsComplete(b) ==
  IsWhole(disk[b].success) =>
    /\ Complete(disk[b].results, disk[b].input)
    /\ disk[b].success.ok  = disk[b].results.ok
    /\ disk[b].success.err = disk[b].results.err

FirstRunIsClean ==
  \A b \in Batch : driver[b].run = 1 => PublishedIsComplete(b)

\* The exit code, from which Ray derives the job's status, and the markers agree
\* whatever earlier executions left behind: 0 leaves no _FAILED, not even an older
\* one, and no staged file; and the latest execution's own _FAILED, once it can be
\* read, is that of a process that exited 1.  The converse is not promised: an
\* exception in the handler exits 1 with a torn _FAILED, an older one, or none.
ExitCodeTellsMarkers ==
  \A b \in Batch :
    /\ driver[b].pc = "exit0" => disk[b].failure = Absent /\ disk[b].staging = {}
    /\ IsWhole(disk[b].failure) /\ disk[b].failure.run = driver[b].run
         => driver[b].pc = "exit1"

\* The same claim for every execution: run_batch "is safe to re-run" and its
\* readers can tell "in progress / crashed" from "clean output"
\* (batch_infer.py:213-215).
EveryRunIsClean == \A b \in Batch : PublishedIsComplete(b)

-----------------------------------------------------------------------------
(* The job as its readers see it: the result a readable _SUCCESS announces,  *)
(* and how the process ended.                                                *)

Announced(b) ==
  [there |-> IsWhole(disk[b].success),
   ok    |-> IF IsWhole(disk[b].success) THEN disk[b].results.ok ELSE 0,
   err   |-> IF IsWhole(disk[b].success) THEN disk[b].results.err ELSE 0]

Verdict(b) ==
  CASE driver[b].pc = "exit0"  -> "succeeded"
    [] driver[b].pc = "exit1"  -> "failed"
    [] driver[b].pc = "killed" -> "killed"
    [] OTHER                   -> "open"

Contract == INSTANCE JobContract WITH
  prompts   <- [b \in Batch |-> disk[b].input],
  announced <- [b \in Batch |-> Announced(b)],
  verdict   <- [b \in Batch |-> Verdict(b)]

FirstExecutions == \A b \in Batch : driver[b].run <= 1

\* In a batch's first execution the job keeps its contract: file by file and
\* kill by kill, its readers see one complete result announced, or none, and an
\* exit that is true to it.  A second execution may break it (EveryRunIsClean).
ContractKept ==
  /\ Contract!Init
  /\ [][FirstExecutions' => [Contract!Next]_(Contract!contractVars)]_inferVars

=============================================================================
