------------------------------ MODULE Pipeline ------------------------------
(***************************************************************************)
(* The Ray Data pipeline inside run_batch() (inference/jobs/batch_infer.py):*)
(* the input is cut into blocks, a pool of actors runs QwenPredictor over  *)
(* them a few prompts per call, and one file is written.  It is the part   *)
(* of the job between BatchInfer's "stage" and "promote".                  *)
(*                                                                         *)
(* Prompts are their positions in the input.  A row tells which prompt it  *)
(* says it is of (id), whose generation it holds (of, 0 for none) and      *)
(* whether it carries an error.  Ray is external: blocks are contiguous    *)
(* cuts, any idle actor takes the next one, an actor that dies is replaced *)
(* and its block done again from the start, or the dataset raises, and     *)
(* blocks are collected as they come (preserve_order is not set).          *)
(***************************************************************************)
EXTENDS SequencesExt

CONSTANTS
  Actor,       \* the actor pool (concurrency=2)
  MaxPrompts,  \* bound on the prompts of a batch
  BlockSize,   \* prompts per block aimed at (16)
  CallSize,    \* prompts per call of the predictor (batch_size=8)
  MaxLosses    \* bound on the actors lost and writes failed

ASSUME PipelineAssumption ==
  /\ {MaxPrompts, BlockSize, CallSize} \subseteq Nat \ {0}
  /\ MaxLosses \in Nat

VARIABLES
  total,       \* prompts in input.jsonl
  phase,       \* where the driver is: read, map, write, done, raised
  queue,       \* blocks no actor has taken, in order
  actor,       \* actor[a]: its block and the call it is in
  output,      \* rows of the blocks that are through, as they came
  file,        \* the staged file: absent, torn or whole, and its rows
  losses       \* actors lost and writes failed

vars == <<total, phase, queue, actor, output, file, losses>>

Prompt == 1..MaxPrompts

Row == [id : Prompt, of : 0..MaxPrompts, error : BOOLEAN]

\* rest: prompts of the block still to be called with; call: those of the
\* current call, of which "at" have been tried; out: rows of earlier calls.
Loading == [pc |-> "loading", block |-> <<>>, rest |-> <<>>, call |-> <<>>,
            at |-> 0, response |-> <<>>, error |-> <<>>, out |-> <<>>]
Idle    == [Loading EXCEPT !.pc = "idle"]
Busy(s) == [Loading EXCEPT !.pc = "ready", !.block = s, !.rest = s]

Init ==
  /\ total \in Prompt
  /\ phase = "read"
  /\ queue = <<>> /\ output = <<>>
  /\ file = [state |-> "absent", rows |-> <<>>]
  /\ actor = [a \in Actor |-> Loading]
  /\ losses = 0

-----------------------------------------------------------------------------
(* The driver                                                               *)

\* max(2, total // 16 or 2)
NumBlocks(n) == IF n \div BlockSize > 2 THEN n \div BlockSize ELSE 2

\* k contiguous cuts of 1..n, as even as they can be; some may be empty.
Cuts(n, k) == [j \in 1..k |->
  [i \in 1..((j * n) \div k - ((j - 1) * n) \div k) |-> ((j - 1) * n) \div k + i]]

Repartition ==
  /\ phase = "read"
  /\ phase' = "map"
  /\ queue' = Cuts(total, NumBlocks(total))
  /\ UNCHANGED <<total, actor, output, file, losses>>

\* repartition(1).write_json: all blocks are through, one file is opened ...
OpenFile ==
  /\ phase = "map" /\ queue = <<>>
  /\ \A a \in Actor : actor[a].pc \in {"loading", "idle"}
  /\ phase' = "write"
  /\ file' = [file EXCEPT !.state = "torn"]
  /\ UNCHANGED <<total, queue, actor, output, losses>>

\* Mutant of WriteFile: without repartition(1) the first file has one block.
UnmergedWriteFile ==
  /\ phase = "write"
  /\ phase' = "done"
  /\ file' = [state |-> "whole", rows |-> SubSeq(output, 1, Min({BlockSize, Len(output)}))]
  /\ UNCHANGED <<total, queue, actor, output, losses>>

\* ... and written (BatchInfer's WriteRow has the rows come one by one).
WriteFile ==
  /\ phase = "write"
  /\ phase' = "done"
  /\ file' = [state |-> "whole", rows |-> output]
  /\ UNCHANGED <<total, queue, actor, output, losses>>

WriteFails ==
  /\ phase = "write" /\ losses < MaxLosses
  /\ phase' = "raised"
  /\ losses' = losses + 1
  /\ UNCHANGED <<total, queue, actor, output, file>>

-----------------------------------------------------------------------------
(* The actors.  None of them moves any more once the dataset has raised.    *)

Trans(a, from, to) ==
  /\ phase = "map"
  /\ actor[a].pc = from
  /\ actor' = [actor EXCEPT ![a] = to]
  /\ UNCHANGED <<total, file>>

\* QwenPredictor.__init__: the model is loaded.
Load(a) ==
  /\ Trans(a, "loading", Idle)
  /\ UNCHANGED <<phase, queue, output, losses>>

TakeBlock(a) ==
  /\ queue # <<>>
  /\ Trans(a, "idle", Busy(Head(queue)))
  /\ queue' = Tail(queue)
  /\ UNCHANGED <<phase, output, losses>>

Called(c, n) == [c EXCEPT
  !.pc = "calling", !.call = SubSeq(c.rest, 1, n), !.at = 0,
  !.rest = SubSeq(c.rest, n + 1, Len(c.rest)),
  !.response = [i \in 1..n |-> 0], !.error = [i \in 1..n |-> FALSE]]

\* Mutants of BeginCall: the index of the last call is kept; a last call with
\* fewer prompts is never made.
ResumingCall(a) ==
  /\ actor[a].rest # <<>>
  /\ Trans(a, "ready", [Called(actor[a], Min({CallSize, Len(actor[a].rest)}))
                           EXCEPT !.at = actor[a].at])
  /\ UNCHANGED <<phase, queue, output, losses>>

BeginFullCall(a) ==
  /\ Len(actor[a].rest) >= CallSize
  /\ Trans(a, "ready", Called(actor[a], CallSize))
  /\ UNCHANGED <<phase, queue, output, losses>>

\* __call__ gets up to batch_size rows; its columns are allocated beforehand.
BeginCall(a) ==
  /\ actor[a].rest # <<>>
  /\ Trans(a, "ready", Called(actor[a], Min({CallSize, Len(actor[a].rest)})))
  /\ UNCHANGED <<phase, queue, output, losses>>

\* Mutant of Generate: an answer goes to the first empty place of its column,
\* as responses.append would put it.
AppendingGenerate(a) ==
  LET i == actor[a].at + 1
      free == CHOOSE j \in DOMAIN actor[a].call :
                actor[a].response[j] = 0 /\ \A k \in 1..(j - 1) : actor[a].response[k] # 0
  IN
  /\ actor[a].at < Len(actor[a].call)
  /\ \/ Trans(a, "calling", [actor[a] EXCEPT !.at = i, !.response[free] = actor[a].call[i]])
     \/ Trans(a, "calling", [actor[a] EXCEPT !.at = i, !.error[i] = TRUE])
  /\ UNCHANGED <<phase, queue, output, losses>>

\* One prompt of the call: its answer, its own exception's text, or both, when the
\* exception comes after the answer has been stored; nothing takes it back then.
Generate(a) ==
  LET i == actor[a].at + 1 IN
  /\ actor[a].at < Len(actor[a].call)
  /\ \E answered, failed \in BOOLEAN :
       /\ answered \/ failed
       /\ Trans(a, "calling", [actor[a] EXCEPT
            !.at = i, !.error[i] = failed,
            !.response[i] = IF answered THEN actor[a].call[i] ELSE 0])
  /\ UNCHANGED <<phase, queue, output, losses>>

Rows(c) == [i \in DOMAIN c.call |->
  [id |-> c.call[i], of |-> c.response[i], error |-> c.error[i]]]

\* Mutant of EndCall: only the rows with an answer are returned.
LossyEndCall(a) ==
  /\ actor[a].at = Len(actor[a].call)
  /\ Trans(a, "calling", [actor[a] EXCEPT
       !.pc = "ready", !.out = @ \o SelectSeq(Rows(actor[a]), LAMBDA r : ~r.error)])
  /\ UNCHANGED <<phase, queue, output, losses>>

\* Mutant of EndCall: the rows of a call are put before those of earlier calls.
PrependingEndCall(a) ==
  /\ actor[a].at = Len(actor[a].call)
  /\ Trans(a, "calling", [actor[a] EXCEPT !.pc = "ready", !.out = Rows(actor[a]) \o @])
  /\ UNCHANGED <<phase, queue, output, losses>>

\* The columns are returned and become rows of the block.
EndCall(a) ==
  /\ actor[a].at = Len(actor[a].call)
  /\ Trans(a, "calling", [actor[a] EXCEPT !.pc = "ready", !.out = @ \o Rows(actor[a])])
  /\ UNCHANGED <<phase, queue, output, losses>>

EndBlock(a) ==
  /\ actor[a].rest = <<>>
  /\ Trans(a, "ready", Idle)
  /\ output' = output \o actor[a].out
  /\ UNCHANGED <<phase, queue, losses>>

\* An actor dies, out of memory or with its node: its block goes back to the
\* queue, or Ray gives up and the exception reaches run_batch.
Die(a) ==
  /\ losses < MaxLosses
  /\ losses' = losses + 1
  /\ Trans(a, actor[a].pc, Loading)
  /\ \/ /\ queue' = IF actor[a].pc \in {"ready", "calling"}
                    THEN Append(queue, actor[a].block) ELSE queue
        /\ UNCHANGED phase
     \/ phase' = "raised" /\ UNCHANGED queue
  /\ UNCHANGED output

Driver    == Repartition \/ OpenFile \/ WriteFile
Work(a)   == \/ Load(a)     \/ TakeBlock(a) \/ BeginCall(a)
             \/ Generate(a) \/ EndCall(a)   \/ EndBlock(a)
Next      == Driver \/ WriteFails \/ \E a \in Actor : Work(a) \/ Die(a)

Spec == Init /\ [][Next]_vars

\* Ray schedules every actor, and the driver waits for them.
FairSpec == Spec /\ WF_vars(Driver) /\ \A a \in Actor : WF_vars(Work(a))

-----------------------------------------------------------------------------
(* Properties                                                               *)

\* Every variable holds what the pipeline can hold.
PipelineTypeOK ==
  /\ total \in Prompt /\ losses \in 0..MaxLosses
  /\ phase \in {"read", "map", "write", "done", "raised"}
  /\ queue \in Seq(Seq(Prompt))
  /\ output \in Seq(Row)
  /\ file \in [state : {"absent", "torn", "whole"}, rows : Seq(Row)]
  /\ \A a \in Actor :
       /\ actor[a].pc \in {"loading", "idle", "ready", "calling"}
       /\ {actor[a].block, actor[a].rest, actor[a].call} \subseteq Seq(Prompt)
       /\ actor[a].at \in 0..Len(actor[a].call)
       /\ actor[a].out \in Seq(Row)

\* Whatever blocks were done twice because an actor died in them, the file
\* has exactly one row for every prompt of the input.
EachPromptOnce ==
  phase = "done" =>
    /\ Len(file.rows) = total
    /\ {file.rows[i].id : i \in DOMAIN file.rows} = 1..total

\* "A malformed prompt cannot corrupt its neighbors" (batch_infer.py:148): a row
\* holds no other prompt's answer, whatever failed beside it, and only one with an
\* error may lack its own; that it has an error does not mean that it lacks it.
AnswersAreTheirOwn ==
  \A i \in DOMAIN output :
    output[i].of = output[i].id \/ (output[i].error /\ output[i].of = 0)

\* The pipeline comes to an end, in a file or an exception, also through lost
\* actors, prompts that fail and a last call that is not full.
PipelineEnds == <>(phase \in {"done", "raised"})

\* What is left of the input's order: the rows of a block stand together and in its
\* order, whoever did the block, in however many calls and attempts; the blocks come
\* in any order (nothing sorts the rows before repartition(1)).
RowsKeepBlockOrder ==
  phase = "done" =>
    \A b \in Range(Cuts(total, NumBlocks(total))) :
      \E k \in 0..(Len(file.rows) - Len(b)) :
        \A i \in DOMAIN b : file.rows[k + i].id = b[i]

-----------------------------------------------------------------------------
(* The pipeline as the job sees it: BatchInfer's staging steps.             *)

RowsWith(rows, error) == {i \in DOMAIN rows : rows[i].error = error}

StagedFiles(f) ==
  IF f.state = "absent" THEN {}
  ELSE {[state |-> f.state, run |-> 1, ok |-> Cardinality(RowsWith(f.rows, FALSE)),
         err |-> Cardinality(RowsWith(f.rows, TRUE))]}

NoFile == [state |-> "absent", run |-> 0, ok |-> 0, err |-> 0]

PcOf == [read |-> "stage", map |-> "stage", write |-> "write",
         done |-> "promote", raised |-> "raise"]

Job == INSTANCE BatchInfer WITH
  Batch   <- {"batch"},
  MaxRuns <- 1,
  disk    <- [b \in {"batch"} |-> [input |-> total, staging |-> StagedFiles(file),
                results |-> NoFile, success |-> NoFile, failure |-> NoFile]],
  driver  <- [b \in {"batch"} |-> [pc |-> PcOf[phase], run |-> 1, ok |-> 0, err |-> 0]]

\* What BatchInfer takes as two steps of the driver, a file begun and a file
\* with an answer or an error for each prompt, is what the blocks, actors and
\* retries come to: every step is one of the job's or changes nothing it sees.
StagesAsTheJob == [][Job!InferNext]_(Job!inferVars)

=============================================================================
