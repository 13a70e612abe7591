--------------------------- MODULE ResultsStream ----------------------------
(***************************************************************************)
(* The repository's own client, scripts/benchmark.py, over the running     *)
(* service: it submits a batch, looks at its status until that is terminal *)
(* and asks for the results.  GET /v1/batches/{id}/results reads the row,  *)
(* then looks for the file, then opens it when the body is first asked for *)
(* and reads it line by line, while an operator may run the script for the *)
(* batch once more (run_batch "is safe to re-run", batch_infer.py:213).    *)
(* A rename replaces the name and not the file a reader has open.          *)
(***************************************************************************)
EXTENDS BatchService

VARIABLE stream  \* stream[b]: the client that created b, and the results it is sent

streamVars == <<vars, stream>>

\* last: the status that ended the client's loop; file: the open file; rows: lines
\* sent; runs: the executions they are of.
Stream == [pc : {"looking", "ended", "found", "ok", "reading", "done",
                 "refused", "error", "broken"},
           last : TerminalStatuses \cup {"absent"},
           file : File, rows : 0..MaxPrompts, runs : SUBSET (0..MaxRuns)]

NoStream == [pc |-> "looking", last |-> "absent", file |-> Absent, rows |-> 0, runs |-> {}]

Move(b, from, to) ==
  /\ stream[b].pc = from
  /\ stream' = [stream EXCEPT ![b].pc = to]

Results(b) == disk[b].results

Served == \E p \in Pod : pod[p] = "up"

\* The look that ends the loop of a client that got 200; the others only print.
Look(b) ==
  /\ Served /\ post[b].pc = "ok" /\ Terminal(row[b])
  /\ stream[b].pc = "looking"
  /\ stream' = [stream EXCEPT ![b].pc = "ended", ![b].last = row[b].status]

\* The client asks for the results, whatever the status: 409, which ends it with an
\* HTTPError, or the row of a completed batch.
LookUp(b) ==
  /\ Served
  /\ Move(b, "ended", IF row[b].status = "completed" THEN "found" ELSE "refused")

\* exists() before the StreamingResponse: 500 or 200.
CheckFile(b) == Move(b, "found", IF Results(b) = Absent THEN "error" ELSE "ok")

\* The generator runs for the first time: FileNotFoundError, or an open file.
Open(b) ==
  /\ stream[b].pc = "ok"
  /\ stream' = [stream EXCEPT ![b].pc = IF Results(b) = Absent THEN "broken" ELSE "reading",
                              ![b].file = Results(b)]

\* Mutants of Yield: one line too many; the path is opened again for each chunk.
YieldPastEnd(b) ==
  LET f == stream[b].file IN
  /\ stream[b].pc = "reading" /\ stream[b].rows <= f.ok + f.err
  /\ stream' = [stream EXCEPT ![b].rows = @ + 1, ![b].runs = @ \cup {f.run}]

ReopeningYield(b) ==
  /\ stream[b].pc = "reading" /\ stream[b].rows < Results(b).ok + Results(b).err
  /\ stream' = [stream EXCEPT ![b].rows = @ + 1, ![b].runs = @ \cup {Results(b).run}]

Yield(b) ==
  LET f == stream[b].file IN
  /\ stream[b].pc = "reading" /\ stream[b].rows < f.ok + f.err
  /\ stream' = [stream EXCEPT ![b].rows = @ + 1, ![b].runs = @ \cup {f.run}]

EndOfFile(b) ==
  /\ stream[b].rows = stream[b].file.ok + stream[b].file.err
  /\ Move(b, "reading", "done")

StreamStep(b) == \/ Look(b) \/ LookUp(b) \/ CheckFile(b)
                 \/ Open(b) \/ Yield(b)  \/ EndOfFile(b)

\* The script is started by hand for a batch whose job is over.
Rerun(b) ==
  /\ ray[b] \notin {"PENDING", "RUNNING"} /\ driver[b].run > 0
  /\ Start(b)
  /\ UNCHANGED <<ray, row, post, poller, counted, pod, faults>>

StreamInit == Init /\ stream = [b \in Batch |-> NoStream]

StreamNext ==
  \/ Next /\ UNCHANGED stream
  \/ \E b \in Batch : StreamStep(b) /\ UNCHANGED vars
  \/ \E b \in Batch : Rerun(b) /\ UNCHANGED stream

StreamSpec == StreamInit /\ [][StreamNext]_streamVars

-----------------------------------------------------------------------------
(* Properties                                                               *)

\* A stream is in one of its states, and sends no more rows than there are prompts.
StreamTypeOK == stream \in [Batch -> Stream]

\* What the checks before the stream are for (batches.py:257-281), with one pod: a
\* client that was told completed gets no 409 and no 500, and once 200 is sent the
\* body does not break off, though a re-run replaces the file between look, check,
\* open and read.
StreamNeverBreaks ==
  \A b \in Batch : /\ stream[b].pc \notin {"error", "broken"}
                   /\ stream[b].pc = "refused" => stream[b].last # "completed"

\* A stream that came to its end is the result of one execution, with a row for
\* each of the prompts the client sent (benchmark.py:113 prints {ok}/{N}), whatever
\* a re-run has done meanwhile; only a third execution may publish the torn file of
\* a killed second one (EveryRunIsClean).
StreamIsOneResult ==
  \A b \in Batch : stream[b].pc = "done" =>
    /\ stream[b].runs \subseteq {stream[b].file.run}
    /\ \/ stream[b].rows = row[b].input_count
       \/ IsTorn(stream[b].file) /\ stream[b].file.run > 1 /\ driver[b].run > 2

=============================================================================
