# Verification of kuberay-batch-inference

TLA+ models of the batch inference service, TLC runs over small instances of
them, and proofs checked by TLAPS. Paths are relative to the repository root.

## The system

A client posts a list of prompts; an API pod writes them to a shared volume,
records a row in Postgres and submits a job to a Ray cluster; the job's driver
runs the model over the prompts and writes its results and a marker back to the
volume; a poller inside each API pod copies Ray's verdict and the marker's
counts into the row; the client polls the row and finally streams the results.

| Component | Code | State it keeps | Operations |
|---|---|---|---|
| Inference job | `inference/jobs/batch_infer.py` | a process; files of `RESULTS_DIR/<id>/` | `main`, `run_batch` |
| Shared volume | `api/src/storage.py` | `input.jsonl`, `_staging/`, `results.jsonl`, `_SUCCESS`, `_FAILED` | write inputs, read markers, stream results |
| Batch row | `api/src/db.py`, `api/src/models.py` | table `batches` | `session_scope`, `get_batch`, `list_active_batches` |
| Ray adapter | `api/src/ray_client.py` | none a batch depends on | `submit_batch`, `get_status`, `map_status` |
| Ray cluster | external | job table in the head's memory, drivers | submit, status, stop, report of a driver's exit |
| POST handler | `routes/batches.py` `create_batch` | a coroutine per request | write input, insert, submit, attach or mark failed, read back |
| GET handlers | `routes/batches.py` | none | status, results |
| Status poller | `routes/batches.py` `poll_active_batches` | one task per pod: a snapshot, an answer, a loaded row | sweep, ask, read marker, load, commit |
| Pod lifespan | `api/src/main.py`, `db.py`, `ray_client.py`, `k8s/api/deployment.yaml` | startup and shutdown, the module singletons, the poller task | boot, drain, shutdown, crash; two pods overlap in a rollout |
| Probes | `routes/health.py` | none | `/health`, `/ready` |
| Middleware and metrics | `api/src/observability.py`, `api/src/auth.py` | counters, a histogram | `dispatch`, `require_api_key`, scrapes of `/metrics` |
| Validation, settings | `api/src/models.py`, `api/src/config.py` | none that changes | the limits a request is checked against |
| Clients | `scripts/benchmark.py`, `scripts/smoke-test.sh` | the status seen last | submit, poll, fetch the results |

The batches' part shares three things and no lock: the row (handlers and pollers of
all pods), the directory of the batch (POST handler, driver, pollers, results endpoint) and
the job table (POST handler, pollers, Ray). What is hard follows from that:

* a coroutine keeps what it read (a snapshot of rows, Ray's answer, a loaded row
  object) across an await, while another pod's poller and the driver go on;
* a request is four writes in three systems with no transaction around them, and
  the pod may die, or the reply be lost, between any two;
* the driver may be killed or raise between any two of its file operations, and
  its markers are not written atomically;
* exceptions are swallowed per row and per sweep, so progress must come from the
  next sweep;
* inside the job, blocks of prompts are done by actors that may die and are done
  again, and come out in any order;
* a pod takes its singletons away while tasks that use them are being stopped,
  and comes up while what it needs may be down;
* the middleware has three ways out of a request, and a scrape reads the metrics
  in another thread while they change.

`PROJECT.json` lists these hazards one by one, each with its line and the
properties that cover it.

## Modules

```
BatchInfer      driver and directory of a batch          (inference job, volume)
   |
RayJobs         + job table                              (Ray, map_status)
   |    BatchRow   row, statuses, dirty columns          (db.py, models.py)
   |   /
CreateBatch     + row, request handlers                  (POST)
   |
StatusPoller    + pollers, metric                        (poller)
   |
BatchService    + pods, faults; Next, fairness           (main.py, rollout)
   |   :
   |   INSTANCE BatchLifecycle, OverlapLifecycle         (what a client is promised)
   |
ResultsStream   + a client, a re-run by hand             (GET .../results, benchmark.py)

Pipeline        blocks, actors, rows   .. INSTANCE BatchInfer    (inside run_batch)
BatchInfer                             .. INSTANCE JobContract   (what a job owes)
PodLifespan     startup, shutdown, probes, rollout       (main.py, health.py, k8s)
HttpRequests    middleware, key check, metrics           (observability.py, auth.py)
```

A solid line is EXTENDS, a dotted one a refinement. `BatchInferProofs`,
`PipelineProofs`, `BatchServiceProofs`, `OnePodProofs`, `OverlapProofs`,
`ResultsStreamProofs`, `PodLifespanProofs` and `HttpRequestsProofs` hold the theorems,
the modules named `MC...` what the configurations need. An operator marked "Mutant of"
is a wrong form of the one after it, used to see that the runs notice.

**BatchInfer.** `disk[b]` is the directory, `driver[b]` the process. A JSONL file
is how many of its rows carry an answer (`ok`) and how many an error (`err`); a
file is absent, torn or whole and remembers which execution wrote it. Each file
operation of `run_batch` is an action: `ReadInput`, `OpenStaged`, `WriteRow` (rows
reach the file, so that a torn one may have any number of them), `WriteStaged` (the
rest of the rows), `Promote`, `Tally` (count, then remove an old `_FAILED`) or
`CutLine` (`json.loads` raises on the line where a torn file was cut), `OpenSuccess`,
`WriteSuccess`, `CleanStaging`; the handler of `main` is `OpenFailure`,
`WriteFailure`. `Kill` may come before each, and so may `Raise`: in the `try` block it
leads to the handler, in the handler out of the process, with exit code 1 and whatever
`_FAILED` is there then, torn, an older execution's or none. `Path.write_text`
truncates and then writes: the two actions of each marker, with torn between
them. `Promote` takes any staged file, because Ray's file names are random and
the code takes the first in their order. That a killed `write_json` leaves a
partial file is an assumption about Ray Data, which writes in place.

**RayJobs.** Ray is not in the repository. A job is pending, runs one driver, and
is reported some time after the driver ended by its exit code. It may never
start, be stopped, or be forgotten when the head restarts (`UNKNOWN`:
`get_job_status` raises).

**BatchRow.** A SQLAlchemy session writes the attributes whose value differs from
the loaded one; `Flush(loaded, set, stored)` is what the table holds afterwards.

**CreateBatch.** The control points of `create_batch` are its awaits: `Accept`
(the request arrives, `write_inputs_jsonl`), `Insert`, `Submit`, `Attach`,
`Respond`, and on `ConnectionError`/`RuntimeError` `SubmitFails`, `MarkFailed` and
then `Refuse`, the 503, with room for a crash between the two; `SubmitRaises` is any
other exception, `SessionRaises` a database failure, `CommitUnheard` a commit that took
effect although `session.commit()` raised. Both submit failures come with and without
the job having been accepted. The load and
commit of the handler's own sessions are one step: no poller updates a row
without a job id (this is itself a result, `UnattachedIsCreators`).

**StatusPoller.** `Sweep` takes the snapshot, less the rows without a job id,
which the loop would skip; `Ask` awaits Ray's answer; `Load` reads the marker,
loads the row, sets its attributes and increments the metric; `Commit` flushes.
`NothingNew`, `AskFails`, `MarkerUnreadable` and `CommitFails` are the early
return and the exceptions that end the row's turn and not the sweep. The marker
is read in the step of the load although a session is opened in between: Ray
answers with a terminal status only after the driver ended, and each job runs
one driver, so the marker no longer changes by then.

**BatchService.** Composes the above with pods: `Boot`, `Drain` (SIGTERM),
`Shutdown` after the requests in flight, `Crash`. `Faults` is the set of fault
kinds of a run and `MaxFaults` how many occur.

**BatchLifecycle.** One status, prompt count and results stream per batch:
appears queued, may progress, ends once, and offers complete results exactly
from `completed` on. `Promised` maps `get_batch_status` and `get_batch_results`
onto it, for one pod.

**OverlapLifecycle.** The same for pods that overlap, where a stale commit may take a
batch out of its end: it may go back in what it shows, its results refused again, but
`end[b]` is how it ended first, and it comes back to that status and those results or to
none. No column says so; `EndOf` and `EndShown` (BatchService) read it from what a commit
of an active answer does not touch: `completed_at`, the error and the counts.

**JobContract.** What the rest of the system relies on in one execution of the
job: nothing is announced, then at most one result with a row per prompt, which
stays, and an exit that says success only if there is one. `BatchInfer!Announced`
is the result beside a readable `_SUCCESS`, `Verdict` the way the process ended.
`ContractKept` asks it of every step that leaves all batches in their first execution
(`FirstExecutions`); a script started again over the leftovers of a killed one may
break it (run `infer_rerun`).

**Pipeline.** The Ray Data part of `run_batch`, between its `stage` and
`promote`. `Repartition` cuts the input into `max(2, total // 16 or 2)` blocks; an
actor loads its model, takes a block, and calls the predictor for a few prompts at
a time; `BeginCall` allocates the columns, `Generate` fills one place of them with an
answer, an error, or both (the `try` goes on after the answer is stored,
batch_infer.py:183-189, and the `except` does not take it back), `EndCall` turns them
into rows. `Die` loses an actor
anywhere: its block is done again from the start, or the exception reaches the
driver. Blocks are collected as they come, and one file is written, here all at once:
its rows one by one are `BatchInfer`'s `WriteRow`. Rows say which
prompt they claim to be of and whose answer they hold. What Ray does is external
and assumed as the module's head says. Bundling of small blocks into one call is
left out: it only changes which prompts share a call. The order of the blocks in the
file is not the input's; what is kept of it is `RowsKeepBlockOrder`.

**PodLifespan.** `lifespan()` step by step: `InitEngine`, `CreateAll` (the first
connection), `Connect` (the Ray client, then the poller task), `StartupFails` when what
a step needs is down, and on the way out `StopPoller`, `PollerEnds`, `ResetClient`,
`Dispose`. `bound` is which singletons are not `None`. The poller and the requests in
flight are where they await, and each await `Needs` Postgres or Ray: a request's handler
may answer with an error, `SweepRaises` is the sweep's exception, logged by one of the
two handlers around it, after which the loop goes on; the probes, the deployment's
rolling update and outages of Postgres and Ray surround them. Crashes of a pod are in
`BatchService`, where they matter for batches. The docstring of `ray_client.reset` says
that production code never calls it (ray_client.py:80-81); the shutdown does
(main.py:63).

**HttpRequests.** `RequestIdMiddleware.dispatch` as three segments on the event
loop: up to `call_next`, and from its return or its exception to the end; within a
segment the metrics change one after the other, and nothing but a scrape sees the
steps between. `/metrics` is a plain `def`, run in a thread: `ScrapeCounter` and
`ScrapeHistogram` read the two metrics apart. The key check and the schema decide
the reply, as does each route's list of replies. Metrics are kept per request, as
what each added, so that "counted once" can be said. A handler that raises is the one
exception to the labels and the header; `AnsweredIsCounted` says so. A request
cancelled by the server's shutdown (a `BaseException`, which the `except` clause does
not see) is not modelled; uvicorn waits for requests in flight.

**ResultsStream.** The service with `benchmark.py` as its client. `Look` is the look
that ends the client's loop, `last` the status it was told; it asks for the results
whatever that was. `LookUp` reads the row again, `CheckFile` looks for the file,
`Open` runs the generator up to its first line, `Yield` sends a line. `Rerun` starts
the script once more for a batch whose job is over, as its docstring allows, at any
moment of this; the rename puts another file under the name that was checked, or is
open.

## Runs

| Run | Instance | Result |
|---|---|---|
| `infer` | 1 batch, 0..2 prompts, 2 executions | `InferTypeOK`, `MarkerTellsResults`, `FirstRunIsClean`, `ExitCodeTellsMarkers`, `ContractKept` hold |
| `one_pod` | 1 batch, 1..2 prompts, 1 pod, every fault kind, 2 faults | `TypeOK`, `UnattachedIsCreators`, `ReplyIsKept`, `EndIsTimed`, `TerminalIsFinal`, `LifecycleKept` hold |
| `overlap` | 1 batch, 1..2 prompts, 2 pods, every fault kind, 1 fault | `CompletedMeansDelivered`, `VerdictIsRays`, `JobHasRowAndInput`, `PolledIsCounted`, `EndIsNeverRevised`, `OverlapKept` hold |
| `live` | 2 batches, one of them out of the ordinary, 2 pods, every fault kind, 3 faults less those the initial state stands for | `AcceptedSettles` holds |
| `pipeline` | 2 actors, 1..6 prompts, blocks and calls of 2, 2 losses | `PipelineTypeOK`, `EachPromptOnce`, `AnswersAreTheirOwn`, `RowsKeepBlockOrder`, `PipelineEnds`, `StagesAsTheJob` hold |
| `lifespan` | 2 pods, 1 request, 1 rollout, 2 outages | `LifeTypeOK`, `UsersFindThemBound`, `AlwaysOneServes`, `SweepsResume`, `RolloutEnds` hold |
| `http` | 3 requests of any kind | `HttpTypeOK`, `AnsweredIsCounted`, `ScrapeIsConsistent` hold |
| `stream` | 1 batch, 1..2 prompts, 1 pod, 3 executions, 1 fault of any kind but the pod's end | `StreamTypeOK`, `StreamNeverBreaks`, `StreamIsOneResult` hold |
| `overlap_final` | 1 batch, 2 pods, no fault | `TerminalIsFinal` violated |
| `stuck_queued` | 1 batch, 1 pod, one crash | `SkippedIsCaughtUp` violated |
| `infer_rerun` | as `infer` | `EveryRunIsClean` violated |
| `torn_marker` | 1 batch, 1 pod, a raise and a kill | `FailureIsReported` violated |

What the violations show:

* **overlap_final.** `_update_status_only` has no check for a terminal row. A
  poller that was told RUNNING commits `in_progress` over another pod's
  `completed`. The next sweep repairs it (`live`), but a client may see
  `completed`, then `in_progress` with `completed_at` set and a 409 for results.
  What it never sees is another end than the first (`EndIsNeverRevised`), or other
  results (`OverlapKept`).
* **stuck_queued.** A row whose job id is never attached is skipped by every
  sweep, not caught up on the next one.
* **infer_rerun.** A re-run does not empty `_staging` and may publish the partial
  file of a killed run, with a `_SUCCESS` that agrees with it. A client of a
  completed batch may then be streamed too few rows: the exception in
  `StreamIsOneResult`, which takes a third execution.
* **torn_marker.** A `_FAILED` that cannot be parsed raises in every sweep: the
  batch is never reported as failed.

What the passing properties do not say:

* exit code 1 promises no readable `_FAILED` (an exception in `main`'s handler, on a
  full volume, say), so `ExitCodeTellsMarkers` says it of exit code 0 and of the marker;
* a row with an error may hold its own answer too, and is then counted as failed; what
  `AnswersAreTheirOwn` excludes is another prompt's answer;
* `PolledIsCounted` is about the order of increment and commit. The registry is the
  process's memory (observability.py:48): `counted` stands for what any pod ever counted, and
  what Prometheus had not scraped when a pod died is lost;
* `RowsKeepBlockOrder` is what is left of the promised order, and `AnsweredIsCounted`
  exempts a raising handler from label and header (next list).

Smaller disagreements of comments and documents with the code have no run; the
properties above are stated so that they hold with what the code does:

* docs/ARCHITECTURE.md:169 promises results in the order of the input, and nothing
  restores it: the block that is through first is written first. Each row has its id.
* observability.py:133-135 and TECHNICAL_REPORT.md:253 label metrics by the route's
  template; a handler that raises is counted under the literal path, batch id
  included (observability.py:130).
* README.md:226 has an `X-Request-ID` on every response; the 500 of a handler that
  raised has none (observability.py:143 is skipped).
* `MAX_BATCH_SIZE` (config.py:58-62) is read nowhere; only the schema's 100 000 holds.
* `batch_terminal_total` (observability.py:71) never sees a batch that `_mark_failed`
  ended, and sees one twice when the commit after the increment fails.
* `benchmark.py` asks for the results of a failed or cancelled batch, and the 409 ends
  it with a traceback before it prints "final status" (benchmark.py:94-113);
  `smoke-test.sh` judges by a status that is five seconds old (smoke-test.sh:64-74).
* README.md:276 and ARCHITECTURE.md:46 say that the poller drives all transitions
  and POST only writes the queued row, but POST also writes `failed`.
  TECHNICAL_REPORT.md:310 says that queued is written on a successful submission,
  but the row is committed before the submission.
* TECHNICAL_REPORT.md:324 says that repartitioning gives more blocks than actors; with
  fewer than 48 prompts there are two of each.
* the docstring of `ray_client.reset` says that production code never calls it
  (ray_client.py:80-81); the shutdown does (main.py:63).

**Bounds.** Batches meet only in the sweep of a poller and at a head restart, and
their rows, files and jobs are disjoint: one batch suffices for what a row says,
two for whether one holds up another. Two pods give every overlap of two
sessions; a third would only repeat a writer, and the theorems below hold for any
number. Two prompts distinguish a lost row from a failed one and all from some.
Two faults let a recovery fail as well. `MaxRuns = 1` in the service because the
API never submits a batch twice; `infer` has the second execution, by hand.
`MaxCount` caps the metric at 2. In `pipeline` six prompts with blocks and calls of two
give two and three blocks, blocks of different length, an empty one (one prompt),
and last calls that are full and not; two losses let a block be done a third time,
or the write fail after a loss. In `lifespan` two outages take both dependencies
down or one of them twice; a second rollout would start from the state the first
one ends in, with the names swapped, and the theorems hold for any number. In `http`
three requests are two that end and one that scrapes between them; a body is empty, within
the schema's limit or above it. In `stream` the first execution is the
service's, the second may be killed over its files and the third may publish them,
before, while and after the client is served. `live` starts from two initial states,
each reachable in `BatchService` with the faults it has used up, because the states in
between only multiply: `OverlapInit`, where one batch ended in a 500 before it had a
row and the other is still to come, with one fault and two pods left for it; and
`PoisonedInit`, two accepted batches of which one has a `_FAILED` torn by a kill, so that
every sweep meets the unreadable marker. Deadlock is checked in the runs of the service
except `stream`; everywhere else the process, the requests or the client come to an end.
Only `http` uses symmetry, of the requests, which no property or action names; it checks
no liveness.

**Fairness.** Weak fairness of each pod's poller and of each handler (the event
loop of a pod that is up runs them), of `Boot` and `Shutdown` (Kubernetes restarts
a pod and bounds its grace period), and of each job (Ray schedules it, its driver
terminates and is reported). Faults are not fair and are finitely many; requests
need not arrive. A poller's answers from Ray and commits succeed once the
faults are used up. `AcceptedSettles` leaves out, and names, the two ends nobody
can tell (`Unreportable`): a job table lost by a head restart, and a torn
`_FAILED`. `PipelineEnds`: Ray runs every actor and the
driver waits for them; actors lost and writes failed are finitely many. `RolloutEnds`:
a started process and its shutdown go on, handlers and probes run, kubelet and the
controller act, and an outage ends; nothing asks for outages or rollouts to happen.
`SweepsResume`: besides, the event loop of a pod that is up runs its poller, which sleeps
for a finite interval. Nothing is assumed about the exceptions, which the model lets
happen at any await of a sweep while the dependency is down.

## Proofs

All theorems hold for every set of batches and pods, every bound and every set of
faults, from the named assumptions: `MaxPrompts` and `MaxRuns` positive,
`MaxFaults` a natural number, `None` no batch and no pod; in the pipeline, for every
number of prompts, actors and losses and every size of blocks and calls.

*BatchInferProofs.* `InferTypeCorrect`: besides the types, no file and no tally has more
rows than the batch has prompts, through files that grow row by row (`GrowthBounds`) and
executions that promote what they found. `MarkerTellsResultsAlways`,
`FirstRunIsCleanAlways` and `ExitCodeTellsMarkersAlways` follow from `InferInductive`,
whose invariant `JobInv` says for each control point of the driver what its files hold
by now (`ByNow`), and, as long as only one execution has happened, where the single
staged file comes from (`FirstRun`). The properties alone are not inductive: they say
nothing about the files of a driver before it exits.

`ContractKeptAlways`, there too, is the refinement of `JobContract` by the first
execution of each batch, also where second ones are allowed. It reuses `JobInv`: that the
announcement is of a whole result is `ByNow` at the write of the marker, and that no later
step changes it is that `results` is renamed once and only the first staged file exists.

*BatchServiceProofs.* `TypeCorrect`, then `ServiceInvariant`: `ServiceInv` adds to
`JobInv`, per batch, that the driver has run at most once and Ray's verdict agrees with
how it ended (`RunOnce`), what the row is at each control point of its handler
(`RowMade`; after a submission that failed, `Refused`, as a whole), and that a terminal
row says Ray's verdict and carries the marker's counts (`RowTrue`); and per pod that
what the poller *holds* is an answer Ray gave, or has since gone past, and a row object
that was true when loaded (`PollerTrue`). The last part makes it inductive: a commit
writes what was read several steps ago, and with a second pod over a row that has
changed since. It survives because a stale answer can only be an active one, and a
commit of a terminal answer writes columns fixed by the finished job. From it follow
`CompletedMeansDeliveredAlways`, `VerdictIsRaysAlways`, `JobHasRowAndInputAlways`,
`UnattachedIsCreatorsAlways` and `ReplyIsKeptAlways`, for any number of overlapping
pods. `PolledIsCountedAlways` adds that a session about to commit an end has counted it
(`CountInv`): another pod's commit may come in between, but none comes before a load
that counts. The driver's part is proved once, in `BatchInferProofs`, and reused for the
driver steps inside the service (`ClusterKept`).

*OnePodProofs.* What two overlapping pods break (run `overlap_final`) holds as
long as there is one, for any number of batches, restarts and faults; its theorems
assume `SinglePod`. `OnePodInvariant` adds to `ServiceInv` that nothing the
poller holds is stale when it is used (`Fresh`): the snapshot lists active rows
only, a row told to be queued is still queued, the loaded object is the stored
row; and that a row's `completed_at` goes with its status (`Kempt`). Then a row
changes in two ways only: it appears, or it goes on from an active status
(`RowsMove`). `EndIsTimedAlways` and `TerminalIsFinalAlways` follow, and so does the
refinement, `LifecycleKeptAlways`: what the client sees of a batch, its results
included, is a function of its row (`ShownByRow`, from `CompletedMeansDelivered`),
one row changes at a time (`OneRowMoves`), and each of its changes is a step of
`BatchLifecycle` (`RowRefines`).

*OverlapProofs.* What is left of finality and of the lifecycle for any number of pods.
Neither can rest on the status, which a stale commit sets back, nor on Ray's verdict, which
a head restart takes away. They rest on `EndOf`, how the rest of the row says that the
batch ended. `LifeInvariant` proves of it `LifeInv`: the end a row keeps is Ray's verdict,
if there still is one, and its status whenever that is terminal (`EndKnown`); a row object
that was loaded with an end has the row's end (`SessionKnown`); a terminal answer that is
held is the end of its row or the row is open, and the answers held about one batch agree
(`AnswerKnown`, `AnswersAgree`). The core is `TerminalFlush`: a session writes only the
columns it changed, over a row that another session may have ended since, and yet the
mixture is a row that ended as both say; where a session and the row differ in how they
end, it would be of neither. So a step leaves the end of a row or gives it its first one
(`EndsStay`); `EndIsNeverRevisedEver` follows, and the refinement `OverlapKeptAlways`: a
row changes by a handler or a commit (`RowSteps`), and that is a step of
`OverlapLifecycle` (`RowOverlaps`: `FirstEnd` where the end is new, `SameEnd` where it is
hidden or shown again).

*ResultsStreamProofs.* A re-run breaks what `ServiceInv` says of a driver that has run
once, and the proofs above are arranged for it: what handlers and pollers keep among
themselves (`OwnInv`) is a part of its own that no driver step touches, and the lemmas on
their steps, those of `OnePodProofs` included, ask for no more. `StreamInv` adds
to it `JobInv`'s description of a first execution, what it leaves behind (`Published`: the
results are a complete file, or one torn, with some of its rows, by the death of an
execution after the first), that a
row says completed only of such a batch (`SaidTrue`), and what a stream has in hand at each
of its steps (`StreamTrue`). What makes it inductive is that no step of a later execution
takes the results away: `Promote` replaces them. `StreamTypeCorrect`,
`StreamIsOneResultAlways` and `NoEmptyPromise` (no completed row without its file, no
body that breaks off) hold for any number of pods; that a client which was told
completed is not refused afterwards, `StreamNeverBreaksAlways`, is `TerminalIsFinal` once
more and assumes `SinglePod`.

*PipelineProofs.* `PipeInv` says of an actor (`ActorOK`) that the columns of its call
are filled as far as it has come and empty beyond, so that an answer and an error can
only stand in their own prompt's place, and that its block is, in order, the rows put
out, the prompts of the call and those to come; and of a block of the input (`BlocksOK`)
that it is queued, held by an actor or `PlacedIn` the output, where it stays, for rows
are only put at the end. Hence `AnswersAlwaysTheirOwn` and `RowsAlwaysKeepBlockOrder`.
`EachPromptAlwaysOnce` needs two things more: that the cuts share out the prompts
(`CutsShareOut`, arithmetic on rounded quotients), and that no prompt is in two places
at once (`OnceInv`), which is what an actor lost in the middle of a block could break.
The rows are then in bijection with the prompts, which gives their number
(`AllOutOnce`). `StagesAsTheJobAlways` is the refinement of the job's driver, action by
action: opening the file is its `OpenStaged`, for until then there is none (`FileYet`);
writing it its `WriteStaged`, for the rows with an answer and those with an error are
together as many as the prompts (`RowsShared`); a write or a dataset that fails its
`Raise`; and nothing an actor does is seen by the job.

*PodLifespanProofs.* `PodInv` says of each stage of a pod which singletons are bound,
whether there is a poller, and that requests are in flight only while it serves or
drains. From it `UsersAlwaysFindThem`. `LifeTypes` includes that no sweep's
exception ends the poller's task. `OneAlwaysServes` needs that the old pod leaves the
serving stage only when another endpoint serves, and a pod leaves it in no other
way.

*HttpRequestsProofs.* `HttpInv`: a request is inside a segment exactly when the loop is
in it (`LoopInv`), so at most one is between the two metrics; what each has added by
its control point (`RequestInv`); and what a scrape has read is a subset of what was
there, with the counted ones missing from the histogram being the one request that
raised (`ScrapeInv`). `AnswersAreCounted` and `ScrapesAreConsistent` follow, for any
number of requests and scrapes.

Only model-checked: the liveness properties (`AcceptedSettles`, `PipelineEnds`,
`SweepsResume`, `RolloutEnds`), as liveness under fairness is out of the prover's reach.
Every other property that a passing run checks is stated by a theorem. The four
properties that are violated have none, of course; `TerminalIsFinal`, violated with two
pods, is proved for one.

## Not modelled

Logging, the context variables of a request and the settings: read or written on one
path each, and read back by nothing; `MAX_BATCH_SIZE` is not read at all. Of the
metrics, `batch_submitted_total` and `rayjob_submit_failures_total`, likewise. The
formats of single fields (`models.py`, `config.py`) are declarative. Tokens, texts and
finish reasons of a generation: an answer is an answer. A volume that fails while
`input.jsonl` is written ends in a 500 with no row and no job. A stream cut by the end
of its pod: the connection goes with the process and the client sees an error.
`smoke-test.sh` asks the same of the service as `benchmark.py`, in a loop that gives up.
Manifests other than the API's deployment, and the scripts that set up or tear down the
cluster, are declarative or pure I/O.

## Plan

Done: the job, its pipeline and its contract, Ray, row, POST handler, poller, pods
in outline and in detail, middleware and metrics, results stream and its client, the
client's lifecycle, and what overlapping pods leave of it; the theorems on all safety
properties and all four refinements.
Left, in this order:

1. the streams of more than one client per batch, which share nothing but the file;
2. the counters of submissions and of their failures, with the rows.
