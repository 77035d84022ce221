# Formal verification of the ML inference service

TLA+ specifications of the service in `src/`, the TLC configurations that check
them on small instances, and TLAPS proofs of what matters most for instances of
any size. Paths below are relative to the repository; `scheduler.py` is
`src/inference_service/core/scheduler.py`.

## 1. Inventory of the system

One process, one asyncio event loop, one worker thread, one model.

| Component | State it keeps | Operations | Correct when |
| --- | --- | --- | --- |
| Scheduler (`core/scheduler.py`) | the deque `_pending`, the batch `_running`, driver and watchdog tasks, `_accepting`, `_failed`, `_active_batch`, `_active_since`, `_abandoned_worker` | `start`, `submit`, `_terminate`, `_next_batch`, `_take_batch`, `_execute`, `_finish_batch`, `_watch_worker`, `_fail_all`, `shutdown` | every accepted request ends once and its caller is told, in order of arrival, within the capacity, even if the worker hangs |
| Request envelope (`core/lifecycle.py`) | state, deadline, future | transitions made by the scheduler | one terminal state, resolved once |
| Adapter protocol and adapters (`adapters/`) | loaded tokenizer, model and device, last timings | `load`, `validate`, `predict_batch`, `close` | one ordered result per input; a lost device is fatal; only verified artifacts load |
| HTTP application (`api/app.py`, `schemas.py`) | none of its own besides tasks per request | lifespan, `predict`, `_await_prediction`, health, models, metrics | a disconnect cancels the prediction and nothing else; every outcome has its status code |
| Request boundary (`api/middleware.py`, `errors.py`) | body bytes read so far, response started | ASGI wrapper | a body over the limit is refused whatever its declared length; every response carries the request identifier |
| Registry, contracts, settings (`runtime/`, `core/contracts.py`) | immutable | lookup, validation | only the configured model is served |
| Metrics and logging (`observability/`) | counters, gauges, histograms | set, inc, observe | gauges and counters agree with the scheduler |
| Dataset and split (`training/data.py`) | rows, groups of the same sentence, strata | `prepare`, `split_rows`, `read_split` | no sentence on both sides of a split, no stratum without a test row |
| Training (`training/train.py`, `metrics.py`) | best score, epoch and weights, the directory it writes | `train`, `small_subset`, `classification_metrics` | the earliest best epoch is exported, and only if it beats the majority label; an incomplete artifact is never loaded |
| Artifacts (`adapters/custom_artifacts.py`, `custom_network.py`, `scripts/prepare_huggingface_model.py`) | files and a manifest of their hashes | `verify`, `tokens`, `vocabulary`, `encode`, `padded_batch`, download | what loads is complete and of one writer; batching does not change a row |
| Evaluation (`training/evaluate.py`) | `evaluation.json` beside the model, a report | `evaluate` | a measurement of the published weights, replaced by an overlapping evaluation only |
| Load driver (`benchmarks/load.py`) | rows per arrival, set of tasks, peak | `run_load`, `send` | each intended arrival is accounted for once, drops included; no work is left to the next run |
| Experiment, audit, report (`benchmarks/`) | server process, growing report, raw records | `experiment`, `audit`, `summarize` | an accepted report is one whole experiment of one attempt |
| Workload summary, container, CI, portfolio media | none | text lengths, build, drawing | not modelled |

**How they interact.** The HTTP handler creates a task for `submit()` and a
task that polls for a disconnect; it cancels the former when the latter ends
first. `submit()` puts an envelope into the deque under the condition
`_condition`, notifies the driver and waits for the envelope's future with its
own deadline as a timeout. The driver task forms batches under the same
condition and hands each to the one-thread executor; when the call is back it
resolves the futures. The watchdog reads when the current call began and, when
it is overdue, closes admission. `shutdown()` closes admission, waits for the
driver for a grace period, then fails what is left, cancels the driver and
either runs `close` on the worker thread or leaves a stuck call behind.

Away from the service, `train()` and the preparation script write a directory
that ends with a manifest of hashes; the adapters' `load()` and `evaluate()`
read it in other processes. `experiment()` starts a server per policy, runs
`run_load()` against it and grows one report, which `audit()` and `summarize()`
accept or refuse.

**What is hard.** Four parties (callers, driver, watchdog, shutdown) work on
the same envelopes between awaits, and a fifth, the worker thread, runs beside
them. Envelopes end for five reasons (completion, error, expiry, cancellation,
shutdown) at places that look at the clock on their own. A Python thread cannot
be killed, so a hung call outlives the batch, the driver and the shutdown. In
the HTTP handler two tasks race, and cancelling one takes effect a turn later.
Any step of an adapter call may fail or run out of device memory. Trainings,
evaluations and experiments may be killed between any two writes and be run
again beside each other. The hazards, each at its line and with the properties
that look for it, are listed in `PROJECT.json`.

## 2. Modules

| Module | What it is |
| --- | --- |
| `Scheduler` | the scheduler, its worker thread, its callers and the clock: state, actions, specification |
| `SchedulerProperties` | its invariants, step properties, liveness properties with their fairness, and the inductive invariant |
| `RequestLifecycle` | abstract: one request's life. `Scheduler` implements it |
| `SubmitContract` | abstract: what `submit()` promises its caller. `Scheduler` implements it, `PredictHandler` is built on it |
| `PredictHandler` | one POST per connection: boundary middleware, route, its two tasks, the client |
| `AdapterLifecycle` | load, predict and close of the three adapters, step by step, in the order the lifespan and the scheduler call them |
| `AtomicPublication` | abstract: a directory that is empty until one step fills it for good |
| `PublishedDirectory` | writers, readers and damage of an artifact or a snapshot directory; implements `AtomicPublication` |
| `Evaluation` | extends it by evaluators: readers that measure, record and report |
| `CustomText` | tokens, vocabulary, encoding, padding and pooling as operators |
| `StratumCuts` | the two cuts of a stratum in double arithmetic |
| `TrainingData` | split, removal of duplicates, what is fitted, on the two modules above |
| `ClassificationMetrics` | confusion matrix, accuracy and macro F1 as operators |
| `TrainingLoop` | epochs, early stopping, selection, baseline, export, for outcomes of any kind |
| `ScoredTraining` | the two together: an outcome is the predictions of the validation rows |
| `LoadDriver` | one run of the open-loop generator, its tasks, the server's backlog, and the audit of its rows |
| `Experiment` | attempts at an experiment with their servers, one port, the report and its raw records |
| `MC...` | the instance of each for TLC: symmetry and the values of constants |
| `SchedulerProofs` | the theorems of `Scheduler` and of its abstractions |
| `PredictHandlerProofs`, `AdapterLifecycleProofs`, `TrainingDataProofs`, `LoadDriverProofs`, `ExperimentProofs` | those of the modules they are named for |
| `EvaluationProofs` | those of `PublishedDirectory` and `Evaluation` |
| `TrainingLoopProofs` | those of `TrainingLoop` and `ScoredTraining` |

The request path is composed by contract: `PredictHandler` instances
`SubmitContract` for the scheduler's side of its steps, and `Scheduler` is shown
(and proved) to implement the same contract, so the handler's properties hold of
the service with the real scheduler behind it. The artifact path is composed by
extension: `Evaluation` runs its evaluators on the steps of `PublishedDirectory`.

### How `Scheduler` corresponds to the code

*Grain.* The event loop runs one callback at a time, and a coroutine gives up
control only where it really suspends. `async with self._condition` never does
in this program: nobody holds the lock across an await except in
`Condition.wait()`, which releases it. An action is therefore one uninterrupted
run of the loop between two suspensions. Two of these runs read the clock more
than once (`submit()` at lines 108 and 132, `_finish_batch()` at line 298 for
each member); they are split at those reads, `LoopIdle` keeps the rest of the
loop out until they are over, and only the thread and the clock interleave with
them.

*State.* `state`, `future`, `deadline`, `admittedAt` are the fields of the
envelopes, by request (`"none"`: no envelope); `pending` and `running` are the
deque and the batch; `accepting`, `failed`, `abandoned` and `activeSince` the
fields of the same names. `driver` says what the task of `_run()` is suspended
on: `ready` (woken, not yet run), `waiting` (in the condition, with `alarm` the
time its `wait_for` ends), `executing` (in `run_in_executor`), `finishing`
(inside `_finish_batch`, at member `cursor`), `deciding` (back in
`_next_batch` without a suspension), `done`. `_active_batch` is the operator
`ActiveBatch`. `worker` is what the thread does and `returned`, `results` what
the call left for the driver. `caller` is where each `submit()` stands, and
afterwards the reply it gave. `life` follows `start()` and `shutdown()`.
`outcomes` is a history variable: the calls of `_record_outcome()` by request;
`answer` is whose prediction `set_result()` put into the future.

*Actions.*

| Code | Actions |
| --- | --- |
| `start()` | `Start`, `Loaded` (load may raise) |
| `submit()` | `Submit` (reclaim, then refuse or admit), `BeginWait`, `Receive`, `Timeout`, `Cancel` |
| `_next_batch()`, `_take_batch()`, first half of `_execute()` | `Dispatch`, `Sleep`, `StopDriver` |
| worker thread | `CallStarts`, `CallReturns`, `CloseStarts` |
| `_execute()` after the call, `_finish_batch()` | `CollectResults`, `FinishOne`, `EndExecute` |
| `_watch_worker()` | `WatchdogFires` |
| `shutdown()` | `BeginShutdown`, `Drained`, `GraceExpires`, `DriverCancelled`, `CloseReturns` |
| the clock | `Tick` |

`_reclaim_dead_pending()` and `_fail_all()` are operators (`ReclaimDeadPending`,
`FailAll`) that are part of every action whose code calls them.

*The adapter* is what its protocol lets it be: `predict_batch` may return the
right results, too few, too many, raise, raise `FatalWorkerError`, or not
return; no fairness is assumed of it.

*Abstractions.* Requests are model values and arrive at most once; a result is
the request it belongs to; metrics other than the outcome counter, log records
and timings are left out; time is counted in ticks, the watchdog's polling
interval (at most 0.1 s, at most half the watchdog time) is below a tick. Left
out: the generic except clause of `_run()`, which nothing in the modelled code
reaches, and an adapter whose `close` raises (that is `AdapterLifecycle`'s). In
all modules definitions commented *Fault* are
not part of the specification: each is a plausible mistake in one definition,
used to see that a property would notice it.

### The HTTP handler: `PredictHandler`

| Code | State and actions |
| --- | --- |
| `middleware.py`, buffering | `held`; `ReceiveBody` (413 over the limit), `ReceiveDisconnect` |
| `bounded_receive()` | `consumed`, `NextMessage`: the body once, then the server's `receive()` |
| `predict()` up to the tasks | `Route`: 404 and 422, or a `prediction` and a `poller` task |
| task of `submit()` | `PredictionStarts`, `PredictionEnds`, `PredictionCancelled`, `EnvelopeEnds`, each a step of `SubmitContract` |
| task of `disconnected()` | `PollerReturns`, `PollerCancelled` |
| `asyncio.wait`, `finally` with `cancel()` | `FirstCompleted`, `HandlerCancelled` |
| `gather`, status mapping | `HandlerEnds` |

A task is created, runs, is being cancelled, or is done; `cancel()` takes effect
in a later turn, in which the task may meanwhile have ended. The parts of a body
are pieces of a size; what they hold is one of four kinds. Texts, headers and
the response body are left out, and so are the read-only routes, which hold no
state.

### Adapters: `AdapterLifecycle`

`Steps` names, per adapter, the steps of `load()`, `predict_batch()` and
`close()` in the order of the code; `at` is the step the worker thread is at. A
step succeeds, fails (`StepFails`) or runs out of device memory
(`DeviceRunsOut`), which is a fatal error exactly in the steps the adapter's
`try` encloses (`FatalSteps`). The guards of `predict_batch()` are `GuardsHold`:
the attributes are set, the batch is not too large, and no text is longer than
the configured limit (`Validates`; of a batch only the `longest` text's length
counts). The warmup passes the same guards with its six characters, and fails
there if the limit is lower (`runtime/config.py:23` allows 1); the texts of a
batch were validated by the HTTP handler before (`api/app.py:202`). `loaded`
counts the steps of `load()` that went through, the warmup's included. `attrs`
are the attributes set so far, `memory` the model's device memory: used, kept by
the allocator, or free. The event loop's side, `Start` to `CloseEnds`, is the
order of calls that `Scheduler` shows: one call at a time, no close after a
failed load or beside an abandoned call.

### Directories: `PublishedDirectory` and `Evaluation`

| Code | Actions |
| --- | --- |
| `train()`: checks, training, `mkdir` | `Begin`, `MakeDirectory` (exclusive), `Abort` for every crash |
| its files, one after the other | `OpenFile` (truncated), `WriteFile` |
| hashes and manifest | `OpenManifest`, `WriteManifest` |
| preparation script | the same with an existing directory allowed and files that appear complete, as the hub client moves them |
| constructor and `load()` of the adapters | `ReadManifest`, `Verify` file by file, `Verified`, `ReadFile` file by file, `Loaded`, `EndReader` |
| `evaluate()` | `BeginEvaluation`, `LoadArtifact`, `Accept` (provenance), `OpenRecord`, `WriteRecord`, `OpenReport`, `WriteReport`, `AbortEvaluation` |

A hash is the content it was taken of. `DamageFile` is anybody who writes into a
published artifact or snapshot, at any time but one: *left out of the model,
because nothing in the code guards it*, is a file that is replaced between a
reader's check of this file and its read (`Trusts`), or between an evaluator's
load and its second reading of `training.json` (`ReadsAgain`), or between a
writer's file and its hash. Evaluators overlap as they like, each with a dataset
and an output of its own; the history variables are `records`, the measurements
that were written as the record, and `overlapped`: an evaluation was begun while
another had checked and not yet recorded. A write over what another evaluator
has written since the truncation leaves the one or a mixture (`Written`).
`prepare()` of the dataset writes its files in the same manner, and is not
modelled apart.

### Training: `TrainingData`, `TrainingLoop` and their operators

`split_rows()` is `Split`: of the rows that read the same to the tokenizer the
first is kept, none if their labels differ; shuffling and cutting a stratum is
the choice of any subset of the size `TrainEnd`, `ValidationEnd`. Those are
`int(n * 0.7)` and `int(n * 0.85)` in doubles; the closed forms were compared
with the arithmetic of doubles for n below 100000 and up to 3000. `Fit` is
`small_subset()` and `vocabulary()`. A text is a sequence of words in lower or
upper case and of what is no word.

`TrainingLoop` names weights by the epoch that made them and lets an epoch have
any outcome; `TrainEpoch` and `Select` are the loop of `train()` and what
follows it. `epoch` is the length of `history`. In `ScoredTraining` an outcome
is what the network predicts for the validation rows, its `Score` their
`macro_f1` and its `Hits` their accuracy, both by `classification_metrics()`.
What is abstracted: the network, the optimizer, and ties that macro F1 in
doubles may break by a unit in the last place (from seven rows on). Scores here
are exact: integers on `Scale`, a common multiple of the denominators that the
rows allow (60 for three rows).

### Benchmarks: `LoadDriver` and `Experiment`

`LoadDriver` follows `run_load()`: `Sleep` and `Wake`, `Drop`, `CreateTask`,
`EndSchedule`, `LeaveWindow`, `LeaveGather`, `Scrape`, `Check`. A request's task
goes through `Start`, `End`, and its done callback, `Discard`, each a turn of
its own. `server` is the set of requests the server has not settled, which the
gauges report (`QueueAgreement` and `CallBelongsToBatch` of the scheduler are
why they tell the truth while the service runs); a request the client gave up
after 5 s is taken to have reached the server before.

`Experiment` follows `experiment()` per attempt: `CheckOutput`, `MakeDirectory`,
`Spawn`, `PollReady`, `Warm`, `RunLoad`, `Open`, `WriteRows`, `Fail`,
`StopServer`, `Conclude`; `KillAttempt`, `Bind` and `ServerDies` are the
environment's. `write_json()` truncates before it writes, in two steps.

## 3. Runs

| Run | Instance | What it shows |
| --- | --- | --- |
| `SchedulerTimed` | timed, 3 requests, batch 2, capacity 2, deadline 2, window 1 | `QueueAgreement` (no tombstones, nobody lost), `BoundedWork`, `SleepingDriverWakes` (no lost wakeup), `ExpiredIsOverdue`, `OwnPrediction`, `NothingLeftBehind`, `OutcomeRecordedOnce`, `NoOvertaking` (FIFO), `OnlyLiveWorkStarts`; the refinement `ImplementsLifecycle` |
| `SchedulerShutdown` | single, 2 requests, capacity 1, grace 2, watchdog 1, handlers that are new or have used up their deadline, with fairness | `OpenDoorIsServed`, `CallBelongsToBatch`, `ReplyMatchesOutcome`, `ReadinessIsNotRegained`; the refinement `KeepsSubmitContract`; `EveryCallerAnswered`, `ShutdownEnds`, `HungWorkerUnready` |
| `SchedulerDrainWindow` | window 3, grace 1 | finds `DrainNeverSleepsOnWork` violated |
| `PredictHandler` | 2 connections, pieces of 0 to 2 bytes, limit 2, with fairness | `TypeOK` (the buffer keeps its limit), `NothingOutlivesTheHandler`, `FinishedPredictionIsAnswered`, `StatusTellsFate`, `AbsenceIsNoticed` |
| `AdapterLifecycle` | 3 adapters, CPU and CUDA, text limits 5, 6 and 7, batches up to 8 of texts of 1, 6 or 7 characters | `LoadedWhileUsed`, `CloseReleases`, `CaughtLossEndsService` |
| `AdapterHuggingFaceOom` | the Hugging Face adapter | finds `LostDeviceEndsService` violated |
| `Evaluation` | artifact or snapshot of 3 files, 2 writers, 3 readers of which 2 evaluate, one of them twice | `ReadersGetWholeWork`, `OnlyOverlapReplaces`, `ReportsAreTheRecord`; the refinement `ImplementsAtomicPublication` |
| `EvaluationOverlap` | the same | finds `NeverReplaced` violated |
| `TrainingData` | every corpus of 4 rows, of 6 texts with 2 labels or a row of another domain; 2 words per text, 2 in the vocabulary | `SplitIsSound` (no leakage), `EveryStratumIsTested`, `TextIsSound` (types, the vocabulary is of fitted rows only, padding changes no row) |
| `TrainingLoop` | 5 epochs, patience 3, every prediction for 3 validation rows | `SelectionIsSound`, `ScoresMatchDefinition` (of every labels the rows may have, classes that none has included) |
| `LoadDriver` | 4 arrivals, budget 2, one more poll, steady and burst, with fairness | `ReportedRunsPassAudit`, `NothingLeftToTheNextRun`, `RunEnds` |
| `Experiment` | 3 attempts on one port, 2 of them at the same output, 2 policies, 2 runs each | `AcceptedReportsAreComplete`, `NoServerLeftBehind` |

*Bounds.* `MaxTime` of `Scheduler` bounds when requests may arrive and the idle
clock; timers that are set may fire after it, so no deadline, window, grace
period or watchdog is cut off. Three requests with a batch of two and a capacity
of two are the least with which a queue is full while a batch runs, a batch is
partial, a member leaves a batch whose others succeed, and a younger request
could overtake. Two ticks of deadline allow a request to expire in the queue, in
the batch, between admission and waiting, and during the completion of its
batch. Of the two runs the first has a sleeping driver and batches of two when
shutdown comes, the second a request queued behind a call that hangs; callers
are answered by timers of their own and shutdown by the grace period whatever
the policy, so that liveness is checked with single requests. The grace periods
let shutdown meet a queued call, a running call, a sleeping driver and a driver
that is just done.

`PredictHandler`: the requests share nothing, so a second one only shows that;
a limit of two with pieces of zero to two has a body that reaches it, one that
passes it with its last piece, and empty pieces. `AdapterLifecycle` has no bound
but the batch size of the smallest limit; its text limits are one below, at and
above the length of the warmup. `Evaluation`: two writers are the
least that interfere, and a crashed one may come again as the same or as the
other; the reader that does not evaluate is a service; `MaxRuns` lets one
evaluator be killed, or end, and come back while the other is under way. Of
the artifact's four files three are enough, since nothing tells the vocabulary
from the configuration. `TrainingData`: four rows hold a conflict, a duplicate in
another spelling, an empty row and two strata at a time. `TrainingLoop` has 5
epochs and patience 3 for the code's 25 or 50 and 7: patience can run out
before, at, or not before the last epoch; the proof removes the bound.
`LoadDriver`: four arrivals and a budget of two allow a drop for either reason
between requests that are sent, a burst, and a wait that fails. `Experiment`:
the second attempt may begin before, while or after the first one writes.

*Fairness.* It is stated per module and only for what is scheduled.
`LiveSpec` of `Scheduler`: the event loop runs every callback that is ready and
time passes: weak fairness of each action of the loop and of `Tick`. Not
assumed: that a request arrives, that a caller cancels, that shutdown begins,
that the thread starts or finishes a prediction. `ShutdownEnds` needs that
`close`, once it is called, returns (`AdapterCloses`): the code waits for it
without a limit. `LoopSpec` of `PredictHandler`: the loop's steps of each
request; nothing of the client or of the scheduler's answers, so
`AbsenceIsNoticed` holds even behind a scheduler that never answers. `FairSpec`
of `LoadDriver`: time, the driver, and the requests, which httpx ends after 5 s;
nothing of the server.

*Deadlock* is checked except where a process ends by itself (`Evaluation`,
`TrainingData`, `TrainingLoop`, `LoadDriver`, `Experiment`), as each
configuration says.

*Disagreements between documents and code.* Three have runs that expect a
violation:

- `SchedulerDrainWindow`: shutdown "allows accepted work to finish within the
  grace period and its existing deadlines" (`docs/REQUIREMENTS.md:190`); the
  draining driver still waits for the collection window, so with a window longer
  than the grace period accepted requests fail beside an idle worker.
- `AdapterHuggingFaceOom`: "CUDA out-of-memory or unusable worker: fail the
  batch, mark unavailable" (`docs/REQUIREMENTS.md:187`); `huggingface.py:160`
  and `:170` allocate on the device outside the `try` that makes the error
  fatal, so the service stays ready and runs the next batch.
- `EvaluationOverlap`: "evaluation refuses to replace an existing evaluation"
  (`README.md:155`); `training/evaluate.py:17` looks for one at the start and
  line 59 writes the record without looking again, so of two evaluations that
  overlap the later replaces the record of the earlier, whose report then is not
  the record. What the check does keep is `OnlyOverlapReplaces`.

Met while modelling, without a run:

- Status 504 is documented as "Accepted request exceeded server deadline"
  (`docs/REQUIREMENTS.md:141`); `submit()` raises the same error for a request
  that is overdue before admission (`scheduler.py:110`).
- The active-batch gauge is described as "Submitted or running batches"
  (`observability/metrics.py:25`); after a shutdown that gives up a call it is 0
  while the call still runs (`scheduler.py:286`).
- Strata are documented to be split at floor(0.70*n)
  (`docs/models/CUSTOM_SENTIMENT.md:38`); `int(len(group) * 0.7)`
  (`training/data.py:43`) is 62 for 90 rows, not 63.
- "One server runs at a time" (`docs/BENCHMARKS.md:12`); the server of a killed
  attempt keeps the port and answers the readiness poll of an attempt at another
  output (`benchmarks/experiment.py:97`), whose own server may still be loading.
  The run `Experiment` has such attempts; `AcceptedReportsAreComplete` allows a
  server that is not the attempt's own only if it is of another output.

## 4. Proofs

For every value of the constants that satisfies the assumptions of the modules.

| Theorem | Statement |
| --- | --- |
| `Invariance`, `TypeCorrect` | `IInv`, `TypeOK` of `Scheduler` |
| `QueueAgrees` | `QueueAgreement` |
| `OutcomesRecordedOnce` | `OutcomeRecordedOnce` |
| `NothingExpiresEarly` | `ExpiredIsOverdue` |
| `EveryPredictionIsOwn`, `RepliesMatch` | `OwnPrediction`, `ReplyMatchesOutcome` |
| `DoorIsServed`, `CallsBelong`, `NothingIsLeftBehind` | `OpenDoorIsServed`, `CallBelongsToBatch`, `NothingLeftBehind` |
| `SchedulerImplementsLifecycle` | `Spec => Lifecycle!Spec` |
| `ContractIsKept` | `Spec => Contract!Spec`: the contract `PredictHandler` is built on |
| `EndedForGood`, `ReadinessLostForGood` | `ResolvedForGood`, `ReadinessIsNotRegained` |
| `ResolvedOnceAlways`, `EndIsFinal` | of `RequestLifecycle` |
| `WorkIsBounded`, `DriverWakes` | `BoundedWork`, `SleepingDriverWakes` |
| `NobodyOvertakes`, `OnlyLiveWorkIsStarted` | `NoOvertaking`, `OnlyLiveWorkStarts` (of steps) |
| `TypeCorrect`, `NothingOutlives`, `FinishedPredictionsCount`, `StatusIsTrue` | `TypeOK`, `NothingOutlivesTheHandler`, `FinishedPredictionIsAnswered`, `StatusTellsFate` of `PredictHandler` |
| `LoadedAndGuarded`, `OrderlyCloseReleases`, `CaughtLossIsFinal` | `LoadedWhileUsed`, `CloseReleases`, `CaughtLossEndsService` of `AdapterLifecycle` |
| `SelectsEarliestBest` | `SelectionIsSound` of `TrainingLoop` |
| `WholeWorkOrNothing`, `PublicationIsAtomic` | `ReadersGetWholeWork` and the refinement, of `PublishedDirectory` |
| `ManifestTellsTheTruth` | `ManifestDescribesFiles` of `PublishedDirectory` |
| `EvaluatedWorkIsWhole`, `EvaluatedPublicationIsAtomic` | the same under `SpecEvaluation` |
| `RecordIsReplacedByOverlapOnly`, `ReportsRepeatARecord` | `OnlyOverlapReplaces`, `ReportsAreTheRecord` |
| `NoLeakage`, `StrataAreTested`, `TextIsOfItsRow` | `SplitIsSound`, `EveryStratumIsTested`, `TextIsSound` of `TrainingData` |
| `VocabularyIsByFrequency` | `vocabulary()` of any texts is the most frequent words, in order, none twice |
| `ScoresAreHarmonicMeans` | `ScoresMatchDefinition` of `ScoredTraining` |
| `EveryReportPassesAudit`, `ServerIsLeftIdle` | `ReportedRunsPassAudit`, `NothingLeftToTheNextRun` of `LoadDriver` |
| `NoServerIsLeft`, `AcceptedReportIsWhole` | `NoServerLeftBehind`, `AcceptedReportsAreComplete` of `Experiment` |

*Scheduler.* For every set of requests (finite or not), every policy, size,
delay and bound that satisfies `PolicyAssumption`, `SizeAssumption` and
`TimeAssumption`, the ranges `runtime/config.py` enforces. The safety properties
are not inductive one by one. That the deque holds exactly the pending envelopes
needs that an envelope outside the batch is not running, which at the end of
`_execute()` needs that every member `_finish_batch()` has passed is no longer
running (`BatchSound`); that `_fail_all()` forgets nobody needs the same
agreement; that a caller's reply is true needs that its future was resolved as
its state says (`OutcomeRecordedOnce`); that close is not queued behind a call
needs that `abandoned` still says what `_active_batch` said when the grace
period ended (`DriverSound`). `IInv` conjoins them. The proof follows the code's
structure: lemmas on the operators (`RetainedProperties`, `SplitQueue`,
`ReclaimEffect`); what one turn does to one request (`Quiet`: left alone, or
ended other than by success and not too early); that every step is quiet for all
requests except an admission, a dispatch and the completion of one member
(`Turns`); and from there each conjunct of `IInv` (`RequestSoundStep`,
`QueueStep`, `BatchStep`, `NothingLeftStep`, `ControlStep`). The same lemmas
give the refinement of `RequestLifecycle`. The one of `SubmitContract` adds that
a step moves the caller of one request at most (`CallerMoves`), and treats that
request (`ContractOfCaller`) and the others (`ContractOfOthers`) apart.

*The queue.* `QueueInv` adds to `IInv` that the queue and the batch keep their
bounds and that the queue is in the order the clock gave its members
(`QueueInOrder`), that no turn of the driver overlaps a submission
(`TurnsAreWhole`), and `SleepingDriverWakes` itself. Without the order the alarm
could be computed from a head that is not the oldest; without whole turns an
admission inside a turn could leave a sleeper with an old alarm. That
reclaiming keeps the order is a lemma on `Retained`; `BoundedWork` is then the
cardinality of what is queued and what is in the batch, and `NoOvertaking` and
`OnlyLiveWorkStarts` are facts on steps that start in `QueueInv`.

*HTTP handler.* The requests share nothing, so the invariant is one of each
(`RequestSound`): what the prediction, the poller, the call and the verdict may
be at each place of the handler (`HandlerSound`), of the prediction task
(`PredictionSound`), and once a verdict is taken (`VerdictSound`). That nothing
outlives a handler needs that a poller that is done means a client that is gone,
and that a verdict of absence was taken before the call could end otherwise. A
step of one request leaves all others alone (`StepIsOfARequest`).

*Adapters.* `LoadedWhileUsed` is not inductive: that a step finds its attributes
needs which calls may run in which phase of the service (`CallSound`), and how
far a load or a close has come when it ends or fails (`AttrsSound`). That
serving means a load with all its steps needs that `loaded` counts them while
the call runs, and that the warmup's guards hold exactly if the limit allows its
six characters (`LoadSound`): no assumption excludes the limits below, with
which the service never opens its door. `CloseReleases` needs the same of device
memory (`MemorySound`), and `CaughtLossEndsService` that a lost device is known
to the scheduler or about to be reported (`LossSound`). The lemmas state, per
adapter, what each step of each call is; the proofs go through the steps of a
call.

*Training loop.* `SelectionInv` says at every epoch what the best score, epoch
and weights are of the history (`BestSoFar`) and what the phase implies of them
(`PhaseSound`); without the second, that an exported epoch beats the baseline
and that patience was kept are not inductive.

*Scores.* `DenominatorCounts` shows that the denominator of F1 counts the rows
that are predicted and those that are actual, hits twice, for any number of
rows. `ScaleAssumption` says that the denominators up to twice the rows divide
`Scale`, so that the ratios are exact (such a number exists for every number of
rows: the product of them all), and F1 is the harmonic mean (`F1OfMultiples`). A
class that is neither present nor predicted has no such equation, 0 = 0 would
say nothing: it is stated, and proved, that its F1 is 0, and the statement is of
any labels, not only of those of the instance. `PredictionAssumption` ties the
outcomes of `TrainingLoop` to predictions; TLC evaluates it on the instance.

*Split.* `DataInv` says that the rows are split once, into parts of the sizes of
the cuts, before anything is fitted. Two kept rows that read the same are each
the first of the same group; that a group has a first is `MinOfNumbers`. A
stratum without a test row would be its training and validation rows, so as many
as the second cut, which is less than the stratum (`SomethingIsHeldOut`).
`SplitIsSound` and `EveryStratumIsTested` hold whatever `tokens()` and the first
cut are. `RowAssumption` (a corpus is a list of texts) and `SampleAssumption` (the
small profile takes at least one row of a stratum; it takes 200) are all they
need.

*Text.* `tokens()` and `vocabulary()` put a finite set in an order: the words of
a text by place, those of the fitted rows by count and then by word. `InOrder` is
the sequence whose k-th element has k - 1 before it. That every place is taken
(`PlacesAreTaken`) needs that the ranks of the members are different and fewer
than the members, and the pigeonhole principle; from it follow what the two
functions return (`TokensType`, `VocabularyType`), that the vocabulary is of
words the fitted rows have (`VocabularyOfRows`), no longer than `MaxWords`, and
that it has the most frequent of them in their order (`VocabularyIsByFrequency`).
An encoded row is never empty nor longer than `MaxLength` or one, and never has
the padding's index (`EncodeType`); so the width of a batch is a maximum that
exists, and padding changes neither the bag of a row nor its size
(`PaddingIsNotPooled`). `LengthAssumption` only says that the two limits are
numbers: the code's are 256 or less than 2049, and 9998.

*Directory.* Three facts carry `DirectoryInv`. A writer in an exclusive
directory is alone and what it has written is there (`WriterSound`), so the
hashes it takes are its whole work (`HashesAreWork`); in a shared directory
every writer writes the same (`SharingAssumption`: the snapshot is pinned), so
they are too. From the moment the manifest is opened no writer changes what it
describes (`PublishedForGood`). Hence what a reader has checked stays true until
it has read it (`ReaderSound`). Opening the manifest is the abstract `Publish`,
the end of a load the abstract `Take`, and all other steps stutter.

*Evaluation.* Every step of an evaluator is a reader's step or leaves the
directory alone (`EvaluationIsReading`), so the directory's theorems hold of
`SpecEvaluation`. Nothing is assumed of when evaluations begin. The first of the two
invariants, `EvaluationInv`, holds however they overlap: an evaluator that has
measured read the weights the manifest names, on the training's rows, and
reports only what it has written as the record (`EvaluatorSound`), so every
record and every whole report is such a measurement (`RecordsSound`,
`ReportSound`), which `PublishedForGood` keeps true. The second, `ApartInv`,
is of behaviours in which no evaluation was begun between another's check and
its record: then one evaluator is under way at most, its label tells what the
record is (`RecordAt`), and nothing that was written whole is touched again.

*Load driver.* Of each arrival the invariant says how many rows it has at
each stage of its task (`RequestSound`): none before it is scheduled or while it
is under way, one of a drop if it never had a task, one of a response once it
has ended. `BudgetSound` bounds the tasks by the peak and the peak by the budget,
`PhaseSound` says that no arrival is left after the schedule, no task after the
gathering, and that the gauges were zero when the run reports, from when on
nothing reaches the server. The audit's count of rows is then a sum over disjoint
sets. `ResponseAssumption` (a row of a response is not a row of a drop) holds of
the literals in `load.py:92-109`, `142` and `168`.

*Experiment.* `AttemptInv` holds with any outputs: where an attempt has no
server, and from where on it has made its directory (`AttemptSound`).
`ReportInv`, which the report needs, is one invariant per output
(`OutputSound`): either nobody has made its directory, or one attempt did and all
others at that output are bystanders without server, rows or report
(`Bystander`). The writer's rows are numbered by policy and run (`RowIs`),
complete for the policies it is past (`ProgressSound`), and in a report with its
provenance only when it is done (`ReportSound`). Nothing is assumed of the
outputs: an attempt at another one leaves the directory alone (`OtherOutputs`),
but its server may hold the port, so a row is measured on the writer's own server
or on one of another output; bystanders have none. Two policies of one name would
share their raw files (`PolicyAssumption`).

*Only model-checked.* The liveness properties of `Scheduler`, `PredictHandler`
and `LoadDriver`: fairness and ENABLED are out of the prover's reach. Every
safety property of the passing runs is a theorem.

## 5. Plan

The modules of the plan are written, and every safety property of the runs is
proved. What remains is to widen the model: the statistics of a report as pure
operators, and what the gauges of the service say while it runs.

## 6. Not modelled

- Arithmetic of the networks, the optimizer and the tokenizer of the Hugging
  Face model; the shape checks on a manifest's JSON.
- The statistics and charts of `report.py` (among them a mean over no samples at
  line 98 when a run ends before the second sample), the percentiles and rates
  of `load.py`, the summary of texts in `workload.py`: pure functions of the
  rows, no state.
- Formatting of JSON, metrics, logs and headers; the read-only routes.
- `create_portfolio_media.py` (drawing), the container and CI.
- The registry, the contracts and the settings, beyond the ranges stated as
  assumptions on constants and the rejections of `PredictHandler`: immutable
  data.

`PROJECT.json` lists every part of the repository with its status and the
reason.
