# Verification of the ML inference platform

TLA+ models of the parts of this repository whose correctness depends on the
order in which things happen. On the serving side: the audit log, the rate
limiter, the partitioned audit table and its maintenance, the batch worker, the
start-up of a replica, the model registry and the path of a classification
request through the shared result cache. On the side that makes what is served:
a distributed training run, the dataset downloads, the similarity index, and the
release - export, quantisation, publication, benchmark sweep and regression
gate. TLC checks each on small instances; TLAPS proves the properties that
matter most for every value of the constants.

Contents: 1 the system, 2 the modules, 3 the runs, 4 fairness, 5 the proofs,
6 where the code and its documents disagree, 7 what is not modelled, 8 the plan.

## 1. The system

The repository trains classifiers, detectors and embedders (`models/`) on
datasets it downloads (`scripts/setup/`), publishes them as ONNX artefacts
(`scripts/prepare_artifacts.py`), and serves them from several identical
replicas of a FastAPI service (`api/`) that share Redis (result cache,
rate-limit windows, Celery broker and results) and Postgres (the
`inference_logs` audit table). A Celery worker (`worker/`) runs batch jobs, and a
scheduled job (`scripts/maintain_partitions.py`) keeps the partitions of the
audit table.

| Component | State it keeps | Operations | What makes it correct |
|---|---|---|---|
| Audit log (`api/services/audit_service.py`) | bounded queue, writer task, stop event, write lock, counters | `record`, `start`, `stop`, `flush`, the writer `_run` | every accepted record has exactly one outcome, is inserted at most once, in order; shutdown leaves none behind and returns |
| Rate limiter (`api/middleware/rate_limit.py`) | one sorted set per caller in Redis | `check` (a Lua script), `reset`, expiry | no window holds more than the limit; an honest `Retry-After`; rejections cost nothing |
| Audit table partitions (`migrations/versions/20260914_1800_…`, `scripts/maintain_partitions.py`) | monthly partitions and DEFAULT, a Prometheus gauge | upgrade, downgrade, create, drop, push | no row dropped within retention, retention applied, DEFAULT empty while the job keeps up |
| Batch jobs (`api/routers/batch.py`, `worker/`) | broker queue, result backend, an attempt per worker process | submit, process, acknowledge, status | no job lost or stuck; a job reported completed is whole and stays so |
| Replica start-up (`api/main.py`, `api/services/model_service.py`, `runtime.py`) | connections, loaded models, preloaded libraries | connect, load with fallback, serve | a model runs on the backend it is labelled with; what cannot be had is done without |
| Health (`api/routers/health.py`) | none, but several awaits | `/health`, live, ready | what it says was true during the probe |
| Model registry (`api/services/model_service.py`) | loaded models, the active version | register, promote, resolve | the active version is loaded; a pin gets its version or an error |
| Experiments (`api/services/experiment_service.py`, `models/validation/ab_testing.py`) | the experiment per model | load, assign | users keep their arm; no traffic goes to a version that is not loaded |
| Inference (`api/services/inference_service.py`, `api/routers/classification.py`) | locals of a request between awaits | `classify` and its endpoint | response, audit row and counter agree on version, backend and variant |
| Result cache (`api/services/cache_service.py`) | Redis keys with a time to live | `get`, `set`, `delete` | a result is served only to requests it answers |
| Similarity search (`api/services/similarity_service.py`, `scripts/build_similarity_index.py`) | index, manifest and metadata files; what a replica read of them | build, append, relabel, load, query | an answer describes the row it names |
| Training (`models/training/`) | per rank: model, optimiser, loop counters; checkpoints, weights, the `latest-epoch` link | train, evaluate, checkpoint, resume | the link names a complete checkpoint; an early exit keeps the work; ranks never wait for ever |
| Datasets (`scripts/setup/download_datasets.py`, `models/data/tiny_imagenet.py`) | `.part` files, archives, a staging directory, dataset directories | fetch, verify, extract, restructure, move, load | what is in place is whole; labels are right |
| Export, quantisation, benchmarks (`models/optimisation/`, `scripts/verify_exports.py`) | graphs and sidecars, the working directory, reports | export, inline, compare, quantise, time | a graph can be opened; what is published was compared with its weights |
| Release gate (`scripts/check_regression.py`, `models/validation/regression.py`) | the recorded baseline | check, update | no metric leaves the gate unnoticed |
| Authentication (`api/middleware/auth.py`) | an API-key table filled at start-up | verify, issue | an unknown tier falls back to the least privileged |
| Detection (`api/services/detection_service.py`) | none | one forward pass per request | offered only with a loaded model |

How they interact: the middleware calls the rate limiter, then the router; the
router resolves experiment and version in the registry, awaits the upload, and
calls the inference service, which calls the cache, the registry's session, the
cache again, and hands one record to the audit log. The audit log inserts into
the table whose partitions the maintenance job creates and drops. The batch
endpoint publishes to the worker, which has its own registry and inference
service. Training leaves a run directory; export, quantisation and publication
turn the latest one into the artefacts of a version; the sweep times those, and
the gate compares run, artefacts and report with the baseline. A replica reads
the artefacts, the index and the experiments at its next start-up.

What is hard to test: steps of coroutines between awaits (audit log, requests,
health probes); steps of several processes on one Redis or Postgres (limiter,
cache, partitions, worker) or in one collective (training); replies that are
lost after their effect (limiter, audit commits, cache writes); processes killed
between two writes (worker, training, downloads, index, release); redelivery of
a job already done; calendar and window boundaries; and replicas that loaded
different things. `PROJECT.json` lists these hazards, each at its line, with the
properties that cover it.

## 2. The modules

The definitions carry the names of the code where TLA+ allows it, and
`PROJECT.json` maps each to its lines. A definition `D_Something` (or
`Something_WhatIsWrong`) is a faulty version of `Something` that no
specification uses: replaced by it, a run finds the property violated, which
shows that the property depends on that piece of code.

**AuditTrail** is the abstract specification: a set of pending records, each
batch of which gets one outcome (written, failed, abandoned at the shutdown
timeout), or a record is dropped as the buffer makes room.

**AuditService** is the code, step by step between suspension points of the
event loop. `queue` is the `asyncio.Queue`; `getter` the result of the getter
task that `_collect` waits for, which holds a record in neither the queue nor a
batch; `hand` each coroutine's local `batch`; `pc` where it is suspended;
`task`, `stopping`, `locked`/`waiters` are `_task`, `_stopping` and
`_write_lock` (which wakes waiters in order); `rows` is the table and `stats`
the counters. `Record` is `record`; `GetterTakes`, `CollectReturns`,
`CollectReturnsEmpty` are `_collect`; `WriterAcquires` and `WriterFinishes` the
rest of `_run`; `DrainTakes` and `DrainFinishes` are `_drain`; `Start`,
`StopAsks`, `StopTimesOut`, `WriterUnwinds`, `StopJoins`, `StopDrains` are
`start` and `stop`; `FlushCalled`, `FlushAcquires` are `flush`. A commit that
raises may have landed. `lost` and `before` are history variables.
Assumptions: the service is the enabled one (the disabled one returns at once);
`start` and `stop` are called by one coroutine; `SHUTDOWN_TIMEOUT` strikes only
while the writer is suspended in a commit (its other waits last a few turns of
the loop once the stop event is set); the process is not killed outright (what
is in memory is then gone, as the module's docstring accepts).

**RateLimiter** models one caller (keys are independent). `Send` reads the
replica's clock (`now_ms`), possibly skewed; the Lua script then runs atomically
as `Admit` or `Reject`, at most `MaxLag` later; its reply may be lost, in which
case `check` fails open although the script ran; `FailOpen` is a script that
never ran; `Reset` is `reset`; `Tick` advances time and expires the key.
Milliseconds are ticks, and the second and the grace of `PEXPIRE` are constants.

**Partitions** models the migration, its downgrade, the two SQL functions and
the job, while the API inserts rows and months turn. A partition is its month.
A maintenance run is one transaction: it reads `CURRENT_DATE` at `RunBegins` and
ends as `RunCommits` (create, drop, and the push of the gauge, which may fail),
`RunIsRefused` (`CREATE … PARTITION OF` raises because DEFAULT holds rows of the
range) or `RunBreaks`. Assumptions: a row's `created_at` is the time of its
insert, and a run does not outlast the month after the one it began in.

**BatchJobs** models submission, the task and the status endpoint; broker and
result backend are external and modelled from `worker/celery_app.py`: late
acknowledgement, rejection when a worker is lost, redelivery when the broker
loses the connection of a worker that goes on, soft and hard time limits,
expiring results, and a backend that ignores updates to a task that succeeded,
which takes two calls: `Looks` reads what is stored, and `Sets`, a step of its
own, replaces it, whatever another attempt has stored in between. A status
response is up to three reads of the backend (`AskState`, then `AskInfoType` and
`AskInfo`, since `result.info` is evaluated twice).
Assumption: at most `MaxLosses` workers and connections are lost.

**ModelRegistry** models the files of each classifier version (a file is the
number of the training run it came from), a publication that writes labels, FP32
and INT8 one after another and may stop in between, `Startup` of a replica with
the fallback chain and the experiments, promotion, and resolution.
Assumptions: one publication at a time; a start-up reads the files at one
instant; versions other than the default may fail to load on one replica and
not on another.

**Inference** extends it with requests: `Receive` (experiment and pin),
`UploadTooLarge`, `Validate` (image, version, backend), `Hit`, `Miss`,
`FindsUnparsable` with `Drop`, `FindsMisshapen`, `Run`, `RunFails`,
`DecodeFails`, `Store`, one per stretch of code between two awaits; a promotion,
a stop, another replica's request or a damaged cache entry may come between any
two. Predictions are the record of what they were computed from, so "stale" and
"of another model" are visible. The audit record and the labels of
`inference_requests_total` are state. A replica without Redis is one whose every
Redis call fails.

**ReplicaStartup** looks inside one start-up, which is one step of
ModelRegistry: `CreateRedis` and `CreateDatabase` (which give up without
failing), then for each model `ReadMetadata`, `TryCandidate` along the fallback
chain and `NoBackend`, then `LoadExperiments`. A host says which execution
providers its ONNX Runtime has registered, whether it has a GPU, and which
libraries resolve without or with a preload; `preloaded` is `_PRELOADED`, which
is set once per process by whichever session comes first. `HealthBegins`,
`PingCache`, `HealthAnswers` are `GET /health` between its awaits; `Toggle`
brings Redis or Postgres up or down at any time; `probe.seen` and `probe.missed`
remember what was up and down during a probe.

**Training** is `run` of `pipeline.py` on every rank of a job: `TrainBatch`,
`SkipBatch` and `Abort` (a finite or a non-finite loss), the collectives
`AllReduce`, `Gather` and `Barrier`, each of which needs every rank at a
collective of its kind, `CheckSignal` and `ExitCheck` (the two places where the
SIGTERM flag is read), and `_save_checkpoint` as `MakeDir`, `BeginState`,
`EndState`, `BeginWeights`, `EndWeights`, `MakeLink`, `ReplaceLatest`;
`WriteSummary` is the run summary of `train.py`. `Crash` kills the job at any
step; `Launch` starts it again in the same directory (its name follows from other
parts of the configuration), fresh or with the model `latest-epoch` holds; the
epochs it counts come from `start_epoch_at` and not from the checkpoint, and since
a schedule that does not start at 0 cannot be constructed (`Starts`, section 6),
every run that gets to its loop counts them from 0, so a resumed run writes its
checkpoints over the earlier ones. `Batches` are those of the whole split, which
`StepsPerEpoch` counts, and `Share` those a rank gets of them; the scheduler is
stepped with each gradient step (`step_schedulers_every_batch`, the default). Weights are abstracted to the launch and the
number of optimiser steps they come from. `again` notes the checkpoint
directories that were written a second time, in place.

**Datasets** is `download_datasets.py`, request by request and chunk by chunk
(`Request`, `Receive`, `Rename`, `Verify`, `Extract`, `Prepare`, `Move`), with a
`Kill`, a `CutTransfer`, a file replaced upstream (`Republish`) and a tree
unpacked by hand (`PlaceByHand`); and `LoadData`, what `tiny_imagenet.py`
accepts. An archive is the sequence of the versions its chunks came from, so an
archive pieced together from two versions is visible; a tree is the directory
each image is in.

**SimilarityIndex** is the three scripts that write the index (`Build`,
`Append_`, `Relabel`, each a list of writes that `Write` carries out one by one
and `Kill` can end), and a replica that loads it (`LoadEmbedder`, `ReadIndex`,
`ReadManifest`) and answers (`FindSimilar`, for every order of rows a search can
return). A row is the image it was computed from. `Corrections` are the
relabellings somebody asks for, each an image and its class: `Relabel` is given
the row of that image, so a wrong row number typed by an operator is left out. `began` is history: the number
of scripts that had ended when the replica began to read.

**Release** is the artefact directory of version v1 and the scripts that write
it, as a list of stages: `Publish`, `WriteLabels`, `CopyMetrics`, for each FP32
graph `WriteGraph`, `Inline`, `Unlink`, a `Verify…` step, and for each INT8
graph `PreProcess` and `Quantise`. A numerical difference is one of three:
within every tolerance, between that of the detector's exporter and that of the
check, beyond both. One failure or kill may come anywhere. `VerifyExports` is
`verify_exports --check`.

**Gate** extends it with the benchmark sweep (`Bench`, `MeasureCosts`,
`TimeCases`, `WriteQuantization`), which shares the artefact directory with
publication, and with the regression gate (`CheckRegression`, `UpdateBaseline`),
whose rules are arithmetic on integers (percentages). `reviewed` is a history
variable: every baseline so far was that of a run that had just passed.

`MC*` modules give the constants for TLC. `*Proofs` modules hold the theorems.
How they compose: `Inference` EXTENDS `ModelRegistry` and `Gate` EXTENDS
`Release`; `AuditService` implements `AuditTrail` through the refinement mapping
`Trail`; the other components meet through data one of them owns, which appears
in the other as an environment action (rows inserted into `Partitions`; files
read by `Startup`; training runs that end, as `Train` of `Release`) or as a
constant (the disks of `ReplicaStartup`).

## 3. The runs

Run any of them with `tlc -config <cfg> <module>`. "States" are distinct states.

| Run | What it asks | Bounds, and why they are enough |
|---|---|---|
| `audit_production` (`AuditProduction.cfg`) | As the API uses the service (a writer, start and stop, no flush): rows appear in the order of the requests (`RowsInOrder`); a full queue drops only records older than the queue is long (`NeverDropsRecent`); every step is a step of the abstract trail (`ImplementsTrail`). | Queue 2, batch 2, 5 records: enough to fill a batch, the getter and the queue at once and drop one more, and to restart the writer after a timeout. 69,527 states. |
| `audit_flush` (`AuditFlush.cfg`) | Two flushes against writer, stop, timeouts and restarts: no record twice (`NoRecordTwice`), none uncounted (`EveryRecordCounted`), `stop` and `flush` do what their callers rely on (`SettledOnReturn`), and all of it ends (`RecordSettles`, `CallsReturn`). | Queue 2, batch 2, 2 records: a full batch (the drain goes round) and a partial one, three coroutines waiting for the lock. 61,548 states. |
| `rate_limit` (`RateLimit.cfg`) | The quota over the window less a request's lag (`QuotaHolds`), an honest `Retry-After` (`RetryAfterHonest`), rejections that cost nothing (`NoFalseRejection`). | Limit 2, window 3, a second of 2 ticks (so rounding matters), lag and skew 1, 7 ticks: two windows, a key expiry, two requests in flight out of order. 145,489 states. |
| `partitions` (`Partitions.cfg`) | No row leaves within retention (`NothingDroppedEarly`); what is outside it goes and does not come back (`RetentionApplied`); DEFAULT stays empty while the job is at most its months-ahead behind (`DefaultUntouched`). | One month ahead, one retained, five months, three rows, two overlapping runs: rows before the migration, inside retention, expired and in DEFAULT exist together. 18,167 states. |
| `batch_jobs` (`BatchJobs.cfg`) | No job is lost (`NoJobLost`); "completed" comes with whole counts (`CompletedIsWhole`) and stays, unless an update of the other attempt was on its way when the success was set (`CompletedStays`); every job gets a result (`JobFinishes`). | One job of two items on two workers with two losses: the job runs twice at once, one attempt ends while the other is mid-way, and its worker is lost too; either sets an update between the other's look and set. Jobs share no state but the workers. 863,927 states. |
| `inference_cache` (`InferenceCache.cfg`) | Predictions belong to the image, options, version and backend the response names (`ProvenanceTrue`); a version is loaded from its own files (`VersionsNotMixed`); types, and the active version is a loaded one (`TypeOK`). | Two replicas that may fall back to different backends, two requests with different options, two versions, one publication (with and without `--force`, interrupted or not) besides the first, two start-ups. 830,911 states. |
| `inference_routing` (`InferenceRouting.cfg`) | Response, audit row and counter agree (`AuditAgrees`); only pins are not found (`OnlyPinsNotFound`); a user keeps the arm (`UserStaysOnArm`). | The 90/10 rollout of `docs/operations.md`, users on both arms, pins of a version and of a backend, a bad image, two replicas of which either may fail to load v2, three start-ups. 1,232,427 states. |
| `replica_startup` (`ReplicaStartup.cfg`) | Every loaded model runs on what it is labelled with, whatever the host offers, save for the one label that is wrong: `torch`, on detector and embedder (`BackendHonest`); what `/health` says was true during the probe (`HealthTruthful`). | Every backend setting with and without degradation, six hosts (no GPU image, no GPU, all wheels, CUDA's only, none, system libraries), seven artefact directories (whole, INT8 only, damaged, without labels or index, classifier only, empty, bad experiments). 88,360 states. |
| `training` (`Training.cfg`) | `latest-epoch` names a complete checkpoint (`LatestIsWhole`); an early exit keeps the model (`EarlyExitKeepsWork`); the metrics describe the exported weights (`MetricsDescribeWeights`); no rank steps its schedule beyond its length, and one process alone uses it up exactly (`ScheduleSpansRun`); undisturbed ranks never wait for ever (`RunEnds`). | One or two ranks, two epochs of four batches (two for each of two ranks), two launches (fresh, again, resumed), three mishaps in all (non-finite losses, signals to a rank, deaths of the job; two of the first in a row abort it), and two configurations: the default, and evaluation by batches with saves every second epoch and accumulation over three batches, whose last window is short. 557,868 states, one minute. |
| `datasets` (`Datasets.cfg`) | What is moved into place is whole and, with a checksum, the published version (`TrustedIsWhole`); an accepted tree is labelled right (`LoadedLabelsTrue`); repeated runs finish unless a complete `.part` is stuck (`DownloadsFinish`). | A dataset with a checksum on a server that honours Range and one with a second archive on a server that ignores it, archives of two chunks, two versions upstream, three images in two classes, two faults. 32,667 states. |
| `similarity` (`SimilarityIndex.cfg`) | An answer describes the row it names: its image, and a class that was given to that image (`AnswersDescribeRow`); a build or append that finishes leaves the files in agreement (`FinishedJobsAgree`). | Three images of which two are sampled, two more appended one at a time, four scripts, each killed or not at any write, a replica that starts at any moment and is restarted: two appends of equal length, one cut off, around one reading. The images have classes of their own, so a class taken from another row shows. 1,429,694 states, about a minute. |
| `release` (`Gate.cfg`) | A split graph has its sidecar (`SplitHasSidecar`); a script leaves no litter (`WorkspaceKept`); what `--force` published agrees (`ForcedPublishAgrees`); no metric leaves the gate (`BaselineKeepsItsMetrics`). | Three training runs (a detection run, a classification run at the accuracy floor, one below it but within tolerance), two scripts in any order - publication with three sets of flags, or the sweep with any, of the embedder and so of the classifier too - one failure or kill anywhere, any number of checks and baseline updates. 709,026 states. |

Some properties are true only in the form given here, and a reader should know
why. `BackendHonest` compares a label with what a session can deliver under that
name (`Delivers`), not with the code's own table of what satisfies a backend
(`SatisfyingProviders`, which says that CPU satisfies `torch`): no ONNX session
delivers `torch`, so detector and embedder with that label are an exception the
property has to name (`TorchInName`); section 6 lists it. `QuotaHolds` speaks of `Window - MaxLag`: the clock is read before the
script is awaited, so a request that is overtaken trims and counts relative to
an older time than the one before it. `NothingDroppedEarly` and
`RetentionApplied` need that a run ends within a month of its beginning; a run
that lasts longer creates and drops for a month long past. `UserStaysOnArm`
holds for an experiments file with one (well-formed) entry per model, as the
documents show: with two, replicas that loaded different versions may keep different ones.
`LatestIsWhole` excludes a checkpoint directory that is written a second time:
its files are replaced in place. `MetricsDescribeWeights` asks for an evaluation
and a checkpoint every epoch, and that `latest-epoch` names the weights the
exporter takes. `RunEnds` excludes jobs of several ranks in which one skipped a
batch or was told to stop. `DownloadsFinish` excludes the stuck `.part`,
`AnswersDescribeRow` a replica that read while two scripts were at work, and
`BaselineKeepsItsMetrics` a baseline recorded without a check. Section 6 says
what happens in the cases excluded.

Deadlock is checked in the audit, limiter, partition, batch, start-up and
dataset runs. The others turn the check off because the instance really stops:
every request finishes, launches, scripts and start-ups are bounded - and in
`training`, ranks that wait for each other for ever are a behaviour of the code,
of which `RunEnds` says when it cannot happen.

Symmetry is used in runs without liveness properties only.

## 4. Fairness

`FairSpec` of AuditService has weak fairness per step: `LoopFairness` because
asyncio runs every coroutine that is ready, wakes the waiters of a lock in
order, and fires the shutdown timer; `DatabaseFairness` because a transaction
ends one way or the other. Nothing makes anyone call `record`, `flush` or
`stop`. `FairSpec` of BatchJobs has weak fairness of starting a queued job on
some worker, and of each worker's own steps, which the hard time limit
justifies: an attempt ends or is killed. Workers and connections are lost
finitely often (`MaxLosses`); with unbounded losses `JobFinishes` is not true of
any system. `FairSpec` of Training has weak fairness of the steps each rank takes
by itself and of a collective that every rank has entered (the operating system
runs processes, NCCL completes collectives); launches, signals, crashes and
non-finite losses are never forced. `FairSpec` of Datasets has weak fairness of
the running script's steps; it assumes that whoever needs the data runs the
script again while something is missing, and that upstream serves the version
whose checksum is recorded again at some time - the code ensures neither, and
without them no download finishes. The other modules state safety only.

## 5. The proofs

Each `*Proofs` module proves its theorems for every value of the constants that
satisfies the named ASSUMEs of the module it extends, which TLC evaluates in
every run.

| Theorem | States | Argument |
|---|---|---|
| AuditServiceProofs `TypeCorrect` | `TypeOK`, with the bound on the queue | inductive by itself; lemmas on `SubSeq`, `Tail` and `\o` give the lengths |
| AuditServiceProofs `RecordOnce` | `NoRecordTwice` | `Places`: the places a record may be in (table, queue, getter, each worker's batch) are pairwise disjoint, without repetitions, and hold only accepted records, so the next accepted record is new everywhere. `SplitSequence` and `JoinSequences` carry it through dequeueing and insertion |
| AuditServiceProofs `AllCounted` | `EveryRecordCounted` | `Hands` (a coroutine that is not writing holds no batch, a getter runs only while the writer collects) and `BatchSettles`: the records a worker gives up are exactly those no longer in flight, as many as its batch is long because `Places` leaves no repetition |
| AuditServiceProofs `RowsOrdered` | `RowsInOrder` | `Ordered`: each place is increasing and the places are older the nearer they are to the table. It needs `Hands`: without flushes the writer and `stop` never hold a batch at once |
| AuditServiceProofs `RecentKept` | `NeverDropsRecent` | the queue is increasing, so the head of a full one is at least `QueueSize` older than the record that takes its room |
| AuditServiceProofs `Settled` | `SettledOnReturn` | `Flows` (a record leaves a worker's hands only with its outcome, and none comes back), `StopSettles` (a partial batch of `stop`'s drain is its last), `LockInv` (the waiters are those suspended on the lock, each once; the writer holds it while it writes) and `FlushSettles` (a flush that waits for a batch is behind its writer in the line) |
| AuditServiceProofs `Implements` | `ImplementsTrail` | every step maps to `Accept`, `Settle` of the batch of one worker, or a stutter: `RecordMoves`, `SettleImplements`, `MovesStutter`; an empty batch is a stutter too |
| RateLimiterProofs `Quota` | `QuotaHolds` | `LagBounded` (a script runs at most `MaxLag` after its clock reading), `AdmittedInTime` (the key outlives its members) and `RecentKept` (a member stays in the set as long as any script can count it): when a request is admitted every member of its shortened window is still counted |
| RateLimiterProofs `RetryHonest` | `RetryAfterHonest` | `PromiseMade`: at the time promised the oldest member counts no more, and at most `Limit` were kept; `PromiseKept`: with no admission the window only shrinks, so a promise made stays good |
| RateLimiterProofs `RejectionsFair` | `NoFalseRejection` | the invariant of `Quota`: every member of the window was admitted, so the `Limit` members that cause a rejection are admissions |
| PartitionsProofs `RowsRetained`, `Retention`, `NoDefaultRows` | `NothingDroppedEarly`, `RetentionApplied`, `DefaultUntouched` | `RunsRecent` (a run in progress began this month or the last) and `Covered` (from the month last ensured on, partitions exist `Ahead` months) |
| BatchJobsProofs `TypeCorrect`, `JobsKept` | `TypeOK`, `NoJobLost` | `EndedHasResult`: an attempt acknowledges only after its result was set, or ignored because the job has one already (`SuccessIsResult`), so giving up a message never leaves a job nowhere |
| BatchJobsProofs `CompletedWhole`, `CompletedKept` | `CompletedIsWhole`, `CompletedStays` | `ToldInv`: a success, stored or on its way, has whole counts (`MetaWhole`), a request asks for the info of unfinished jobs only (`QueryUnfinished`), and of a job that was not overtaken, what was told completed is a stored success or has expired with nobody at work on it (`Settled`), and no update is on its way to a stored success (`Safe`). `IdleStays`: such a job is never taken up again |
| InferenceProofs `VersionsOwn` | `VersionsNotMixed` | `FilesOwn` (every file of a version, and the publication in progress, come from a run of that version) and `LoadedOwn` (so does what is loaded; history only grows) |
| InferenceProofs `TypeCorrect` | `TypeOK` | with `RegistryInv` |
| InferenceProofs `Provenance` | `ProvenanceTrue` | `CacheTrue` (a usable entry was computed from what its key says) and `HeldTrue` (so are the predictions a request holds) |
| InferenceProofs `AuditTrue` | `AuditAgrees` | `Settled` (the row and the counter of an answered request) and `PinKept` |
| InferenceProofs `ArmsServable` | `OnlyPinsNotFound` | `ExperimentLoaded` (a replica that serves can serve every variant), `RoutedLoaded` (what a waiting request was routed to is loaded) and `NotFoundPinned`. `AssignOneOf` and `LoadExperimentServable` are lemmas about the choice of an arm and of an experiment, resting on the existence of least and greatest elements |
| InferenceProofs `UserKeepsArm` | `UserStaysOnArm` | `ArmInv`, for any experiments file: what a replica routes with is a well-formed entry of the file (`ExperimentFromFile`), and a request that an experiment served has the arm such an entry gives its user (`ArmFromFile`), which `ArmKept` says no later step changes. With `OneExperiment` as hypothesis (the well-formed entries of the file are one experiment) the arm is a function of the file and the user, whatever the replicas loaded |
| InferenceProofs `SharesAreWeights` | - | the positions below `Total` are split among the arms of a well-formed entry, each getting as many as its weight: `CumulativeWeightIs` unfolds the recursive running sum (it exists, as a least length without one would extend the one before it) and `CumulativeWeightGrows` says it never falls |
| InferenceProofs `TrafficByWeight` | - | `AssignByShare` (an enabled experiment gives a user the arm whose share holds its position, and no other) with `ArmInv`: whatever replica served a request, at whatever time, its arm is the one in whose share the user's position is, so an arm of weight 0 of an enabled experiment serves nobody. Rests on `HashAssumption`, positions are below `Total` |
| TrainingProofs `TypeCorrect` | `TypeOK` | inductive by itself; a rank that runs holds a model, and `start + NumEpochs - 1` stays an epoch |
| TrainingProofs `LatestWhole` | `LatestIsWhole` | `SaveInProgress`: between the creation of its directory and the swap of the link, main's checkpoint and weights are its model as soon as they are written, and a directory that `latest-epoch` already names is noted in `again` before anything in it is touched. That the model does not move meanwhile is why the collectives are part of the argument |
| TrainingProofs `EarlyExit` | `EarlyExitKeepsWork` | `SavedIsLatest` (`last_saved_epoch` equals the epoch only while `latest-epoch` names the model main still holds) and `EndedWell` (the loop ends with a saved epoch or after the last one) |
| TrainingProofs `MetricsOfWeights` | `MetricsDescribeWeights` | `MetricsKept`: with an evaluation and a checkpoint every epoch, `final` was measured on the model main holds from the evaluation on, and `latest-epoch` names that model once the checkpoint ends, to the end of the run. `EveryOne` and `EvaluatesAndSaves` are the arithmetic of the intervals, and `MetricsStep` rests on `SaveInProgress` |
| TrainingProofs `ScheduleInSpan` | `ScheduleSpansRun` | `CountInv`: every run in its loop started at 0 (`StartsAtZero`), and every gradient step of a rank, the one under way included, has a batch of its own among those of its epoch and the ones before (`StepsCounted`), with equality while one process accumulates and misses nothing. `Shares` bounds what a rank gets of a split; `WorkGrows` bounds the epochs of a run by the whole schedule |
| TrainingProofs `CollectivesMatch` | - | `RanksMeet`, what can be said of `RunEnds` without fairness: ranks that nothing disturbs are never all in collectives, or gone, without being in ones that match. `SameMeeting`: the code of all of them leads to the same collective next (`NextMeeting`), in the same epoch, with the same gradient steps ahead and as many made. One lemma per action: a rank that moves alone keeps its next meeting (`MovesAlone`), those that complete one share the next (`TogetherMeets`) |
| TrainingProofs `DatasetsTrusted` | `TrustedIsWhole` | `DataInv`: what `staging` holds at each statement (`StagingGrows`: the archives extracted so far, flat, of the published version where a checksum was compared), and `InPlace`. `PreparesWell` computes `_prepare`; `FewSampled` counts what `subsample_coco` keeps, by the greatest image kept |
| TrainingProofs `LoadedTruthful` | `LoadedLabelsTrue` | `InPlace` again: a restructured tree is labelled truthfully, and one in the distributed layout is rejected unless it has no images |
| GateProofs `SidecarKept` | `SplitHasSidecar` | `Consolidating`: a script in its `inline` or `unlink` step is at an FP32 graph that exists, and in `unlink` it is whole, so the sidecar that goes is not needed. `JobShape` and `GraphsShape` give the fields; a shape lemma per group of actions says what they can touch |
| GateProofs `WorkspaceClean` | `WorkspaceKept` | `Littered`: without a kill the working directory is the operator's file, except in the `quantise` step, where the script remembers that it was |
| GateProofs `MetricsStay` | `BaselineKeepsItsMetrics` | `Reviewed` (a check that passed was of the files and the baseline as they still are) with `PassedHasAll` (a candidate that passes has every metric compared) and `CandidateSpecified` (whatever is collected has a specification, so all of the baseline is compared) |
| GateProofs `ForcedAgrees` | `ForcedPublishAgrees` | `ForcedInv`: the shared labels and metrics go first (`ForcedShared`); then each model asked for is still among the stages ahead, or what is published for it - graph, labels, metrics - is of its source (`ForcedStages`, with what the graph at work is after each step, and `ForcedPlace` for where the script can be), whatever was there before. `InConcat`, `InTail` and `StagesComplete` are lemmas on the list of stages |
| ReplicaStartupProofs `Honest`, `Truthful` | `BackendHonest`, `HealthTruthful` | `Inv`: `Shape` (what is loaded at each statement of `lifespan`), `ClassifierFirst`, `ChainServed` (INT8 is a candidate only where it may be served, torch only where it is preferred) and `ProbeTrue` (a probe carries what it has seen). `FirstInSet`, `SelectedInitialises` and `ChainSound` are lemmas on the tables and on ONNX Runtime's choice; `PreloadKeeps` says a later preload takes no library away |
| ReplicaStartupProofs `AnswersTrue` | `AnswersDescribeRow` | `SimInv`: every index and manifest that is on disk or about to be written begins with the sample, and any two of them of equal length name the same images, each manifest with a class that was given to the image (`Describes`; `FilesInv`, `JobInv`, with `Progress` saying which writes are still ahead); a replica between its two reads can only meet the manifest on disk or that of the one script at work (`ReplicaInv`). `Builds`, `Appends` and `Relabels` show that each script starts from, and computes, such a pair |
| ReplicaStartupProofs `FinishedAgree` | `FinishedJobsAgree` | `Progress`: when nothing is left to write, all three files are what the script computed |

The theorems about `Datasets` and `SimilarityIndex` stand beside those of the
component that uses them: TrainingProofs extends `Datasets`, whose data the runs
read, and ReplicaStartupProofs extends `SimilarityIndex`, whose index the replica
serves. The two modules therefore name their specification apart (`DataInit`,
`DataNext`, `DataSpec`; `IndexInit`, `IndexNext`, `IndexSpec`). Their proofs rest
on the named assumptions of the modules: `DatasetsAssumption` (the catalogue is a
list of names, images are a finite set of numbers, the dataset that is
restructured is not the one that is sampled) and `SimilarityAssumption` (corpus
and additions are lists of images, a correction is an image and a class, the sample
is no larger than the corpus, and neither a missing nor a torn file is mistaken for a whole one).

One of these attempts said something about the model. `AnswersDescribeRow` was
not inductive as it stood: counting the scripts that had *started* when the
replica began to read, it allowed one already at work and another after it, and
two appends of equal length, the first cut off, then left an index and a
manifest of equal length that the replica pairs wrongly. That takes four scripts,
which is why the run has four now, and `began` counts the scripts that had ended.

Only model-checked: everything temporal under fairness (`RecordSettles`,
`CallsReturn`, `JobFinishes`, `RunEnds`, `DownloadsFinish`), which the proof
system does not reach, as it does not reach ENABLED. Every safety property a run
checks is a theorem of its specification, one of them under a hypothesis on the
constants that the run's instance satisfies: `UserKeepsArm`, with `OneExperiment`.
That hypothesis is needed: with two entries of one model the last servable one
stands for it, so replicas that loaded different versions route by different
experiments (section 3).

Three theorems say more than a run checks. `SharesAreWeights` and
`TrafficByWeight` rest on `HashAssumption`: the code divides a 64-bit digest by
2^64 and takes the result to be below 1.0. Weights and positions are whole
numbers in the model, so the rounding of the division and of the running sum,
which the fallback to the last variant is for (`ab_testing.py:103`), is left
out. `CollectivesMatch` is the safety core of `RunEnds`; what remains to the run is
that steps are taken and collectives complete. TLC agrees with `RanksMeet` and its
invariant on the instance of `training`.

The library's induction theorems take an operator, which the provers cannot
instantiate. Where a proof needs induction over data it takes the least
counterexample of a set of numbers instead (`MinExists`), as for
`CumulativeWeight`, a recursive function. No module declares a RECURSIVE
operator.

## 6. Where the code and its documents disagree

These were met while modelling. The models contain the behaviour of the code,
and no run states the documented claim.

The audit log, the limiter and the table:

- `stop` may never return with a wedged database (`audit_service.py:156`
  against lines 59-60): the join is bounded, the drain after it is not.
- `flush` says it writes everything queued (`audit_service.py:277`), but a
  record in the getter task is in neither the queue nor a batch when it drains.
  `SettledOnReturn` states the part that holds.
- The rate limiter's docstring promises the quota over any sliding window
  (`rate_limit.py:9-10`); with lag or skew (line 117) it holds over a shorter one.
- The alert for rows in DEFAULT stays green in just the case it is for
  (`maintain_partitions.py:159` against 117-119): the refused CREATE ends the
  run before the push. The runbook and the alert advise running the maintenance
  by hand (`docs/operations.md:271`, `alerts.yml:149-152`), and that run is
  refused too (`…partition_inference_logs.py:214`).
- A non-zero DEFAULT is said to mean missed runs (`…partition_inference_logs.py:145`),
  but the migration itself moves rows older than the retention there (160).
- The runbook says that the downgrade of the partitioning migration drops the
  rows with the partitions (`docs/operations.md:341-343`); `downgrade` copies every
  row into a plain table first (`…partition_inference_logs.py:313-328`), and
  `NothingDroppedEarly` holds across it. `Downgrade_DropsRows`, the runbook's
  version, violates it.

Batch jobs:

- An unknown job id is reported pending for ever (`batch.py:126` against
  123-125): Celery answers PENDING for an id it has no record of.
- A completed job can be reported otherwise. Late acknowledgement lets two
  attempts run at once (`celery_app.py:42-43`), and Celery's backend looks for a
  stored success and sets an update in two calls: an update that had looked before
  the success was set, and is set after it, overwrites it with progress or a
  failure. `CompletedStays` excepts just those jobs (`overtaken`).
- A job that fails between the two reads of `result.info` (`batch.py:133`) makes
  its status request fail with a 500: the second read is an exception, or None,
  which has no `get`.
- "One bad item does not fail the job" (`worker/tasks.py:5-7`): the soft time
  limit is swallowed as an item's error (131), and the hard limit then loses the
  results of all other items.

Requests and the cache:

- Predictions of replaced weights are served under the new ones
  (`cache_service.py:68` against 4-8, `responses.py:37`): the key holds the
  version's name, and publishing v1 again keeps the name.
- A cache entry of another shape fails every request for its key
  (`inference_service.py:109` against `cache_service.py:10`).
- "Failures are audited too" (`inference_service.py:134-135`) is not true of an
  exception in decoding (153).
- The inference counter is said to count failures of the model runtime
  (`alerts.yml:73-74`), but the handler at `classification.py:97` also counts
  refused uploads, and a detection that fails at run time is not counted at all
  (`routers/detection.py:72-73`).

Start-up, health and experiments:

- With Postgres down at start-up there is no engine, and `/health` says
  "healthy" from then on, against `docs/operations.md:304-307`.
- TensorRT on a host without a GPU is said to yield `onnx-int8`
  (`docs/technical-writeup.md:409-410`); the chain yields `onnx`.
- "Refusing to report a backend that is not in use" (`runtime.py:275`), "every
  loaded model reports the artefact and backend actually in use"
  (`model_service.py:15-16`): with `INFERENCE_BACKEND=torch` detector and embedder
  are labelled `torch` and not degraded while they run the fp32 ONNX graph on CPU
  (373-374; the classifier falls back to `onnx`, degraded).
- An embedder whose index fails to load stays registered and is reported by
  `/health` (`main.py:245-253`).
- Readiness can never answer 503: without its default model the service does
  not start to listen.
- "A misconfigured experiment never breaks serving"
  (`experiment_service.py:13-15`): an entry that is not an object raises inside
  the handler (89), and start-up fails. Two entries for one model can move a user
  between arms, as replicas with different versions keep different entries.

Training and datasets:

- Ranks that get SIGTERM at different steps, or of which one meets a non-finite
  loss, wait for each other for ever: the decisions at `pipeline.py:455` and
  `pipeline.py:522` are local to a rank, the collectives are not.
- A second launch into the same (deterministic) directory that is stopped early
  leaves the older, higher-numbered weights, which the exporter takes, beside
  the new metrics.
- `save_interval` 2 leaves the last epoch unsaved when their number is odd.
- `steps_per_epoch` counts the batches of the whole split (`utility.py:124-132`,
  `classification_pipeline.py:166-172`), while `accelerator.prepare` shards the
  loader (`pipeline.py:385`) and the schedule is stepped once per gradient step of
  one process (`pipeline.py:512`). With n processes, or accumulation over n batches,
  a run therefore ends about one n-th of the way through its schedule: the warm-up
  is n times as long and the decay is not reached. `ScheduleSpansRun` says what is
  left: it is never overrun, and one process that accumulates nothing uses it up.
- "Explicit scheduler-step arithmetic that survives resumption" (`utility.py:5`)
  and "Build a scheduler that resumes at the correct point" (176): with
  `start_epoch_at` above 0 the schedule is constructed with a position on an
  optimizer that is new (`classification_pipeline.py:179-184`; `load_state` follows
  at `pipeline.py:404`), whose groups have no `initial_lr`, and the constructor
  raises. What `continue_training` alone resumes is the model and the optimiser:
  the epochs, the schedule and the checkpoint numbers start again at 0
  (`pipeline.py:414`), and the directories of the earlier run are written over.
- "Continuing past individual failures": a damaged zip raises `BadZipFile`, which
  `download_all` does not catch (`download_datasets.py:416`).
- "Partial downloads are resumable on re-run" (`download_datasets.py:460`): a
  `.part` that is complete is answered 416 by a server that honours Range, every
  time.

The similarity index:

- Unlabelled additions get label -1, which Python takes from the end of the
  class list: the answer carries the name of the last class
  (`similarity_service.py:147` against `build_similarity_index.py:57`).
- Nothing compares the index with the embedder that built it, and no lock keeps
  two scripts apart; a crash after a changed sample size can leave files that
  pass the length check and disagree. After a crash an append is refused until
  the index is rebuilt.

Export, publication and the gate:

- A graph that diverged, or was cut short by a kill, stays on disk
  (`export.py:172-178`), and a later publication without `--force` keeps it.
- Labels are written before the graphs and an existing graph is kept without
  `--force` (`prepare_artifacts.py:108`), so labels, metrics and weights of
  different runs of a version may be loaded together
  (`model_service.py:304-306`). A failed quantisation leaves the INT8 graph of
  an earlier run beside the new FP32 graph.
- The benchmark sweep re-exports the served classifier without its labels, and
  `quantization.json` loses the entry of a model it did not compare.
- The exporter accepts a detector that differs by up to 1e-2; `verify_exports`
  compares with 1e-3, against the latest run, and the detector against the
  pretrained weights, whichever were published.
- The gate takes the latency of the first CUDA row, which is another model's when
  the classifier was not timed (`check_regression.py:73` against 51-52), and
  size and latency from what is published, not from the candidate. An update
  without a benchmark report drops the latencies from the baseline.

## 7. What is not modelled, and why

- **Tensors and numbers**: preprocessing, forward passes, losses, optimisers,
  augmentation, calibration, the timing of a benchmark, memory profiles, and the
  statistics of drift and A/B tests work on real numbers, out of TLC's reach,
  and keep no state. What is done with their outcome is modelled where it
  changes something: a graph that diverges, a loss that is not finite, a metric
  that is missing or worse.
- **Detection and similarity queries** are one stateless forward pass per
  request, neither cached nor audited.
- **Authentication, schemas, configuration, logging** keep no state that changes
  while the service runs. Token signing is a library.
- **Deployment files, dashboards, nginx** are configuration; the replicas and
  restarts they cause are in the models.
- Within the modelled parts: columns and indexes of the table; the texts of
  headers, errors and logs; `--dry-run`; hit counters; the disabled audit
  service; the size check of a batch; the renaming of indexed images; uploads to
  MLflow, which never fail a run; the evaluation scripts, which only read.
  Celery, Redis, Postgres, asyncio, ONNX Runtime and accelerate are external,
  modelled from how the code uses and configures them.

## 8. The plan

Done: the twelve runs and the theorems above. What would add most next:

1. **Lifespan**: composition of serving and shutdown with the audit log, so that
   a request in flight at shutdown has its record drained before the engine is
   disposed of.
2. **classify_many** and the batch worker's own registry: per-item outcomes, the
   audit rows of batch items, and provenance as in `ProvenanceTrue`.
3. **Decision rules** of drift reports and A/B tests over scaled integers.
