# textFlow in TLA+

textFlow turns documents, audio and images into structured results. An
orchestrator (Go) accepts jobs over HTTP; workers (Python) take them through a
pipeline of RabbitMQ queues; everything they know about a job is kept in Redis;
a completion worker collects the parts. This directory models how these
processes interleave, fail and recover, checks the models with TLC and proves
the central results with TLAPS.

Contents: 1 the system, 2 the modules, 3 the runs, 4 what is proved,
5 disagreements between the code and its documents, 6 abstractions and bounds,
7 what is not modelled, 8 what could follow.

## 1. The system

### Parts, their state and their operations

| part | code | keeps | does |
|---|---|---|---|
| orchestrator | `cmd/orchestrator/main.go` | nothing of its own | create, upload, cancel, delete, status, download |
| watchdog | `main.go:224`, `internal/redis/client.go:702` | nothing | once a minute expires old jobs in `active_jobs`, or found by SCAN when that set is empty |
| batch API | `cmd/orchestrator/handlers/batch.go` | batch keys in Redis | creates up to 100 jobs concurrently, answers polls |
| event stream | `handlers/stream.go` | a subscription per client | forwards the events of a job |
| admission control | `handlers/admission.go` | a token bucket | counts `active_jobs` and queue depths before a job is accepted |
| job record | `internal/redis/client.go` | `:status`, `:steps`, `:meta`, `:text`, `:chunks`, ..., `active_jobs` | commands of one key each; no transaction anywhere |
| entry workers | `cmd/extraction-worker`, `cmd/audio-worker`, `cmd/image-worker`, `pkg/worker_common/async_base.py` | aio_pika connection | text and chunks, inference dispatch, fan-out to the stages |
| stage workers | `cmd/embeddings-worker`, `cmd/entities-worker`, `cmd/metadata-worker`, `pkg/worker_common/base.py` | pika connection | one part of the result each; retries over a delayed exchange |
| inference worker | `cmd/inference-worker/inference_worker.py` | buffer or thread pool, semaphore, connection | one LLM call per chunk or per batch of chunks; the last chunk assembles |
| completion worker | `cmd/completion-worker`, `pkg/worker_common/pubsub_base.py` | a subscription | on each `job_progress` event looks whether all steps are there, and then finalizes the job |
| broker client | `internal/broker` | a pool of channels, confirms | publishes; reconnects |
| circuit breaker, rate limiter, retry, cache | `internal/middleware`, `internal/cache` | counters | guards around calls |
| artifact store and collector | `pkg/worker_common/artifact_store.py`, `artifact_gc.py` | files by content hash | put, get, collect |

### How they interact

* Orchestrator -> RabbitMQ -> entry worker -> RabbitMQ -> stage workers and
  inference worker. Delivery is at least once; a message is acknowledged after
  its work.
* Every process writes the job's keys in Redis with single commands. A status
  is read in one command and written in a later one, without a condition.
* `job_progress` events over Redis Pub/Sub wake the completion worker. They
  are delivered to whoever is subscribed at that moment and to nobody else.
* Nobody but the completion worker makes a job `completed`; the watchdog is the
  only process that looks at a job nobody sends an event about.

### Behaviours that are hard, and what makes each part correct

* *Redelivery.* Entry, stage and chunk messages come back after a lost
  connection or a death, possibly while the first handler is still at work. A
  chunk must count once, an assembled result must not change, a client must be
  told once.
* *Check then act.* Cancel, delete, expire and finalize all read the status
  first. A completed job must have all its steps when it is marked, not only
  when it was looked at.
* *Order of two writes.* Counter before chunks, result before countdown, step
  before event, claim before result: each of these orders is what some other
  process relies on.
* *Stale handles.* A delivery tag means something on one channel only; tasks
  outlive connections.
* *Liveness.* A partial batch must be flushed, a last event must be followed by
  a look, a window must not close for good, a job must end, a message must not
  go round for ever.
* *Ownership.* The handler owns the uploaded file and removes it; the collector
  removes artifacts somebody may just have begun to refer to. What a message
  that comes back needs must still be there.
* *Whose is it.* Texts are cut, cached under their content, sent in batches and
  answered in any order; what the result says of a chunk must be about that
  chunk, and what is missing must be said.

`PROJECT.json` lists every component with its status and every hazard at its
line with the properties that cover it.

## 2. The modules

### The inference stage of one job

| module | is | code |
|---|---|---|
| `ChunkAssembly` | the abstract promise: finish every chunk once, assemble only when all are finished, tell afterwards | (specification) |
| `InferenceJob` | what all consumers share: dispatch by the entry worker, the Redis counters and list, claim, countdown, lock, assembly | `inference_dispatch.py`, `inference_worker.py:1060-1461` |
| `InferenceAdaptive` | consumers of the thread pool mode: one chunk per thread, cancellation, claim | `inference_worker.py:1090-1202` |
| `InferenceBatch` | the default mode: buffer, full and partial batches, oversized chunks, one acknowledgement per delivery | `inference_worker.py:975-1376`, `main()` |
| `DeliveryEpoch` | one adaptive worker process: connection, tags, executor backlog, answers scheduled on the pika thread, shutdown | `inference_worker.py:1045-1108`, `main()` |
| `AdaptiveSemaphore` | the congestion window around the LLM call | `adaptive_semaphore.py`, `_call_llm` |

`InferenceAdaptive` and `InferenceBatch` EXTEND `InferenceJob` and each takes a
message from the queue to the counter in its own way; both implement
`ChunkAssembly` under the refinement mapping `Abstract` in `InferenceJob`
(`done` = the chunks in the list or in the final result, `result` = the final
result, `told` = the announcement). One step is one Redis command or one broker
operation. `pc` names the command a consumer is about to issue: claim (SET NX),
push (RPUSH), count (DECR), lock (SET NX), read, clean, complete, announce, ack.

`DeliveryEpoch` looks at the part `InferenceAdaptive` abstracts: there an
acknowledgement reaches its delivery or is lost with the connection; here it is
shown when that is so and when it is not.

### The life of one job

| module | is | code |
|---|---|---|
| `JobRecord` | the shared state: keys, `active_jobs`, queues, the subscription; failures | `client.go`, `pipeline_config.py`, `events_python.py` |
| `JobApi` | create and upload, cancel, delete; the watchdog with its SCAN fallback | `main.go`, `client.go:702-840` |
| `JobWorkers` | the entry handlers and the stage workers | `async_base.py`, `base.py` and the workers |
| `JobCompletion` | subscription, check, finalize, results file, webhook | `completion_worker.py`, `pubsub_base.py` |
| `JobLifecycle` | their composition, its fairness and its properties | |

`status` is a hash with one field in the code; BaseWorker's error paths replace
it by a plain string (`base.py:632`, `base.py:718`), after which every HGET and
HSET of it fails with WRONGTYPE. The models keep that: the status `"string"`
makes `TrySetStatus` a no-op and every reader take its error path.

`queue[q]` holds the retry counts of the waiting messages of the job, `entry`
and `worker` say which command a handler issues next, `lost` that its connection
is gone and its message was given to somebody else, `events` counts
`job_progress` events in the completion worker's subscription, `comp` is the
completion worker's next command. The entry stage (`Entry`) and the downstream
stages (`Queues`) are constants: the theorems hold for every pipeline.

### The processes that consume messages

| module | is | code |
|---|---|---|
| `Consumers` | replicas of `BaseWorker` or `BaseAsyncWorker` and the queue they share: cancellation, retries over the delayed exchange or by sleeping, dead-lettering, lost connections, stops, deaths, full queues | `base.py:513-815`, `async_base.py:230-330`, `queue_args.py` |
| `ArtifactStore` | artifacts by content digest, the references to them in Redis, the collector in its three phases | `artifact_store.py`, `artifact_gc.py` |
| `ExtractionWorker` | asyncio tasks of the extraction replicas: the uploaded file, the conversion, two artifacts, the publishes, the `finally` clause, settlement; reconnects, SIGTERM, replacement | `cmd/extraction-worker/worker.py` |

`JobWorkers` looks at a message from the job: its keys and events. `Consumers`
looks at a job from the message: is it lost, does it come to an end. A `copy` of
a message is where it is and how often it was retried; `task` is what a consumer
does with it, `wired` whether the connection it came from is still there.
`ExtractionWorker` EXTENDS `ArtifactStore`: tasks put files and then set
references while the collector reads references and then scans files.

### Batches of documents

`Batches` composes three parts that share the Redis keys of a batch and
`active_jobs`: `CreateBatchHandler` with its goroutines (`at[j]` is the next call
of the one that creates job `j`; none of its calls is checked), the completion
worker's `_check_and_notify_batch`, and the uploads of single documents that go
through `CanAcceptJob`. `env` chooses a surrounding per behaviour: which
documents are valid, which uploads there are, what may go wrong and how often.

### What is in a result

| module | is | code |
|---|---|---|
| `JobText` | the keys and queues of the stages; how a text is cut into chunks, for documents, images and recordings | `worker.py` (`chunk_text`), `chunking.py`, `segment_chunker.py` |
| `VisionPages` | the quality gate, the pages that are replaced by a transcription, the budget, and what the entry workers store | `vision/*.py`, `worker.py:1157-1334`, the audio and the image worker |
| `EmbeddingsStage` | vectors from the cache and from a service that answers in any order or not at all; the flag `embeddings_degraded`; vectors of inferences | `embeddings_worker.py`, `embeddings_client.py` |
| `EntitiesStage` | windows of large chunks, batches of small ones, what fails, the merging of duplicates, the regex service | `entities_worker.py`, `sliding_window.py`, `entity_utils.py` |
| `InferencesStage` | which passages are asked for together, what is remembered across jobs, the fallback to single passages, the confidence filter | `inference_worker.py:260-957, 1268-1333, 1394-1442, 1616-1655` |
| `JobResult` | the completion worker, which puts all of it together, and the composition | `completion_worker.py:392-752` |

Each stage is a worker of its own and they interleave. A text is a sequence of
words; the vector of a text is that text (`Vec(t)`), a fact names the passage it
was drawn from and how sure the model is. So "whose vector is this" and "which
passage is this fact about" are questions the checker can answer, without any
arithmetic of vectors. Each document in `MCJobResult` is there for a branch of
the code: a scan with a thin page on which vision sees nothing, two it can read
and a budget for one, a good page with a table, a text without a page and one on a
page the document does not have; a text none of whose texts are listed by page;
one whose pages nobody has counted; one of repeated words that is cut into
windows; an empty one; a recording; an image with and without text.

Docling's answer comes in two forms, which the model keeps apart as the code
does: `markdown`, the text of the whole document, and `items`, the texts it lists
with their pages (`PageText` groups them). Nothing says that they hold the same words.

`*_proofs` modules hold the theorems; `MC*` modules give TLC its constants.
Operators called "Mutant" in a comment are wrong variants of the operator after
them; each property is known to fail on one of them.

## 3. The runs

| run | instance | checks |
|---|---|---|
| `AdaptiveSafety` | 2 chunks, 2 threads, 2 deliveries of the entry message, 2 failures of 3 kinds, cancellation | the inductive invariant, `FinalComplete`, `CountedOnce`, refinement of `ChunkAssembly` |
| `BatchNormal` | 4 chunks, one oversized, batches of 2, 2 workers, no failure | nothing lost or leaked, the refinement, and the end of the stage is announced |
| `BatchFailures` | 3 chunks, batches of 3, 2 workers, 2 failures of 3 kinds | what survives failures in batch mode: one assembler, no short assembly, a stored result is final |
| `BatchCrash` | 2 chunks, 1 death | violation of `FinalComplete`, section 5 |
| `Epoch` | 2 threads, 2 messages, 1 lost connection, 1 failing task, other replicas, shutdown | answers and deliveries on the first connection and after a reconnect; the queue drains |
| `Semaphore` | 5 callers, window 1..4, decay 2, 3 errors to a cooldown | exact tokens, bounds, series of errors, no permanent closure |
| `JobEnds` | document, 2 stages, 2 retries, 2 failures; either transient errors and deaths of stage workers, or expiry, other jobs active and 6 kinds of failure | told once, no lost wake-up, no lost stage, completed is final, the job ends completed with its file; a job in `active_jobs` ends |
| `JobFaults` | document, 1 stage, cancel, delete and timeout at any time, 2 failures of 12 kinds | the inductive invariant, `CompletedIsDone` |
| `Extraction` | 2 replicas, 2 documents of the same content; either 2 lost connections, stops, deaths, cancellations and errors, or 3 of collector, days and deletions | acknowledged means handed on, the document is there for every redelivery, the collector's dangling references, every message is settled |
| `Consumers` | 1 message; 2 BaseWorkers, 1 retry and 2 faults, the same without the delayed exchange and 1 lost connection, or 1 BaseAsyncWorker with 2 tasks and 2 faults | no message vanishes, failed for a cause, no message goes round for ever |
| `Batches` | 2 documents with 2 faults of 7 kinds, 3 with 1, none valid, or 1 beside 4 uploads let in 2 at a time | the batch webhook, the polled status, the limit of admission, the batch is announced |
| `JobResult` | 8 documents in 11 environments, chunks of 4 words, windows of 3, requests of 2, 1 or 2 faults | the text is Docling's, or every page in its place; no word of it is in no chunk; what the result says of a chunk is about it; `degraded` is exact |

What the properties mean, where their names do not say it:

* `DocumentThere`: as long as a message can be delivered the uploaded file is
  there - except for jobs in `cut`, whose handler had outlived its connection or
  had died after the removal. The exception is the code's: the file goes before
  the acknowledgement.
* `DanglingWasOld`: the collector leaves a reference without its file only where
  `put` had met a file that was old already; `put` does not renew its time.
* `NothingVanishes`: the broker has a copy, or the job is processed, cancelled,
  dead-lettered (or marked as failed by BaseAsyncWorker) - short of the faults in
  `Losses`, each of which does lose a message.
* `FailedForCause`: `failed` is written for a permanent error, a last retry, or
  because the acknowledgement failed on a lost connection.
* `EventuallySettled` of `Consumers` holds with the delayed exchange only: a
  message requeued by `_retry_via_sleep` keeps its count.
* `AnnouncedAfterAll`: one webhook, after the last accepted document, unless a
  document was counted again after a late error of `finalize_job`.
* `StatusAgrees` and `EventuallyAnnounced` are claimed for batches in which
  nothing happened; section 5 says what one failed call does.
* `AdmissionBound`: the limit plus the simultaneous requests, less one. Batch
  documents do not go through admission at all.
* `ResultIsOfDocument`: if no page was replaced, the stored text is Docling's, to
  the word. If one was, it is the pages in their order, each with its
  transcription or with the texts Docling has placed on it: what Docling places on
  no page is then missing, of whichever page it was (section 5). Every word of the
  stored text is in a chunk; vectors, facts and entities of a chunk are those of
  its text (of one of the texts stored under its number, when the document was
  extracted twice).
* `DegradedIsExact`: the flag is set if and only if a chunk has no vector, as
  long as nothing was delivered twice and no vectors of inferences were asked for.

Why the bounds are enough. Two chunks are the least for which "last chunk" and
"order" mean something, two threads the least for a race, two deliveries of the
entry message the least for a reset counter with messages of the first dispatch
in flight; the invariant proved from this run shows that nothing new happens
above. Batches need a full one, a partial one and an oversized chunk between
them: four chunks in batches of two, or three in a batch of three when a batch
is interrupted. Two failures cover a failure during the recovery from another.
In `Epoch` a tag that is used on the wrong channel needs two messages and one
reconnect. Five callers exceed the largest window; three errors reach the
cooldown from every window. In the job's runs two downstream stages are the
least for a race between the last two steps; one suffices where the race is with
the orchestrator. Two documents of one content share their artifacts, which is
what the collector can get wrong; it needs a day, a deletion and a collection.
One message is enough in `Consumers`, since messages do not see each other; two
replicas are the least for a delivery and its redelivery side by side, and three
extra copies hold every retry of both. Four uploads, two at a time with a limit
of one, reach the bound of admission and can be refused. Chunks of four words
cut the documents into one to three chunks that overlap; requests of two leave a
last one that is not full; windows of three leave a tail. All modules have
proofs for every size; `JobEnds` allows as many failures as a message has
retries, which is what the theorems about it assume.
Symmetry is used in safety runs over threads only.

Deadlock is checked in `Semaphore`, where somebody can always go on. The other
systems end: a job is over, a worker shuts down, a batch is announced.

### Fairness

* `InferenceBatch`: weak fairness of the entry worker and of every consumer
  step. The consumer is a loop, the flush timer re-arms itself (`main()`), so a
  step that stays possible is taken. No failure is owed.
* `DeliveryEpoch`: weak fairness of the pika loop (deliveries, callbacks,
  reconnection) and of each executor thread. Neither losing connections nor
  other replicas nor failing tasks are fair: the run shows the worker drains its
  queue although a stale answer may close its channel again.
* `AdaptiveSemaphore`: a call ends (requests time out), the cooldown runs out by
  the clock, and some waiting caller is admitted when one can be; an individual
  caller polls and may starve, so nothing is claimed for it.
* `JobLifecycle`: weak fairness for each process separately, for the watchdog's
  ticker together with the ageing of a job, and for the subscription to be
  restored. Requests and failures are not fair.
* `ExtractionWorker`: weak fairness of each task (an await ends: every request
  has a timeout) and of a replica that has stopped (the container restarts it).
* `Consumers`: weak fairness of each consumer and of the broker's delays; strong
  fairness of the delivery of a copy, for a queue is first in first out and a
  consumer that becomes free again and again gets to it.
* `Batches`: a request that has begun goes on, published jobs end, and the
  completion worker takes what it is told.
* `JobResult` has safety properties only.

## 4. What is proved

TLAPS proves, for every value of the constants that satisfies the named
assumptions:

* `InferenceAdaptive_proofs`: `Invariant` (the inductive invariant `IInv`) and
  from it `TypeCorrect`, `FinalIsComplete`, `AssemblerIsUnique`,
  `CompletionIsHonest`, `CounterIsCovered`, `ChunksCountedOnce`,
  `FinalIsStable`, and `Refinement`: the adaptive stage implements
  `ChunkAssembly`. Assumptions: at least one chunk, at least one dispatch,
  failure kinds among the three modelled.
* the same module, for `AdaptiveSemaphore`, whose callers are the threads of the
  adaptive worker: `SemaphoreTypeCorrect`, `TokensAreCalls`, `WindowIsBounded`,
  `ErrorsHaveCut`, for a finite set of callers and a sensible configuration
  (`WindowAssumption`; the program does not validate its environment variables).
* `InferenceBatch_proofs`: `BatchInvariant` and from it `BatchTypes`,
  `BatchOneAssembler`, `BatchFindsAll`, `BatchFinalStable`, under any failures;
  `NoDeliveryLeaks` if no call fails (`"fault" \notin Failures`; deaths, lost
  connections and redeliveries may happen); `OnceInvariant`, `NoChunkIsLost`,
  `BatchFinalComplete` and `BatchRefinement` (batch mode implements
  `ChunkAssembly`) if nothing fails and the job is dispatched once
  (`Undisturbed`), which is what the code can promise: section 5. For any number
  of chunks and workers, any batch size and any set of oversized chunks.
* `DeliveryEpoch_proofs`: `EpochInvariant`, `EpochTypes`, `AnswersReachOwn`,
  `SettledAfterResult`, `NobodyForgotten`, for any messages, threads, prefetch
  and number of reconnects and failing tasks (`EpochAssumption`: `"none"`, the
  thread's empty hand, is no message).
* `JobLifecycle_proofs`: `Inductive`, `CompletedJobIsDone`, `TypeCorrect`, for
  every pipeline without a repeated entry stage, number of handlers, number of
  retries and number and kind of failures; `QuietInductive` and `JobNotifiedOnce`
  for any number of failures of stage workers; `FewInductive`,
  `EveryStageAccounted`, `NoWakeupLost` and `CompletedIsFinal` if there are no
  more of them than a message has retries (`FewFailures`): a stage that runs out
  of retries may leave its job to nobody, or a string in its status.
* `Extraction_proofs`: `Invariance`, `AckedSafe`, `DocumentSafe`,
  `CollectionSafe`, for any replicas, tasks, jobs and contents and any number of
  interruptions. Assumptions: every task belongs to a replica, every document has
  a content and one of the three sources.
* `Consumers_proofs`: `Invariance`, `NothingLost`, `CauseOfFailure`, for any
  messages, replicas, tasks, retries and copies.
* `Batches_proofs`: `Invariance`, `WebhookAfterAll`, `LimitOfUploads`,
  `CalmInvariance`, `StatusAndWebhook`, for finite
  sets of documents and uploads, any limit and any number of handlers and faults.
* `JobResult_proofs`: `InvariantTheorem` (the inductive invariant `Inv`),
  `ResultTheorem`, `DegradedTheorem`, for every set of environments (documents of
  any length, faults of any kind and number), every size of chunks, windows,
  overlaps, batches and requests, every budget and every relation `Alike` of
  similar names. Assumptions: a document is of one of three kinds and has a text,
  a list of texts with their pages and what can be seen on each page, of which
  nothing relates one to another; an image has a page, and every profile has the embeddings downstream of its entry
  (`EnvironmentAssumption`; `configs/pipeline.json`); cuts make progress and
  batches are not empty (`ChunkAssumption`, `WindowAssumption`,
  `BatchAssumption`, `InferAssumption`); a name has a label and a score, and what
  a rule finds is a name (`NamesAssumption`).

*The adaptive stage.* `FinalComplete` alone is not inductive: nothing says that
the list holds all chunks when the counter is zero. `IInv` adds the chain the
code relies on: the claim gives a chunk to one thread until it is counted
(`ClaimIsExclusive`), the result is pushed after the claim and before the
countdown (`PushBeforeCount`), so the list never holds a chunk twice
(`ListedOnce`) and what is counted is stored; the counter is never below the
number of chunks not yet counted, even when a redelivered entry message sets it
back (`CounterBounds`); hence a thread that sees zero knows that all are counted
and stored (`AssemblyPhase`), and sorting a list of N different chunks gives the
document order (`SortedListing`). The refinement then maps RPUSH to `Finish`,
the write of the final result to `Assemble`, the announcement to `Tell` and
every other step to a stutter.

*The batch mode.* Three invariants, each on the one before. `BInv` holds
whatever fails: the counter never falls below what the list still lacks, also
when a redelivered chunk is pushed and counted twice (`CounterBehindList`: an
entry in the list, or a chunk whose result a worker is about to push, for each
count that is gone), so who sees zero finds N entries (`AssemblyFindsAll`), and
the lock leaves one of them to assemble (`LockPhase`, `OneAssembler`). Which
entries they are it cannot say: `SortedType` shows only that sorting gives a list
of chunks. `HoldInv`: every delivery the broker counts as unacknowledged is in
the buffer or in the batch of its worker. `OnceInv`: a published chunk is in one
place (`Placed`), is stored once (`StoredOnce`) and counted after that, hence
the final result is `Listing` (`FinalComplete`) and every step is one of
`ChunkAssembly` or a stutter.

*The connection epochs.* `EInv` ties a thread's task to its delivery: a tag is
given once per channel, what a thread or the backlog holds was delivered on the
channel of its epoch, and an answer that waits in the pika thread's queue carries
the tag of its own delivery as long as there was no reconnect. A message is then
in one of the hands listed by `NotForgotten`, and a settled one was processed.

*The semaphore.* Tokens equal calls only together with the bound of the window
at the moment of each acquire; `SInv` is the conjunction. `ErrorsCutWindow`
compares the window with a recursive function. `WindowAfterDef` proves that the
function exists, from rows of cuts of every length that agree with each other,
by `SetInduction`: the successor would map the numbers below a first
counterexample into themselves and miss 0, which no injection of a finite set
does. That an error cuts what the row before it allowed is `CutMonotone`.

*The job.* `CompletedIsDone` is disturbed between the look at the steps and the
write of the status. It survives because steps are only ever added, except by
the deletion of the job, which takes its created mark too (`FinalizesDone`
speaks of created jobs only), and because nothing touches a job before it is
created (`Unpublished`) - so a created mark never comes back.

In benign surroundings more is true. `QuietInv`: there is one entry message and
one handler of it (`OneEntry`), and nothing happens downstream, at the completion
worker or to a final status before that handler has done with the record of the
job (`EntryFirst`), so that nobody writes the status after `completed` but a
stage that ran out of retries, and what that writes stops the completion worker
too: the webhook is sent between `Marks` and a status that stays (`Notices`).
`FewInv`, when nobody runs out of retries: the fan-out has reached every stage
before the handler lets go, a message leaves its stage with its step stored or
its copy queued (`FannedOut`), and with all steps stored a worker has yet to
announce, an event is waiting, or the completion worker has yet to read the
steps (`Awake`): an event is used up only by a look that comes after it.

*The extraction workers.* A message is acknowledged by a task, and a task knows
nothing of the broker: `HeldByOne` ties the two (a task that holds a delivery is
the only one, and the broker thinks so too), `AcksWithReason` says that a task on
its way to an acknowledgement has handed its job on or found it cancelled.
`DocumentThere` needs `RemovedInTime` (a document that is gone was removed by a
task that is about to settle, or has) and `Orphaned` (whoever goes on without its
delivery is in `cut`). The collector's part is a chain over its phases: what was
put fresh stays fresh until it is referenced (`PutIsFresh`, no day passes in
between), what is referenced after the collector read the references is fresh
(`CollectorSees`), and what it removes is old and was not referenced
(`OrphansAreOld`).

*The consumers.* A message that was published again is acknowledged in its first
copy, so "somebody has a copy" must not be the copy that is about to go: `Reason`
says that the other one has a larger retry count, and copies of one message
cannot wait for each other in a circle. `RetriesOfBase` keeps the counts within
their range.

*The batches.* `CountIsExact`: the Redis counter is the number of the jobs that
were counted plus the times one was counted again, the total is written before
the first job exists, and between a count and its check nothing has been sent.
Then a counter at the total means that the counted jobs are as many as the
accepted ones, of which they are a subset: all of them. `AdmittedBound` adds the
uploads on their way to the active ones, for admission sees only the latter.
`CalmInv` speaks of batches to which nothing happened: each job is told of, in
the hands of the completion worker or completed, and no two of these
(`OnceFinalized`), so that none is counted again; and when the request is
answered every job has joined the members (`OnTheWay`). Then the counter at the
total and the members all completed say the same.

*The result of a job.* `ResultIsOfDocument` speaks of positions: the vector, the
facts and the names listed under chunk `i` are those of a text that was stored as
chunk `i`. It is not inductive, for a result is put together from what four
workers left in Redis and two of them took from caches. `Inv` says it of every
place such a thing passes through. `EntryInv`: what the entry worker has of the
document so far, page by page, is what Docling has placed on that page unless its
report says that it was replaced. `EmbInv`: the cache gives a text its own vector, and the
worker's list has at each place the vector of the text at that place, in whatever
order the service answers (`AnswersByPlace`). `InfInv`, `EntInv`: the same for
facts and names, with the worker's own copy of the chunks, which may be older
than what Redis holds (`Stored`). `FinInv`: what the completion worker has read.
All of this stays true when a stage is delivered twice, since more texts may then
have been stored in a place, and none is ever taken back (`WrittenGrows`).
`DegradedIsExact` needs more, as long as nothing was repeated (`OnceInv`): each
key is written once and before its readers begin, so the copies of the chunks are
all the same; between the marking of the flag and the step of the embeddings the
flag is about the worker's list, and from that step on about the key (`EmbOnce`);
the vectors of inferences are those of the inferences, whichever of the two
workers makes them (`Aligned`). That no page is left out or misplaced is
`EntryKeeps`, and `ChunksKept` says it of the words of the stored text: the first part that reaches the end of the
text, or the one that begins at the last multiple of the step before a word, has
that word (`CutsCover`), and a turn of a recording never loses a segment
(`TurnsSay`).

The lemmas before it are about what the loops over texts return. None of them may
be an induction over sequences with an operator as its parameter, so a loop is a
function on `0 .. Len(s)` and `Iteration` proves once, by `SetInduction`, that such
a function exists and stays in the set its steps stay in. With it: the turns of a
recording (`TurnsType`), the merging of duplicates, which only ever keeps entities
it was given, under a key (`MergeAllType`, `MergeWindowsType`, `Deduplicate`);
what flattening and choosing return (`Flattening`, `FlattenHas`, `ChosenType`).
The proof found a mistake in an earlier form of the model that the run had not:
`TakesOne` asked about the first passage each time, so that in the mode of single
passages the others had no facts, and what has no facts has no wrong ones. It
came to light in the step of `InfInv` for that action.

Checked by TLC only: all liveness (`EventuallyAnnounced`, `EventuallyDrained`,
`SomebodyServed`, `EventuallyCompleted`, `ActiveEnds`, `EventuallySettled`),
since fairness and ENABLED are outside this prover. No property speaks of what a
merge of duplicates leaves out: it keeps the better of two similar names, and
which are similar is left open (`Alike` need not be transitive).

## 5. Where the code and its documents disagree

One disagreement is a run that TLC refutes, `BatchCrash`: a chunk whose worker
died before its acknowledgement is counted twice in batch mode, and the result is
stored with a chunk missing or doubled, though the code promises "no data loss,
no duplicates". The models show more, and were built to show them; each follows
from the actions of the module named in a few steps.

The inference stage and the job's life:

| module | what happens | promised at |
|---|---|---|
| `InferenceAdaptive` | a thread dies between the claim and RPUSH: the redelivery is taken for a duplicate and acknowledged, and the stage never ends | `inference_worker.py:1064` |
| `InferenceBatch` | an error in a full batch answers one delivery; the others stay unacknowledged and unhandled | `cmd/README_ARCHITECTURE.md:346` |
| `DeliveryEpoch` | a task answers on the connection that is current when a thread begins it (`inference_worker.py:1100`), not on the one its delivery came from | `inference_worker.py:1096` "a reconnect cannot route a stale-channel op onto a fresh connection" |
| `JobLifecycle` | a cancellation between the completion worker's look and its write (`completion_worker.py:752`) is overwritten by `completed` | `completion_worker.py:396`, `docs/textflow_review_actions.md:165` |
| `JobLifecycle` | the watchdog takes an old job that is `transcribing` or `analyzing_image` for a finished one and forgets it (`internal/redis/client.go:736`) | `docs/README_ARCHITECTURE.md:172` |
| `JobLifecycle` | the extraction worker writes `extracting` without looking and revives a cancelled job | `main.go:758` |
| `JobLifecycle` | the status is written before the results file, whose failure is ignored | `main.go:676` |
| `JobLifecycle` | SET of the status key in BaseWorker's error paths, a hash everywhere else | `client.go:137` |
| `JobLifecycle` | completed jobs stay in `active_jobs` until the watchdog comes by, and admission counts them | `client.go:845` |
| `JobLifecycle` | a job expired in the queue is revived outside `active_jobs`; its loss is noticed by nobody | `client.go:697` |
| `JobLifecycle` | an entry message redelivered after its worker died overwrites `completed`, and the client gets a second webhook | `docs/README_ARCHITECTURE.md:183` |

The processes that consume messages, and the batches:

| module | what happens | promised at |
|---|---|---|
| `ExtractionWorker` | a stopping worker leaves `async with connection` before it waits for its tasks: they go on without their channel, and their messages are given to others | `worker.py:1389` "Pending tasks are awaited before exit" |
| `ExtractionWorker` | the uploaded file is removed before the message is settled; a death in between fails the redelivered job | the `finally` clause, `worker.py:1364` |
| `ExtractionWorker`, `VisionPages` | a cancellation after the last look before the metadata is overwritten by `processing` | `worker.py:1182` |
| `Consumers` | BaseWorker marks a processed job as failed when its acknowledgement fails (`base.py:589` is inside the try statement) | "Permanent error", `base.py:623` |
| `Consumers` | without the delayed exchange a transient error is retried for ever | `base.py:546` |
| `Consumers` | a retry that a full queue refuses (`x-overflow: reject-publish`, no confirmations) is lost: the original is acknowledged all the same | `base.py:776-789`, `queue_args.py:48` |
| `Consumers` | BaseAsyncWorker dead-letters a transient error at once and leaves the status as it is; at a stop it acknowledges unread; a failure it cannot write to Redis is acknowledged and forgotten | `async_base.py:262-308` |
| `ArtifactStore` | an old artifact without references that is put again while the collector is between its scan of Redis and its removals is deleted: `put` leaves the age of a file it finds | `artifact_gc.py:142-165`, `artifact_store.py` (`put`) |
| `Batches` | only completed jobs are counted: one failed document, or one Redis call that failed while the batch was created, and the webhook never comes | `completion_worker.py:276` |
| `Batches` | the documents of a batch are not subject to admission control | `admission.go` |
| `VisionPages` | audio and image workers turn `cancelled` into `failed`; an empty transcription or image is a result, an empty document an error | `worker.py:1208` |

What is in a result:

| module | what happens | promised at |
|---|---|---|
| `VisionPages` | as soon as one page is replaced, the text is put together from pages, and a page that passed or is degraded loses what Docling has placed on no page: tables, items without `prov` or with a page out of range, and the whole page when `texts` is empty (`fallback.py:134-143`, `:269`) | `vision/fallback.py:10-14`, `:126` "never loses text"; `docs/extraccion-visual-verificacion-A.md:96` "nunca pierde texto" |
| `VisionPages` | the budget is charged for replaced pages only, not for errors or empty answers | `vision/fallback.py` (per-document budget) |
| `VisionPages` | the client's semaphore belongs to one document, whose pages go one by one: it bounds nothing | `vision/client.py:3-6` |
| `EmbeddingsStage` | a clean call for the vectors of inferences deletes the flag the chunks have set | `SPEC.md:78`, `docs/API.md:586` |
| `EmbeddingsStage` | a document extracted again while its vectors are made may end with vectors of its first text | `embeddings_worker.py:103` |
| `EntitiesStage` | a last window of less than half the size is not looked at | `sliding_window.py:11` "ensures complete coverage" |
| `EntitiesStage` | the threshold is said to be 288 tokens and is another | `sliding_window.py:291` |
| `EntitiesStage` | positions add a token offset to a character position; the regex service names chunks that are none of the job's | `entities_worker.py:285` |
| `EntitiesStage` | an entity that drifts to a similar text keeps its key, under which a later one overwrites it, whatever its confidence | `entity_utils.py:75-86` |
| `InferencesStage` | batch mode remembers filtered facts, and "none" for a passage the model has left out | `inference_worker.py:772` "raw inferences (before confidence filter)", `:1314` |
| `JobResult` | `resolve_entity_refs` is used by tests only: the facts keep the names the model gave | `entity_utils.py:101` |
| `JobText` | `chunk_text` does not end when the overlap is not less than the size (`ChunkAssumption`) | `worker.py` |

Several of the passing properties are therefore claimed only for the failures
their run names: `NotifiedOnce`, `CompletedStays` and `EventuallyCompleted`
hold under transient errors and deaths of stage workers (as long as the retries
last), not of entry workers;
`ActiveEnds` for documents only and short of the loss of the status itself;
`FinalComplete` in batch mode without failures; `NothingVanishes` short of the
faults in `Losses`; `StatusAgrees` and `EventuallyAnnounced` for undisturbed
batches; `ResultIsOfDocument` short of what Docling has placed on no page.
Some hazards of the list are just what such an exception leaves out, so no
property fails on their account: they are why the exception is there, and stand in
the tables above for that reason. Their notes in `PROJECT.json` say which they are.

## 6. Abstractions and bounds

* One job (or one worker process) per model, except in `ExtractionWorker` (two
  jobs of the same content) and `Batches`. Jobs share the queues and
  `active_jobs`; the constant `OtherJobs` says whether another job keeps
  `active_jobs` from being empty, which decides about the SCAN fallback.
* In the models of the inference stage, the job and the consumers, texts,
  results, prompts, chunks and metadata are opaque. A result is the number of its
  chunk; a step is a name in a set. In `JobResult` a text is a sequence of words,
  and tokens and characters are both words.
* One Redis command, broker operation or file write is one step. Consecutive
  writes of one process to different keys are one step where nobody reads them
  apart (for instance text, chunks and the step of the entry stage).
* A publish to a durable queue is not lost once confirmed. A confirm that times
  out leaves it open whether the message arrived (`PublishFault`). Full queues
  are in `Consumers` only, for the retries that are published unconfirmed.
* Redis keys do not expire: the 24 h lifetime of the keys and the expiry of the
  assembly lock are far above the time a job takes. The caches shared by all jobs
  do (`CacheExpires`, `MemoExpires`). Redis does not lose writes.
* No day passes between the put of an artifact and the SET of its key.
* A thread of the adaptive worker has the connection to itself in
  `InferenceAdaptive`; the shared connection is `DeliveryEpoch`'s subject.
  A shutdown returns its deliveries unprocessed there, which is a stutter of the
  job.
* The chunk claim makes the assembly lock redundant in adaptive mode; the batch
  mode needs it.
* `JobLifecycle` has the stages that BaseWorker runs. The inferences stage
  announces itself with a step and an event like them; how it gets there is the
  first group of modules.
* One worker per stage in `JobLifecycle` and `JobResult`: the messages of one job
  in one stage queue are handled one after the other, or overlap through
  redelivery (`lost`). Two workers side by side are `Consumers`' subject.
* `JobResult` has one status "failed", a field of the hash, which the entry worker
  overwrites like any other (`Begins`). The plain string BaseWorker leaves, on
  which that write raises, is the subject of `JobLifecycle`.
* A vector, an entity or a fact is the text it is made from; models and services
  answer with that, with a part of it, or not at all.
* Bounds: `MaxFailures`, `MaxDispatch`, `MaxDrops`, `MaxFaults` and `most` of an
  environment bound how often something goes wrong, `ExtraCopies` how many copies
  of a message there are at a time, `Handlers` how many uploads are handled at
  once; the proofs hold for every value of them.

## 7. Not modelled

* Server-sent events: a stream may miss the last event between its look at the
  status and its subscription, and then waits for its maximum duration. Nothing
  else depends on a stream.
* The orchestrator's RabbitMQ client: its channel pool loses a channel for good
  when one cannot be created again (`pool.go:181`). The models see a publish of
  the orchestrator as a step that succeeds, fails, or fails after the broker has
  taken it.
* Circuit breaker: no request goes through one. (Its open state has no way out
  but through a request, and admits none, `circuitbreaker.go:190`.)
* Wording of prompts, repair of broken JSON, patterns and check digits, vector
  arithmetic, sentence ends and token counts: pure functions of their input.
* Results and query handlers, download, health, metrics, logging, configuration:
  read-only, or write-only with respect to the jobs.
* Rate limiter and retry helper (a library's token bucket under one mutex, a
  sequential loop), content cache (not used by any program), resource manager
  (exports gauges), the model servers themselves, command line client, deployment
  scripts.

## 8. What could follow

1. Completeness of the entities: every name found is in the result or was merged
   into a better one. Windows are not complete: a short last one is left out.
2. An abstract specification of a job (created, working, ended) that
   `JobLifecycle` implements as far as section 5 allows.
3. The orchestrator's channel pool and `tryReconnect`, which replaces it under
   its users.

To check the project: `tlc -config <run>.cfg <module>` for each run of
`PROJECT.json`, `tlapm <module>` for each `*_proofs` module.
