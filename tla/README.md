# A TLA+ model of rag-engine

`rag-engine` is a C++ server for retrieval: a client posts a query, the server
embeds it, searches an HNSW index for the nearest chunks of a corpus and
replies with them. This directory holds TLA+ modules translated from the
program's source, TLC configurations that check them on small instances, and
theorems that TLAPS has checked: every safety property of the runs that pass is proved for
all values of the constants (section 4). The paths below are those of
the repository; `PROJECT.json` maps each definition to the lines it models.

    tlc -config qb_threads.cfg MCQueryBatcher     check one run
    tlapm QueryBatcherProofs.tla                  check the proofs of a module

## 1. The system

| Component | Source | State | Operations |
|---|---|---|---|
| QueryBatcher | `src/pipeline/query_batcher.cpp` | queue of batches, each with its queries and one promise, `mutex_`, `cv_`, `running_`, counters | `submit`, `flush`, `get_stats`, `background_loop`, `dispatch_batch`, `shutdown`, destructor |
| Embedding services | `src/embedding/*.cpp` | CPU: the generator behind `rand()`; ONNX: a session | `encode`, `encode_async`, `encode_batch_async` |
| FAISSIndex | `src/search/faiss_index.cpp` | `index_`, `metadata_`, `num_vectors_`, `dimension_` and files on disk | `load`, `save`, `search`, `is_loaded` |
| ResultMerger | `src/pipeline/result_merger.cpp` | none | `deduplicate_by_id` |
| RAGPipeline | `src/pipeline/rag_pipeline.cpp` | `ready_`, shared pointers to the three above | `query`, `query_async`, `load_corpus`, `is_ready` |
| HTTP server | `src/api/http_server.cpp` | the libuv loop, one handle per connection | `on_connection`, `on_read`, `on_write`, the handlers |
| MetricsCollector | `src/observability/metrics.cpp` | counters, gauges, bounded histograms | increment, set, observe, export, reset |
| CUDA utilities | `src/common/cuda_utils.cpp` | the context of the process; owners of device memory and of streams; a memory pool | select a device, construct, move, destroy, allocate, deallocate |
| ConfigManager, main | `src/common/config.cpp`, `src/main.cpp` | the configuration | read the file and the environment, choose the service, load, serve |

**How they interact.** `main` reads the configuration, makes the ONNX service or,
without a GPU or if that fails, the CPU service, loads the configured corpus, if any,
and runs the server. Every callback of the server runs on one loop thread. A query is handled
there from the read to the reply: `handle_query` calls `RAGPipeline::query`,
which submits the query to the batcher and blocks the loop in `future.get()`.
The dispatcher thread wakes up every `max_wait_ms`, takes the batches that are
due out of the queue under the mutex, and gives them to the embedding service,
whose continuation fulfils the promise; then the loop thread goes on with the
search, the merge, the metrics and the reply. `POST /index` replaces the index on
the same thread. A user of the library may also call `query_async()`, which runs each
query on a thread of its own.

**What is hard.** In the batcher: client threads, the dispatcher, `flush()`
callers, continuations and `shutdown()` interleave around one mutex that is not
held everywhere it should be, and a promise moves through five places. In the
index: `load`, failed loads and `save` in any sequence, with members that are
updated in part. In the server: requests that arrive in pieces, exceptions that
nothing catches, and a loop that waits for another thread. In the pipeline as a
library: queries that search an index while it is replaced, with one flag between
them. In the statistics: counters written and read one by one by several threads. In
the CPU service: one generator for the whole process. In the CUDA wrappers: moves and
failures of what is owned. At the start: several things that may be missing. Nothing but corpus files is persisted and
there is no recovery to model.

**What makes each correct.**

- QueryBatcher: no promise is dropped or fulfilled twice; a result never changes;
  no two callers wait for the same answer; the queue is served in order and a
  batch is put off once at most, so it waits no longer than two periods and a
  dispatch; whatever is accepted before the end is settled; `shutdown()` returns; the
  statistics account for every query, and a snapshot of them is wrong by no more than
  what is being counted.
- FAISSIndex: every vector has metadata, the vectors of one file only are
  indexed, the latest chunks describe them, and no load makes a loaded store
  unloaded, all of it also after a load that failed half way.
- Server and pipeline: one request has one response (it does not, section 5), the
  metrics agree with the responses, a query searches the index it was admitted for, results do not
  repeat an id, and whatever is sent is read.
- Pipeline as a library: the first load is safe beside any queries, an admitted query
  has an index, and every future gets a result.
- Embedding services: the embedding is a function of the text, and tells texts apart.
- CUDA utilities: every resource has one owner, misuse of a handle harms no other
  resource, and the pool's numbers add up.
- Start: the ONNX service only runs on a GPU that is there, and what is missing does
  not keep the program from serving.

`PROJECT.json` lists the hazards at their lines, each with the properties that
would catch it going wrong, or the reason why none does.

## 2. The modules

| Module | Models | Kind |
|---|---|---|
| `EncodingService` | what the batcher promises the callers of `submit()` | abstract |
| `QueryBatcher` | the batcher, thread by thread; implements `EncodingService` | detailed |
| `QueryBatcherProofs` | theorems about `QueryBatcher`, with its refinement | proofs |
| `BatchStatistics` | the batcher's counters, access by access, with `get_stats()` | detailed |
| `BatchStatisticsProofs` | theorems about `BatchStatistics` | proofs |
| `BatchWindow` | the batcher's loop with a clock and integers of a width | detailed |
| `BatchWindowProofs` | theorems about `BatchWindow` | proofs |
| `FaissIndex` | the vector store and the corpus files | detailed |
| `Metrics` | the metrics collector | operators |
| `RagServer` | server, pipeline, merger on the loop thread; extends `FaissIndex` and `Metrics`, uses `EncodingService` for the batcher | composition |
| `RagServerProofs` | theorems about `FaissIndex` and about `RagServer` on it | proofs |
| `RagPipeline` | the pipeline on threads of its own; uses `EncodingService` for the batcher | composition |
| `RagPipelineProofs` | theorems about `RagPipeline` | proofs |
| `CpuEmbedding` | the CPU embedding service on the shared generator | detailed |
| `OnnxEmbedding` | both embedding services behind their interface; extends `CpuEmbedding` | composition |
| `EmbeddingProofs` | theorems about both embedding services | proofs |
| `CudaUtils` | CUDA context, wrappers and pool | detailed |
| `Startup` | `main()` and the configuration; extends `CudaUtils` | composition |
| `StartupProofs` | theorems about `CudaUtils` and `Startup` | proofs |
| `SumTheorems` | lemmas on induction, recursion and sums over finite sets | proofs |
| `MCQueryBatcher`, `MCBatchStatistics`, `MCBatchWindow`, `MCFaissIndex`, `MCRagServer`, `MCRagPipeline`, `MCEmbedding`, `MCStartup` | values of the constants for TLC | instances |

The composition is by contract. `RagServer` does not repeat the batcher's
threads, nor does `RagPipeline`: a loop thread accepts a request with `Batcher!Accept` and waits until
`Batcher!Settle` has happened, and the run `qb_service` shows that `QueryBatcher`
allows nothing that `EncodingService` does not.

### QueryBatcher

One request is one call of `submit()`: its queries, its promise and its
`PendingBatch`, since every `submit()` makes a batch of its own. Each action is
one step of one thread between two points where another thread can act:

| Code | Actions |
|---|---|
| `submit()` | `SubmitEmpty`, or `SubmitBegin`, `SubmitLock`, `SubmitPush`, then outside the lock `TakeFuture`, `SubmitThrows` or `SubmitFaults`; the caller's `get()` is `Collect` |
| `background_loop()` | `LoopTest`, `WaitBegin`, `Park`, `WakeNotified` or `WakeTimeout`, `StopSeen` or `SampleNow`, `DrainFront`, `DrainEnd`, `LoopDispatch`, `LoopCount`, `DispatchEnd` |
| `dispatch_batch()` | `DispatchBatch`, its continuation `RunThen` |
| `flush()` | `FlushCall`, `FlushLock`, `FlushTake`, `FlushDispatch`, `FlushCount`, `FlushEnd` |
| `shutdown()`, destructor | `StopRunning`, `StopNotify`, `StopJoin`, `Destroy` |

- *The unlocked read.* `submit()` reads `pending_batches_.back()` after the lock
  is released. `TakeFuture` takes the last batch of the queue as it is then;
  `SubmitThrows` is the exception of a second `get_future()`; a read of an empty
  deque, or of one another thread is changing, is undefined behaviour, of which
  the model allows each outcome a build can produce: a future, an exception or
  the loss of the process (`SubmitFaults`).
- *Time* is the number of submissions so far. The dispatcher reads the clock once
  per round, after a wait of `max_wait_ms`, so what was in the queue when the wait
  began is due and of the rest any prefix may be (`Sampled`). What can be said about durations is said in `BatchWindow`, and
  `total_wait_time_us_` is left out.
- *The condition variable.* A notification reaches the dispatcher only while it is
  parked. A spurious wake-up does what a notification does while `running_` is
  true, so it needs no action.
- *The service* answers with some embeddings or with none (an exception or an
  empty vector). A batch has one promise and gets the first embedding alone
  (`Delivered`), so how many more there are does not matter.
- *The counters* of a batch are updated in one step; `BatchStatistics` takes that step
  apart.
- `Destroy` needs that no call is in progress, as every C++ object does. A future
  may be outstanding.

### BatchStatistics

The queue is reduced to the sizes of batches, each counter is an atomic, and each
access is a step: `Add` for a `fetch_add`, `Compare` and `Assign` for the test and the
store of minimum and maximum, `ReadField` for each load in `get_stats()`. The orders
of the code, which the properties depend on, are the sequences `LoopOrder`,
`FlushOrder` and `ReadOrder`. The clock is not in it. A snapshot may still show more
queries in batches than were submitted, or an average above the maximum: the
properties say what it cannot show.

### BatchWindow

One dispatcher, one clock. `Wake` ends the wait and takes the mutex, `Drain` looks at one
batch, `DrainEnd` puts back those that are kept, `Dispatch` hands one over; no time passes
in a drain, which reads the clock once, and `submit()` waits for its end. `Tick` lets time
pass for every batch until the dispatcher has to act, within `Jitter` of the end of its wait and `Encoding` for each call of the
service. `flush()` and the mutex are left out; a `flush()` only shortens a wait.
`max_wait_ms * 1000` is computed in `int`: `Products` has both results that builds
give when it overflows; an `int` lies in `-IntHalf..IntHalf - 1`. `Unsigned` is the conversion of `max_batch_size` to `size_t`.

### FaissIndex

A vector is named by the file and the position it comes from, and so is a chunk of
metadata: whether a search result is described by its own chunk is a comparison of
names. `LoadCorpus` is `load_corpus()` with its early return for an unreadable
file and its exception for a header whose vectors cannot be allocated. `Fits` says for
which numbers they can: their product, a `size_t` in the code, is no negative number
and at most `MaxFloats`. A bad header is thus any other pair, a negative count or
dimension or too large a product; two negative numbers fit, and give no vectors. The
exception comes after `num_vectors_` and `dimension_` have been set (`HeaderTaken`), and
leaves an index and metadata of earlier loads as they are.
`BuildIndex` is `build_index()`, which carries vectors over from a flat index only.
`Loads` and `LoadThrows` are the two ends of `load()`: besides the header, the
index library may throw, at any load that has something to add or to build,
and then the metadata and a flat index of `load_corpus()` stay behind. `Save` writes a
header, and vectors only of a flat index. `Search` may store a width in the index. FAISS itself
is not in `src/`: the index is the sequence of vectors that were added, and an
approximate search may return any positions. Scores are left out.

After a bad header, a flat index that a refused build has left has another size than
`num_vectors_` says. `build_index()` and `save()` then read beyond its end. Of what may
follow the model has the outcomes that leave a process: the build throws (`Buildable`
is false), and a save writes a header that no load accepts (`Saved`).

### RagServer

A message is a route and its fields; a POST travels as two segments, head and body,
and one read returns any number of the segments that have arrived (`Chunk`), so
requests arrive whole, split or run together; as in the code, only the first
segment decides the route, and nothing is kept for the next read. What `on_read` does with a chunk is one
of the actions `Simple`, `IndexRejected`, `IndexLoads`, `QueryUnparsed`,
`QueryRejected`, `QueryAccepted`. A query has a second half, `QueryAnswered` or
`QueryThrows`, because other threads run while the loop waits. An exception in a
callback ends the process (`Crash`), as nothing between a handler and `uv_run`
catches one. `ConnectionRefused` is an `uv_accept()` that fails: the handle is deleted while
libuv is closing it, so the process may go as well. An error status of
`on_connection()` changes nothing. Segments are no smaller than a head or a body. A read that ends within one of them
takes the same branches: an unknown path, a field that is missing, or a corpus path
that names no file.
The batcher always has an embedding for a query it answered, so the
"no embeddings" branch of `execute_query` cannot be reached and is not modelled.
`top_k = 0` is not among the messages. `stop()` is not modelled: nothing calls it
while the loop runs.

A duration is named by the query it timed, so that `MetricsAgree` can say which
durations the histogram has.

### Metrics

Every call of the collector holds its mutex throughout, so each is an operator that
`RagServer` uses in one step. `Percentile` is the index computation of the export;
the assumption `MCPercentiles` of `MCRagServer` compares it with the definition of a
percentile, for all histograms of up to six values of three sizes and for one of each
number of values up to 200.

### RagPipeline

`load_corpus()` is one action per change of a member: the metadata, the flat index
(which frees the old one), the vectors, the HNSW index, the flag. `query()` is split at
`is_ready()` (flag, then index), `submit()`, `get()` and `search()`. Nothing locks the
index: `QueryFaults` and `LoadFaults` are the uses of an index or metadata that another
thread frees or moves, after which the model stops. `search()` may throw, for a number
of results that is none (`QuerySearchThrows`). The future that `submit()`
returns may be that of another query, as in `QueryBatcher`.

### CpuEmbedding and OnnxEmbedding

`srand` and each `rand` are steps, because the C library locks each call and nothing
locks the pair. Numbers are named by seed and place. `alone` records, for the
properties only, whether another thread used the generator meanwhile.
`OnnxEmbedding` adds the other service: a text is a row of tokens (`Row`), the model,
which is not in `src/`, gives a vector named by the row and, with an output of three
dimensions, by the token, and `Start` picks the vector of a text as the code does.
`rank` is chosen at the start: 0 is the CPU service, 1 to 3 the dimensions of a
model's output. Everything in the ONNX service happens on local data in the calling
thread, so a batch is one step.

### CudaUtils

An owner is a `CUDAMemory` or a `CUDAStream`; both have the same constructors, moves
and destructors, over blocks or over handles. The CUDA runtime is not in `src/`: it
gives out what is not in use, or refuses. `live` is what it has given out, and `freed`
has what was freed when it was not. Two things the context does with streams are unsound,
and the model goes on after both: `create_stream()` does not look at a refusal and manages
what its variable held, any handle (`CreateStream`), and `destroy_stream()` destroys any
handle it is given, also one destroyed before or that of a `CUDAStream` (`DestroyStream`).
`strayed` has the handles to which either has happened. Copies, synchronisation and memory queries change
nothing.

### Startup

`main()` from the file to the server, one action per stage. The environment is chosen
at the start: `RAG_USE_CUDA`, `RAG_CUDA_DEVICE`, one variable for the others that hold a
number, whether the model, the corpus and the port are good. `LoadFromFile` has no
effect on the configuration, as in the code. The ONNX runtime is not in `src/`: its CUDA
provider refuses a device that is not there, and anything in the constructor may throw.
The program itself uses of `CudaUtils` the context only; the stage `"library"` is
another program that uses the wrappers and the pool.

## 3. The runs

| Run | Instance | Shows |
|---|---|---|
| `qb_threads` | 2 clients, 1 flusher, dispatcher, stopper | `TypeOK`, `MutexHeld`, `PromiseHeldOnce`, `NoSharedFuture`, `EveryQueryCounted`, `OldestFirst`, `OnlyFreshKept`, `NoOvertaking`, `SettledOnce` |
| `qb_service` | 1 client, 1 flusher, a small and a large request, fair | refinement `ServiceSpec`, `ShutdownCompletes` |
| `qb_own_future` | 2 clients | violated: `submit()` can return another caller's future |
| `batch_stats` | dispatcher, 1 flusher, 1 reader, 3 batches of 1 or 3 | `AverageNotLow`, `CountLags`, `ExtremaExact`, `AverageInRange` |
| `batch_window` | 7 values of `max_wait_ms`, 2 of `max_batch_size`, 3 batches of 1 or 2 | `WaitBounded`, `LargePrompt` |
| `faiss_index` | 5 files: two good, one with a negative dimension, one absent, one with two negative numbers | `StoreTypeOK`, `MetadataCovers`, `OneFileIndexed`, `LatestDescribed`, `StaysLoaded` |
| `faiss_described` | the same | violated: after a second load, vectors are found with chunks of the first file |
| `rag_server` | 2 connections, 2 messages of 8 kinds, fair | `NothingToBatch`, `MetricsAgree`, `ResultsDistinct`, `ReadyIndexBuilt`, `AdmittedIndexSearched`, `EverythingRead` |
| `rag_one_reply` | the same | violated: a POST in two reads has two responses |
| `rag_pipeline` | 2 queries, 2 loads of any kind of file, fair | `TypeOK`, `FirstLoadSafe`, `AdmittedLoaded`, `EveryQueryEnds` |
| `embedding` | 2 threads, 3 batches of up to 2 texts, either service | `CpuDeterministic`, `FunctionOfText`, `Distinguishes` |
| `startup` | every environment, 0 to 2 devices; 2 owners of memory, 1 of a stream, 2 blocks, 2 handles, fair | `TypeOK`, `OwnedOnce`, `PoolAccounts`, `OnnxOnGpu`, `ServesAnyway` |

Deadlock is not checked where the system really stops: once everything has been
submitted and answered, or the process has ended. Each property of a passing run
has a mutant in `PROJECT.json`, a plausible bug in one definition with which the
property fails under the same configuration.

**Bounds, and why they are enough.**

- `Requests`, `Clients`, `Flushers` (batcher): two submitters and a flusher beside
  the dispatcher give every pair of threads that meet at the queue. In `qb_threads` two
  batches are below `MaxBatchSize = 2`, so the one is kept while the other passes, and
  the third `submit()` has no queries; no batch there is large. The size trigger is in
  `qb_service`, whose second request has two queries, and in `batch_window`, and the
  theorems are for any sizes. Each request is
  submitted once and each flusher flushes once; the theorems hold without
  these bounds.
- `INT64_MAX = 9` is larger than any batch; only the initial minimum needs it.
- `MaxMetadata` bounds `metadata_`, which only grows. Six chunks allow three loads of
  one file or a load of each good file, a saved one included, and any number of loads
  that read nothing or fail: a load over a load over a load.
- `MaxFloats = 6` has room for every good file; a product that is too large and one that
  is negative take the same branch, and the run has the negative one.
- `Widths` are the default and the configured width, the two the code compares.
- `MaxSent = 2` (server): a query while or after an index is loaded, on one
  connection or on two; with the boot load this gives repeated ids in metadata.
  `MaxHistogram = 1` is reached by the first query and exceeded by the second.
- `MaxBatch`, `Batches` (embedding): two texts in a batch and three batches, so
  encodings follow each other within a batch, across batches and across threads. Rows
  of two tokens and three texts that differ in the first byte, in a zero byte at the
  end, and beyond the row.
- `MaxBatches` of `BatchStatistics`: three batches, one for each worker and one more,
  of sizes that make an average differ from both extremes.
- `IntHalf = 8`, `Scale = 3` (`BatchWindow`): an `int` of sixteen values, so that of the
  waits 3 ms overflows to a negative number, 6 ms to a small positive one, and -3 ms, which
  is no wait at all, to the largest product there is.
  `Jitter` and `Encoding` of one tick make every bound of the properties tight.
- Two loads and two queries (`RagPipeline`): a query that meets the first load, one
  that was admitted before a second, and two loads that meet each other.
- `Blocks`, `Handles`, `Sizes` (`CudaUtils`): two owners of memory beside the pool
  compete for two blocks, so that addresses come back; moves take two objects. Wrappers
  of streams are the same code over handles: one, beside the context and two handles, is
  enough to have its handle destroyed by the context, or twice.
- `DeviceIds` (`Startup`): a negative device, the first, the second and one too high.

**Fairness.** In `QueryBatcher`, a thread that has begun something goes on with it:
clients in `submit()` and with a resolved future, the loop, a flush, a continuation,
and `shutdown()` once `running_` is false. All of it is weak fairness of what the
operating system schedules; nobody is obliged to call `submit()`, `flush()`,
`shutdown()` or the destructor. A thread that waits for the mutex is not
promised it against one that takes it over and over again. Only the loop does that,
and neither `ServiceSpec` nor `ShutdownCompletes` rests on another thread getting in. In `RagServer`, the two ends of
a blocked query are weakly fair and the batcher settles what it accepted, which
is the promise of `EncodingService`; reads and accepts are strongly fair because the
poll of libuv reports every readable handle and serves each before it polls again,
so a connection is not passed over for ever while others keep the loop busy. A connection
may be refused; `EverythingRead` then asks nothing for it.
Clients are under no obligation. In `RagPipeline`, a thread of a query or of a load
that has begun goes on, and the batcher settles what it accepted; nobody has to call
`query_async()` or `load_corpus()`. In `Startup`, `main()` goes on. No other module
states fairness.

## 4. What is proved

All theorems hold for every value of the constants that meets the assumptions, which the
modules name and TLC evaluates: any number of threads, requests, connections, messages,
files, loads, texts, devices, and sizes of any value, and infinitely many where no assumption
says otherwise. Every invariant and every action property of a passing run is a theorem, and
so is the safety half of the refinement; the bounds of section 3 matter for liveness only.

**QueryBatcherProofs**, from `ThreadsAssumption` (the threads are distinct) and
`SizeAssumption` (sizes are numbers):

- `TypeCorrect`, `Spec => []TypeOK`. `TypeOK` is inductive; besides types it has
  that a worker that counts a batch still has it, and a client has a request, or a
  future, exactly in the places of its program where it should.
- `MutualExclusion`, `Spec => []MutexHeld`, on top of `TypeOK`: every step that
  enters or leaves a critical section takes or releases the mutex.
- `PromisesAreHeldOnce`, `Spec => []PromiseHeldOnce`. The inductive invariant is
  `HeldInv == TypeOK /\ HandsEmpty /\ PromiseHeldOnce`. `HandsEmpty` says that a
  worker's `batches_to_dispatch` is empty except between the moment it is filled and
  the end of its dispatch, and `remaining` is empty outside the drain. Without it
  `FlushTake`, which replaces the vector, might drop promises. The proof has one lemma
  for each kind of move of a promise: from a client to the queue, from the front
  of the queue to a worker or to `remaining`, back, and into a continuation.
- `ResultsAreFinal`, `Spec => SettledOnce`: a step that writes a promise writes one
  that is held somewhere, so by `PromiseHeldOnce` one that is unfulfilled.
- `FuturesAreNotShared`, `Spec => []NoSharedFuture`: the future a caller waits for is
  in `retrieved`, and `TakeFuture` only returns one that is not.
- `ImplementsService`, `Spec => ServiceSafe`: each step of the batcher is, under the
  refinement mapping, a step of `EncodingService` or none. On top of `HeldInv` it needs
  `JoinedDone`: the destructor runs when the dispatcher is done, so that what is
  left in the queue then came after `Closed` and is late. A step that settles a promise
  finds it held, hence accepted.
- `QueueInOrder` and `OldBatchesGo`, from `QueueOrder`: the queue and what the drain
  keeps are in the order of `enqueued_at`, the kept ones first, and those are all younger
  than the instant the drain compares with.
- `NobodyOvertaken`, from `OrderInv`, which adds `HandedInOrder`: what came earlier than a
  small batch is handed over already, or ahead of it in the dispatcher's vector.
- `QueriesAreCounted`, `Spec => []EveryQueryCounted`. `CountInv` adds to `HeldInv`
  that a batch in the hands of a worker that counts is with the service, and with that
  worker only; `Accounted` that the requests on their way are finitely many. Each of
  the steps that count moves one request out of `Uncounted`, and `SumAdd` gives its size.

**BatchStatisticsProofs**, from `StatisticsAssumption` (finitely many callers of `flush()`,
sizes below `INT64_MAX`): `ExtremesAreExact`, `AverageIsInRange`, `AverageIsNotLow`,
`CountLagsByHands`. The invariants say what each counter lacks at each place of a worker's
updates: `ExtremesInv` for the test and the store of the extremes, `AverageInv` and
`SumInv` for sum and count, and `LagInv` that the batches dispatched are those counted and
those in hand, of which there are no more than workers. `AllReadSums` and `AllReadLags`
carry that along the seven reads of a snapshot, by monotony of what is read later.

**BatchWindowProofs**, from `WindowAssumption`: `WaitsAreBounded` and `LargeBatchesArePrompt`,
for any `max_wait_ms` and any range of `int`. In `WindowInv` a batch in the queue is no
older than its one wait so far and the dispatches of the round that are over; a kept one is
younger than the limit; one that is out has, beside its own, at most the dispatches
that are over. With at most `MaxBatches - 1` others that adds up to the bound.

**RagServerProofs**, from `CorpusAssumption` (files of the shapes of section 2, whose
vectors are their own), `ServerAssumption` (requests are numbered, a `corpus_path` is the
name of a file, that may be absent) and `HistogramAssumption`:

- of the store, `StoreTypeCorrect`, `EveryVectorCovered`, `IndexHoldsOneFile`,
  `LatestChunksDescribe`, `LoadedForGood`. `StoreTypeOK` says of a left-over flat index
  that it has `num_vectors_` vectors wherever that many can be allocated, and only
  then: the exception is the finding at `faiss_index.cpp:55`. The inductive
  invariant `StoreInv` adds to the properties that the index is never larger than the
  metadata (`Covered`) and that no file mixes the vectors of two (`Unmixed`). The latter
  is what `save()` could disturb: it may write the flat index of a failed load over the
  file of another corpus, whose vectors are then no longer its own, but still those of
  one file. The lemma `Reading` covers both ends of a load that has read its file.
- `ServerRunsStore`: the server takes only steps of the store, from `LoopInv`, by which
  what is read from a connection comes from messages. `ServedIndexDescribed` has the
  store's theorems in the server.
- `OneAtATime`, from `WaitingInv`: an accepted request is the one the loop thread
  waits for. `NothingLoadsMeanwhile`: while it waits it reads nothing.
- `QueriesReachBuiltIndex`: a load that returns leaves an HNSW index, or no metadata,
  and searches change neither.
- `ResultsAreDistinct`: `Merge` is a fold over the results. Its value for a sequence of any
  length comes by induction over the positions merged (`MergeDistinct`), where
  `SetRecursion` gives the function that the fold chooses.
- `MetricsMatchReplies`, from `TimedInv`: the request under way is the next after
  those answered, and the requests submitted are these; a reply adds to the
  successes exactly if it is one (`Replied`), and the histogram moves on by one
  (`ObserveLatest`), full or not.

**RagPipelineProofs**, from `PipelineAssumption` (the null index is none of the others):
`TypeCorrect`; `AdmittedQueriesFindAnIndex`, as an index is replaced and never taken away;
`OneLoadIsSafe`, from `FirstLoadInv`: until a second load begins, the flag says that
the load is over, the index is whole when it ends, and a query past the flag has that index.

**EmbeddingProofs**, from `EmbeddingAssumption` and `OnnxAssumption`: `CpuIsDeterministic`,
`DependsOnTextOnly`, `TellsTextsApart`. `EmbInv` says that a caller who is alone since its
`srand` finds the generator where its own draws left it, so that its numbers are
those its seed begins.

**StartupProofs**, from `CudaAssumption` (addresses and handles are distinct from null, sizes
positive) and `StartupAssumption` (counts of devices are numbers): `StartTypeCorrect`;
`ResourcesAreOwnedOnce`, from `OwnershipInv`, which adds types and that the pool has an
address once. It is proved resource by resource (`Orderly`): a step that destroys a
handle nobody manages disturbs that handle and no other resource (`Untouched`), so blocks
are in order always and a handle as long as it has not strayed.
`SessionOnDevice`, from `StartInv`, by which nothing touches the context once
there is a service; `PoolAddsUp`, with the sum over the allocations.

**SumTheorems.** The library's induction theorems take an operator, which the provers
cannot instantiate. `NatSetInduction` takes a set instead, and is proved by its least
counterexample; with it, sums over finite sets (`SumTake`, `SumAdd`, `SumSame`) and
recursion over the subsets of a finite set (`SetRecursion`) are proved for all finite sets.

**Only model-checked.** Liveness (`ShutdownCompletes`, `EverythingRead`, `EveryQueryEnds`,
`ServesAnyway`, the fairness half of `ServiceSpec`), which these provers cannot prove under
fairness; and `PercentilesRight`, a statement about sorted sequences. The three violated
properties are refuted by their runs.

**Changed for the proofs.** The assumptions of `Startup`, `RagPipeline`, `BatchStatistics`
and on `corpus_path` in `RagServer` state what the instances had; `TotalSize` and
`EveryQueryCounted` are in `QueryBatcher`. Sums are `SumFunctionOnSet`, and `Merge`
folds an operator with a name, so that both can be reasoned about. A proof attempt showed
that `WaitBounded` did not hold for a negative `max_wait_ms` whose product overflows to a
positive one; the property and the run have that case now.

## 5. What the checks found

Three runs end in a counterexample, each against a statement of the repository:

1. `OwnFuture`: `submit()` reads the queue after its lock and can return the future of
   another client's request (`query_batcher.cpp:167`).
2. `FoundDescribed`: metadata is appended at each load while the index is replaced, so
   results carry the text of an earlier corpus (`faiss_index.cpp:70`). What holds
   instead is `LatestDescribed`: the vectors belong to the end of the metadata.
3. `OneReplyEach`: a request in two reads is answered twice (`http_server.cpp:288`).

Other disagreements are plain from the code that the models are made of. The gravest:
a batch of several queries has one promise and gets one embedding
(`query_batcher.cpp:116`); a header that throws has set `num_vectors_` already, so that
`size()` is wrong, and with a left-over flat index `save()` reads beyond its end
(`faiss_index.cpp:55`); `destroy_stream()` destroys what it does not manage
(`cuda_utils.cpp:47`); `submit()` does not look at `running_`, and a request after the
final flush waits until the destructor (`:151`); `save()` writes no vectors of an HNSW
index (`faiss_index.cpp:127`); an `IndexHNSW` made as at `:90` has no storage, for which
current versions of FAISS throw in `add()`; a model with a vector per token yields the
first tokens of the first text as the embeddings of a batch (`onnx_runtime.cpp:183`).

`PROJECT.json` has these and further disagreements between code and documentation
that were met while modelling, with the lines of both. Some results belong here
although they hold. `NothingToBatch`: the loop thread blocks in each query, so the
batcher never has two queries to put together. `WaitBounded`: the bound is two periods,
where the documentation has one, and it is reached. A negative `max_wait_ms` is a case of
its own: the loop does not sleep, and a batch is kept while it is younger than what the
product overflows to, which an `int` bounds (`Longest`). `FirstLoadSafe` and
`CpuDeterministic` have premises, at most one load and nobody else at the generator,
that the code does not enforce.

## 6. What is not modelled

- Tracing, types, protocol buffers, scripts: logging, plain data, and code around the
  program.
- Of the configuration: the values that pass through it unchanged.
- Of the pipeline: `rebuild_index_async`, which does nothing.
- Of the server: the bytes of responses, the memory of handles, `stop()`.
- Of the metrics: the text of the export, and other metrics, which nothing writes.
- Of the index: the dimension of a query (of another than the index, it is read beyond
  its end), scores, and `add()`, which is declared and not defined. Which width a
  search runs at changes no result of the model.
- Of the embedding services: floating point, and the names of the model's inputs.
- Memory models weaker than sequential consistency: the atomics of the code are
  sequentially consistent by default, and where plain data race, the outcome is a fault.

## 7. Plan

Done, in this order: `QueryBatcher` with `EncodingService` and its first proofs, as
the only concurrent component with shared data; `FaissIndex` with its proofs;
`RagServer` as the composition of both; `CpuEmbedding`; then `BatchStatistics`,
`BatchWindow`, `RagPipeline`, `OnnxEmbedding`, `Metrics`, `CudaUtils` and `Startup`, and
loads that fail in `build_index()`; then the proofs of every safety property.

Next:

1. Stronger safety, now that the invariants are there: what `EncodingService` promises,
   stated of the server's replies (a query has status 200 only if the batcher gave it a
   value); that `answer` has chunks of the metadata only.
2. `get_future()` of another's promise (`OwnFuture`): what holds instead for a caller
   who is alone in `submit()`.
3. `PercentilesRight`, which needs the sorted sequence of `SortSeq` by other means.
