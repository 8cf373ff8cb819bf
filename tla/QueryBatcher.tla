----------------------------- MODULE QueryBatcher -----------------------------
(****************************************************************************)
(* The query batcher (src/pipeline/query_batcher.cpp): client threads put   *)
(* batches of queries into a queue under a mutex and get a future for each; *)
(* a dispatcher thread wakes up every max_wait_ms, hands the batches that   *)
(* are due to the embedding service and counts them; continuations of the   *)
(* service fulfil the promises; flush() may be called by anybody at any     *)
(* time; shutdown() and the destructor end it all.                          *)
(*                                                                          *)
(* A request is one call of submit(): its queries, its one promise and its  *)
(* place in the queue.  Each submit() makes a PendingBatch of its own.      *)
(****************************************************************************)
EXTENDS Integers, Sequences, Functions

CONSTANTS
    Requests,       \* the calls of submit()
    Clients,        \* threads that call submit() and wait for the answer
    Flushers,       \* threads that call flush(), each once
    Dispatcher,     \* the thread of background_loop()
    Stopper,        \* the thread that calls shutdown() and the destructor
    Size,           \* Requests -> Nat: queries.size() of each call
    MaxBatchSize,   \* config_.max_batch_size
    INT64_MAX,      \* initial value of min_batch_size_
    NoRequest,      \* "this thread is not in submit()"
    NoThread        \* "nobody holds mutex_"

Workers == Flushers \cup {Dispatcher}
Threads == Clients \cup Workers \cup {Stopper}

ASSUME ThreadsAssumption ==
    /\ Clients \cap Workers = {}
    /\ Dispatcher \notin Flushers
    /\ Stopper \notin Clients \cup Workers
    /\ NoThread \notin Threads

ASSUME SizeAssumption ==
    /\ Size \in [Requests -> Nat]
    /\ MaxBatchSize \in Nat
    /\ INT64_MAX \in Nat
    /\ NoRequest \notin Requests

VARIABLES
    running,        \* running_
    mutex,          \* the thread that holds mutex_, or NoThread
    notified,       \* cv_ has been signalled and the dispatcher not yet woken
    pending,        \* pending_batches_
    remaining,      \* background_loop()'s local queue of batches to keep
    held,           \* per worker: its local vector batches_to_dispatch
    clock,          \* time as the number of submissions so far
    enqueued_at,    \* per request: the clock when it entered the queue
    since,          \* the clock when the dispatcher began its present wait
    now,            \* requests enqueued at or before now have waited max_wait_ms
    promise,        \* per request: the state of its promise
    embeddings,     \* per request: size of the vector its promise was given
    retrieved,      \* requests whose promise has had get_future() called on it
    cont,           \* per request: the result its continuation is to run with
    cur,            \* per client: the request it is submitting or waiting for
    fut,            \* per client: the request whose future submit() returned
    stats,          \* the statistics counters
    pc,             \* per thread: where it is
    crashed         \* undefined behaviour has taken the process down

sync     == <<running, mutex, notified>>
queues   == <<pending, remaining, held>>
time     == <<clock, enqueued_at, since, now>>
promises == <<promise, embeddings, retrieved, cont>>
callers  == <<cur, fut>>
vars == <<sync, queues, time, promises, callers, stats, pc, crashed>>

Settled == {"value", "error", "broken"}

Init ==
    /\ running = TRUE
    /\ mutex = NoThread
    /\ notified = FALSE
    /\ pending = <<>>
    /\ remaining = <<>>
    /\ held = [w \in Workers |-> <<>>]
    /\ clock = 0
    /\ enqueued_at = [r \in Requests |-> 0]
    /\ since = 0
    /\ now = 0
    /\ promise = [r \in Requests |-> "none"]
    /\ embeddings = [r \in Requests |-> 0]
    /\ retrieved = {}
    /\ cont = [r \in Requests |-> "idle"]
    /\ cur = [c \in Clients |-> NoRequest]
    /\ fut = [c \in Clients |-> NoRequest]
    /\ stats = [total_queries_submitted |-> 0, total_batches_dispatched |-> 0,
                total_queries_in_batches |-> 0, batch_size_sum |-> 0,
                batch_count |-> 0, min_batch_size |-> INT64_MAX,
                max_batch_size |-> 0]
    /\ pc = [t \in Threads |-> IF t = Dispatcher THEN "loop"
                               ELSE IF t = Stopper THEN "running" ELSE "idle"]
    /\ crashed = FALSE

At(t, label) == ~crashed /\ pc[t] = label

Move(t, from, to) ==
    /\ At(t, from)
    /\ pc' = [pc EXCEPT ![t] = to]
    /\ UNCHANGED crashed

(* Mutant of Acquire: the lock is not waited for. *)
AcquireAtOnce(t) == mutex' = t

Acquire(t) == mutex = NoThread /\ mutex' = t
Release    == mutex' = NoThread

-------------------------------------------------------------------------------
(* submit() *)

(* queries.empty(): the promise is fulfilled with {} before it is returned. *)
SubmitEmpty(c, r) ==
    /\ At(c, "idle")
    /\ pc[Stopper] # "destroyed"
    /\ promise[r] = "none"
    /\ Size[r] = 0
    /\ promise' = [promise EXCEPT ![r] = "value"]
    /\ retrieved' = retrieved \cup {r}
    /\ UNCHANGED <<sync, queues, time, embeddings, cont, callers, stats, pc, crashed>>

SubmitBegin(c, r) ==
    /\ Move(c, "idle", "lock")
    /\ pc[Stopper] # "destroyed"
    /\ promise[r] = "none"
    /\ Size[r] > 0
    /\ promise' = [promise EXCEPT ![r] = "unset"]
    /\ cur' = [cur EXCEPT ![c] = r]
    /\ UNCHANGED <<sync, queues, time, embeddings, retrieved, cont, fut, stats>>

SubmitLock(c) ==
    /\ Move(c, "lock", "push")
    /\ Acquire(c)
    /\ UNCHANGED <<running, notified, queues, time, promises, callers, stats>>

(* notify_one() reaches the dispatcher only while it is parked in wait_for. *)
SubmitPush(c) ==
    /\ Move(c, "push", "get")
    /\ pending' = Append(pending, cur[c])
    /\ clock' = clock + 1
    /\ enqueued_at' = [enqueued_at EXCEPT ![cur[c]] = clock + 1]
    /\ stats' = [stats EXCEPT !.total_queries_submitted = @ + Size[cur[c]]]
    /\ notified' = (notified \/ pc[Dispatcher] = "wait")
    /\ Release
    /\ UNCHANGED <<running, remaining, held, since, now, promises, callers>>

(* Mutant of TakeFuture: get_future() may be called again. *)
TakeFutureAgain(c) ==
    /\ Move(c, "get", "wait")
    /\ pending # <<>>
    /\ fut' = [fut EXCEPT ![c] = pending[Len(pending)]]
    /\ retrieved' = retrieved \cup {pending[Len(pending)]}
    /\ UNCHANGED <<sync, queues, time, promise, embeddings, cont, cur, stats>>

(* pending_batches_.back().promises[0].get_future(), after the lock has been *)
(* released: the last batch of the queue now, whoever put it there.          *)
TakeFuture(c) ==
    /\ Move(c, "get", "wait")
    /\ pending # <<>>
    /\ pending[Len(pending)] \notin retrieved
    /\ fut' = [fut EXCEPT ![c] = pending[Len(pending)]]
    /\ retrieved' = retrieved \cup {pending[Len(pending)]}
    /\ UNCHANGED <<sync, queues, time, promise, embeddings, cont, cur, stats>>

BeingDrained == \E w \in Workers : pc[w] \in {"drain", "flushtake"}
BeingWritten == BeingDrained \/ \E d \in Clients : pc[d] = "push"

(* The call is over for client c. Its mutant leaves the request behind. *)
KeepRequest(c)  == UNCHANGED cur
LeaveRequest(c) == cur' = [cur EXCEPT ![c] = NoRequest]

(* get_future() throws: future_already_retrieved, or no_state for a promise *)
(* that a worker is moving out of the queue at the same moment.             *)
SubmitThrows(c) ==
    /\ Move(c, "get", "idle")
    /\ \/ pending # <<>> /\ pending[Len(pending)] \in retrieved
       \/ BeingDrained
    /\ LeaveRequest(c)
    /\ UNCHANGED <<sync, queues, time, promises, fut, stats>>

(* back() of an empty queue, or of one that another thread is changing: the *)
(* read is undefined behaviour and may end in a memory fault.               *)
SubmitFaults(c) ==
    /\ At(c, "get")
    /\ pending = <<>> \/ BeingWritten
    /\ crashed' = TRUE
    /\ UNCHANGED <<sync, queues, time, promises, callers, stats, pc>>

(* The caller's future.get() returns, or rethrows the error. *)
Collect(c) ==
    /\ Move(c, "wait", "idle")
    /\ promise[fut[c]] \in Settled
    /\ LeaveRequest(c)
    /\ fut' = [fut EXCEPT ![c] = NoRequest]
    /\ UNCHANGED <<sync, queues, time, promises, stats>>

-------------------------------------------------------------------------------
(* background_loop() *)

LoopTest ==
    /\ Move(Dispatcher, "loop", IF running THEN "acquire" ELSE "flushlock")
    /\ UNCHANGED <<sync, queues, time, promises, callers, stats>>

(* Take the mutex, fix the deadline of wait_for and evaluate its predicate. *)
WaitBegin ==
    /\ Move(Dispatcher, "acquire", IF running THEN "park" ELSE "woken")
    /\ Acquire(Dispatcher)
    /\ since' = clock
    /\ UNCHANGED <<running, notified, queues, clock, enqueued_at, now, promises,
                   callers, stats>>

(* A notify between the predicate and this step finds nobody waiting. *)
Park ==
    /\ Move(Dispatcher, "park", "wait")
    /\ notified' = FALSE
    /\ Release
    /\ UNCHANGED <<running, queues, time, promises, callers, stats>>

WakeNotified ==
    /\ Move(Dispatcher, "wait", IF running THEN "park" ELSE "woken")
    /\ notified
    /\ Acquire(Dispatcher)
    /\ notified' = FALSE
    /\ UNCHANGED <<running, queues, time, promises, callers, stats>>

(* Mutant of WakeTimeout: wait() in place of wait_for(). *)
WakeNoTimeout ==
    /\ Move(Dispatcher, "wait", "woken")
    /\ notified /\ ~running
    /\ Acquire(Dispatcher)
    /\ notified' = FALSE
    /\ UNCHANGED <<running, queues, time, promises, callers, stats>>

(* max_wait_ms after the wait began. *)
WakeTimeout ==
    /\ Move(Dispatcher, "wait", "woken")
    /\ Acquire(Dispatcher)
    /\ notified' = FALSE
    /\ UNCHANGED <<running, queues, time, promises, callers, stats>>

StopSeen ==
    /\ ~running
    /\ Move(Dispatcher, "woken", "flushlock")
    /\ Release
    /\ UNCHANGED <<running, notified, queues, time, promises, callers, stats>>

(* The dispatcher reads the steady clock once.  It has slept since the wait *)
(* began, so what was in the queue then has waited max_wait_ms by now; of   *)
(* what came later any prefix may have.                                     *)
Sampled == since..clock

SampleNow ==
    /\ running
    /\ Move(Dispatcher, "woken", "drain")
    /\ now' \in Sampled
    /\ UNCHANGED <<sync, queues, clock, enqueued_at, since, promises, callers, stats>>

(* Mutant of Due: the time trigger is off by one. *)
DueLater(r) == enqueued_at[r] < now \/ Size[r] >= MaxBatchSize

Due(r) == enqueued_at[r] <= now \/ Size[r] >= MaxBatchSize

(* Mutants: the newest batch first. *)
DispatchLast(r) == held' = [held EXCEPT ![Dispatcher] = <<r>> \o @]
KeepLast(r)     == remaining' = <<r>> \o remaining

DispatchFront(r) == held' = [held EXCEPT ![Dispatcher] = Append(@, r)]
KeepFront(r)     == remaining' = Append(remaining, r)

DrainFront ==
    /\ At(Dispatcher, "drain")
    /\ pending # <<>>
    /\ pending' = Tail(pending)
    /\ \/ Due(Head(pending)) /\ DispatchFront(Head(pending)) /\ UNCHANGED remaining
       \/ ~Due(Head(pending)) /\ KeepFront(Head(pending)) /\ UNCHANGED held
    /\ UNCHANGED <<sync, time, promises, callers, stats, pc, crashed>>

(* Mutant of DrainEnd: the batches to keep are copied, not moved. *)
DrainEndCopy ==
    /\ Move(Dispatcher, "drain", "dispatch")
    /\ pending = <<>>
    /\ pending' = remaining
    /\ Release
    /\ UNCHANGED <<running, notified, remaining, held, time, promises, callers, stats>>

DrainEnd ==
    /\ Move(Dispatcher, "drain", "dispatch")
    /\ pending = <<>>
    /\ pending' = remaining
    /\ remaining' = <<>>
    /\ Release
    /\ UNCHANGED <<running, notified, held, time, promises, callers, stats>>

DispatchEnd ==
    /\ Move(Dispatcher, "dispatch", "loop")
    /\ held[Dispatcher] = <<>>
    /\ UNCHANGED <<sync, queues, time, promises, callers, stats>>

-------------------------------------------------------------------------------
(* dispatch_batch() and the statistics, in the loop and in flush() *)

(* The embedding service runs the batch and answers with at least one       *)
(* embedding, or with none: an empty vector, or an exception.               *)
Results == {"some", "none"}

DispatchBatch(w, from, to) ==
    /\ Move(w, from, to)
    /\ held[w] # <<>>
    /\ \E result \in Results : cont' = [cont EXCEPT ![Head(held[w])] = result]
    /\ UNCHANGED <<sync, queues, time, promise, embeddings, retrieved, callers, stats>>

Smaller(a, b) == IF a < b THEN a ELSE b
Larger(a, b)  == IF a > b THEN a ELSE b

(* Mutant of FlushCounted: the queries are left out. *)
FlushCountedOnce(n) ==
    [stats EXCEPT !.total_batches_dispatched = @ + 1,
                  !.batch_count = @ + 1]

LoopCounted(n) ==
    [stats EXCEPT !.total_batches_dispatched = @ + 1,
                  !.total_queries_in_batches = @ + n,
                  !.batch_size_sum = @ + n,
                  !.batch_count = @ + 1,
                  !.min_batch_size = Smaller(n, @),
                  !.max_batch_size = Larger(n, @)]

FlushCounted(n) ==
    [stats EXCEPT !.total_batches_dispatched = @ + 1,
                  !.total_queries_in_batches = @ + n,
                  !.batch_count = @ + 1]

(* The number of queries in the batch that w has just handed over. *)
Counting(w) == Size[Head(held[w])]

CountBatch(w, from, to, counted) ==
    /\ Move(w, from, to)
    /\ stats' = counted
    /\ held' = [held EXCEPT ![w] = Tail(@)]
    /\ UNCHANGED <<sync, pending, remaining, time, promises, callers>>

LoopDispatch == DispatchBatch(Dispatcher, "dispatch", "count")
LoopCount    == CountBatch(Dispatcher, "count", "dispatch",
                           LoopCounted(Counting(Dispatcher)))

(* The continuation fulfils promises[i] with embeddings[i] alone: a batch   *)
(* has one promise, so its vector has one element whatever the batch held.  *)
Delivered == 1

RunThen(r) ==
    /\ ~crashed
    /\ cont[r] # "idle"
    /\ cont' = [cont EXCEPT ![r] = "idle"]
    /\ \/ /\ cont[r] = "some"
          /\ promise' = [promise EXCEPT ![r] = "value"]
          /\ embeddings' = [embeddings EXCEPT ![r] = Delivered]
       \/ /\ cont[r] = "none"
          /\ promise' = [promise EXCEPT ![r] = "error"]
          /\ UNCHANGED embeddings
    /\ UNCHANGED <<sync, queues, time, retrieved, callers, stats, pc, crashed>>

-------------------------------------------------------------------------------
(* flush(): called by a flusher, and by the dispatcher after its loop *)

FlushCall(f) ==
    /\ Move(f, "idle", "flushlock")
    /\ pc[Stopper] # "destroyed"
    /\ UNCHANGED <<sync, queues, time, promises, callers, stats>>

FlushLock(w) ==
    /\ Move(w, "flushlock", "flushtake")
    /\ Acquire(w)
    /\ UNCHANGED <<running, notified, queues, time, promises, callers, stats>>

(* Mutant of FlushTake: the batches are not popped. *)
FlushTakeCopy(w) ==
    /\ Move(w, "flushtake", "flushdispatch")
    /\ held' = [held EXCEPT ![w] = pending]
    /\ Release
    /\ UNCHANGED <<running, notified, pending, remaining, time, promises, callers, stats>>

FlushTake(w) ==
    /\ Move(w, "flushtake", "flushdispatch")
    /\ held' = [held EXCEPT ![w] = pending]
    /\ pending' = <<>>
    /\ Release
    /\ UNCHANGED <<running, notified, remaining, time, promises, callers, stats>>

FlushDispatch(w) == DispatchBatch(w, "flushdispatch", "flushcount")
FlushCount(w)    == CountBatch(w, "flushcount", "flushdispatch",
                              FlushCounted(Counting(w)))

FlushEnd(w) ==
    /\ Move(w, "flushdispatch", "done")
    /\ held[w] = <<>>
    /\ UNCHANGED <<sync, queues, time, promises, callers, stats>>

-------------------------------------------------------------------------------
(* shutdown() and the destructor *)

StopRunning ==
    /\ Move(Stopper, "running", "notify")
    /\ running' = FALSE
    /\ UNCHANGED <<mutex, notified, queues, time, promises, callers, stats>>

StopNotify ==
    /\ Move(Stopper, "notify", "join")
    /\ notified' = (notified \/ pc[Dispatcher] = "wait")
    /\ UNCHANGED <<running, mutex, queues, time, promises, callers, stats>>

(* Mutant of StopJoin: the dispatcher is not joined. *)
StopDetach ==
    /\ Move(Stopper, "join", "stopped")
    /\ UNCHANGED <<sync, queues, time, promises, callers, stats>>

StopJoin ==
    /\ Move(Stopper, "join", "stopped")
    /\ pc[Dispatcher] = "done"
    /\ UNCHANGED <<sync, queues, time, promises, callers, stats>>

(* The members go: promises still queued are broken.  The owner destroys    *)
(* the batcher when no call is in progress; a future may be outstanding.    *)
Destroy ==
    /\ Move(Stopper, "stopped", "destroyed")
    /\ \A c \in Clients : pc[c] \in {"idle", "wait"}
    /\ \A f \in Flushers : pc[f] \in {"idle", "done"}
    /\ promise' = [r \in Requests |->
                     IF r \in Range(pending) THEN "broken" ELSE promise[r]]
    /\ pending' = <<>>
    /\ UNCHANGED <<sync, remaining, held, time, embeddings, retrieved, cont,
                   callers, stats>>

-------------------------------------------------------------------------------
Submit(c) ==
    \/ SubmitLock(c)
    \/ SubmitPush(c)
    \/ TakeFuture(c)
    \/ SubmitThrows(c)
    \/ SubmitFaults(c)

Loop ==
    \/ LoopTest
    \/ WaitBegin
    \/ Park
    \/ WakeNotified
    \/ WakeTimeout
    \/ StopSeen
    \/ SampleNow
    \/ DrainFront
    \/ DrainEnd
    \/ LoopDispatch
    \/ LoopCount
    \/ DispatchEnd

Flush(w) ==
    \/ FlushLock(w)
    \/ FlushTake(w)
    \/ FlushDispatch(w)
    \/ FlushCount(w)
    \/ FlushEnd(w)

Stop ==
    \/ StopNotify
    \/ StopJoin

Next ==
    \/ \E c \in Clients, r \in Requests : SubmitEmpty(c, r) \/ SubmitBegin(c, r)
    \/ \E c \in Clients : Submit(c) \/ Collect(c)
    \/ Loop
    \/ \E r \in Requests : RunThen(r)
    \/ \E f \in Flushers : FlushCall(f)
    \/ \E w \in Workers : Flush(w)
    \/ StopRunning
    \/ Stop
    \/ Destroy

Spec == Init /\ [][Next]_vars

(* Threads that have begun something go on with it; nobody has to call      *)
(* submit(), flush(), shutdown() or the destructor.                         *)
Fairness ==
    /\ \A c \in Clients : WF_vars(Submit(c)) /\ WF_vars(Collect(c))
    /\ WF_vars(Loop)
    /\ \A r \in Requests : WF_vars(RunThen(r))
    /\ \A w \in Workers : WF_vars(Flush(w))
    /\ WF_vars(Stop)

FairSpec == Spec /\ Fairness

-------------------------------------------------------------------------------
(* Every variable keeps to the values the code's types and control flow give *)
(* it; in particular each thread is at a place of its own program.           *)
ClientPlaces   == {"idle", "lock", "push", "get", "wait"}
FlushPlaces    == {"flushlock", "flushtake", "flushdispatch", "flushcount", "done"}
LoopPlaces     == {"loop", "acquire", "park", "wait", "woken", "drain", "dispatch",
                   "count"}
StopperPlaces  == {"running", "notify", "join", "stopped", "destroyed"}

Places(t) ==
    IF t \in Clients THEN ClientPlaces
    ELSE IF t = Dispatcher THEN LoopPlaces \cup FlushPlaces
    ELSE IF t = Stopper THEN StopperPlaces
    ELSE FlushPlaces \cup {"idle"}

StatsFields == {"total_queries_submitted", "total_batches_dispatched",
                "total_queries_in_batches", "batch_size_sum", "batch_count",
                "min_batch_size", "max_batch_size"}

PcOK ==
    /\ pc \in [Threads -> UNION {Places(t) : t \in Threads}]
    /\ \A t \in Threads : pc[t] \in Places(t)
    /\ crashed \in BOOLEAN

SyncOK ==
    /\ running \in BOOLEAN
    /\ mutex \in Threads \cup {NoThread}
    /\ notified \in BOOLEAN

QueuesOK ==
    /\ pending \in Seq(Requests)
    /\ remaining \in Seq(Requests)
    /\ held \in [Workers -> Seq(Requests)]
    /\ \A w \in Workers : pc[w] \in {"count", "flushcount"} => held[w] # <<>>

TimeOK ==
    /\ clock \in Nat
    /\ enqueued_at \in [Requests -> Nat]
    /\ since \in Nat
    /\ now \in Nat

PromisesOK ==
    /\ promise \in [Requests -> {"none", "unset"} \cup Settled]
    /\ embeddings \in [Requests -> Nat]
    /\ retrieved \subseteq Requests
    /\ cont \in [Requests -> {"idle"} \cup Results]

CallersOK ==
    /\ cur \in [Clients -> Requests \cup {NoRequest}]
    /\ fut \in [Clients -> Requests \cup {NoRequest}]
    /\ \A c \in Clients : (cur[c] = NoRequest) <=> (pc[c] = "idle")
    /\ \A c \in Clients : (fut[c] = NoRequest) <=> (pc[c] # "wait")

StatsOK == stats \in [StatsFields -> Nat]

TypeOK ==
    /\ PcOK /\ SyncOK /\ QueuesOK /\ TimeOK /\ PromisesOK /\ CallersOK /\ StatsOK

(* mutex_ is held by exactly the thread that is between taking and releasing *)
(* it: the lock_guard of submit() and flush(), the unique_lock of the loop   *)
(* with the release and retake inside wait_for.                              *)
InCritical(t) == pc[t] \in {"push", "park", "woken", "drain", "flushtake"}
MutexHeld == \A t \in Threads : InCritical(t) <=> mutex = t

(* The batches a worker still has to hand to the service: while it counts a *)
(* batch, the promises of that batch have been moved on already.            *)
Undispatched(w) ==
    IF pc[w] \in {"count", "flushcount"} THEN Tail(held[w]) ELSE held[w]

(* The request whose promise is still a local variable of submit(). *)
Submitting(c) == IF pc[c] \in {"lock", "push"} THEN cur[c] ELSE NoRequest

InSubmit(r) == \E c \in Clients : Submitting(c) = r
Queued      == Range(pending) \cup Range(remaining)
Taken       == UNION {Range(Undispatched(w)) : w \in Workers}

HeldSomewhere ==
    \A r \in Requests :
       promise[r] = "unset"
       <=> InSubmit(r) \/ r \in Queued \/ r \in Taken \/ cont[r] # "idle"

NoDuplicates ==
    /\ IsInjective(pending)
    /\ IsInjective(remaining)
    /\ \A w \in Workers : IsInjective(Undispatched(w))
    /\ \A c, d \in Clients : Submitting(c) = Submitting(d) => Submitting(c) = NoRequest \/ c = d

OnePlace ==
    /\ Range(pending) \cap Range(remaining) = {}
    /\ Queued \cap Taken = {}
    /\ \A v, w \in Workers :
          v # w => Range(Undispatched(v)) \cap Range(Undispatched(w)) = {}
    /\ \A r \in Requests : InSubmit(r) => r \notin Queued \cup Taken /\ cont[r] = "idle"
    /\ \A r \in Requests : cont[r] # "idle" => r \notin Queued \cup Taken

(* A promise is a move-only object that travels from submit()'s stack to    *)
(* the queue, to the dispatcher's remaining queue and back, to some worker's *)
(* batches_to_dispatch and into a continuation.  At every moment an         *)
(* unfulfilled promise is in exactly one of these places, and a fulfilled   *)
(* one in none: no promise is dropped unfulfilled or fulfilled twice,        *)
(* however submit(), the loop, concurrent flush() calls and continuations    *)
(* interleave.                                                               *)
PromiseHeldOnce == HeldSomewhere /\ NoDuplicates /\ OnePlace

(* Once fulfilled or broken, a promise keeps its result: nothing the         *)
(* dispatcher, a flush, a continuation or the destructor does later changes  *)
(* what the caller will read from its future.                                *)
SettledOnce ==
    [][\A r \in Requests : promise[r] \in Settled =>
          promise'[r] = promise[r] /\ embeddings'[r] = embeddings[r]]_vars

(* The loop takes batches from the front and puts those it keeps back in     *)
(* order, so the queue stays in order of enqueued_at, with every kept batch   *)
(* ahead of those not looked at yet.                                         *)
OldestFirst ==
    LET queue == remaining \o pending
    IN  \A i, j \in DOMAIN queue :
           i < j => enqueued_at[queue[i]] < enqueued_at[queue[j]]

(* A batch is put back at most once: only one that entered the queue while   *)
(* the dispatcher slept can be too young, because the wait the loop does not  *)
(* cut short lasts max_wait_ms.                                              *)
OnlyFreshKept ==
    \A r \in Range(remaining) : enqueued_at[r] > since

(* Handed to the embedding service. *)
Dispatched(r) == cont[r] # "idle" \/ promise[r] \in {"value", "error"}

(* As long as nobody but the dispatcher takes batches, a batch the size      *)
(* trigger does not single out is never handed to the service before one     *)
(* that entered the queue earlier.                                           *)
NoOvertaking ==
    (\A f \in Flushers : pc[f] = "idle") =>
    \A q, r \in Requests :
        /\ Size[q] \in 1..(MaxBatchSize - 1)
        /\ enqueued_at[r] \in 1..(enqueued_at[q] - 1)
        /\ Dispatched(q)
        => Dispatched(r)

TotalSize(S) == SumFunctionOnSet(Size, S)

(* Requests pushed and not yet counted as part of a dispatched batch. *)
Uncounted ==
    Queued \cup (UNION {Range(held[w]) : w \in Workers})
           \cup {r \in Requests : promise[r] = "broken"}

(* Every query submit() counted is counted again in exactly one dispatched   *)
(* batch, by the loop or by a flush, or is still on its way there: no         *)
(* interleaving of the two loses or doubles a batch in the statistics.        *)
EveryQueryCounted ==
    stats.total_queries_submitted =
        stats.total_queries_in_batches + TotalSize(Uncounted)

(* The unlocked read in submit() can hand a caller the future of another     *)
(* request, but never one that another caller has got: no two wait for the   *)
(* same answer.                                                              *)
NoSharedFuture ==
    \A c, d \in Clients :
        pc[c] = "wait" /\ pc[d] = "wait" /\ c # d => fut[c] # fut[d]

(* submit() returns the future of the request it was given.                  *)
OwnFuture ==
    \A c \in Clients : pc[c] = "wait" => fut[c] = cur[c]

(* shutdown() returns: the dispatcher may miss notify_all() between testing  *)
(* the predicate and going to sleep, and then wakes up at its deadline.      *)
ShutdownCompletes ==
    pc[Stopper] = "notify" ~> pc[Stopper] \in {"stopped", "destroyed"} \/ crashed

-------------------------------------------------------------------------------
(* Refinement: from the moment the dispatcher has emptied the queue for the  *)
(* last time, what is still to come is late.                                 *)
Closed == pc[Dispatcher] \in {"flushdispatch", "flushcount", "done"}

Status ==
    [r \in Requests |->
       IF InSubmit(r) THEN "none"
       ELSE IF promise[r] # "unset" THEN promise[r]
       ELSE IF Closed /\ r \in Range(pending) THEN "late" ELSE "accepted"]

Service == INSTANCE EncodingService WITH status <- Status, closed <- Closed

(* Every behaviour of the batcher is one the service allows, and what it     *)
(* accepted before it closed is settled.                                     *)
ServiceSafe == Service!SSafe
ServiceSpec == Service!SSpec

===============================================================================
