---------------------------- MODULE BatchStatistics ----------------------------
(****************************************************************************)
(* The statistics of the batcher, access by access                          *)
(* (src/pipeline/query_batcher.cpp): every counter is an atomic of its own, *)
(* the dispatcher and the callers of flush() update them one after the      *)
(* other for each batch, and get_stats() reads them one after the other     *)
(* meanwhile, without a lock.  QueryBatcher.tla updates them in one step.   *)
(****************************************************************************)
EXTENDS Integers, Sequences, FiniteSets

CONSTANTS
    Flushers,       \* threads that call flush()
    Dispatcher,     \* the thread of background_loop()
    Readers,        \* threads that call get_stats()
    Sizes,          \* what queries.size() of a batch may be
    MaxBatches,     \* bound on the batches submitted
    INT64_MAX       \* initial value of min_batch_size_

Workers == Flushers \cup {Dispatcher}

ASSUME StatisticsAssumption ==
    /\ Dispatcher \notin Flushers
    /\ IsFiniteSet(Flushers)
    /\ INT64_MAX \in Nat
    /\ Sizes \subseteq 1..(INT64_MAX - 1) /\ Sizes # {}
    /\ MaxBatches \in Nat

VARIABLES
    counters,       \* the atomics
    queue,          \* sizes of the batches not yet taken
    stopped,        \* the dispatcher has left its loop and is in its flush()
    size,           \* per worker: query_count of the batch it counts
    todo,           \* per worker: the updates it has still to make for it
    reading,        \* per reader: the fields it has still to read
    snap,           \* per reader: the BatchStats it fills
    submitted,      \* history: batches submitted
    flushed,        \* history: batches flush() has added to batch_count_
    tested          \* history: sizes compared with minimum and maximum

svars == <<counters, queue, stopped, size, todo, reading, snap, submitted, flushed, tested>>

Fields == {"submitted", "dispatched", "in_batches", "sum", "count", "min", "max"}

Fresh == [f \in Fields |-> IF f = "min" THEN INT64_MAX ELSE 0]
Blank == [f \in Fields |-> 0]

Init ==
    /\ counters = Fresh
    /\ queue = <<>>
    /\ stopped = FALSE
    /\ size = [w \in Workers |-> 0]
    /\ todo = [w \in Workers |-> <<>>]
    /\ reading = [r \in Readers |-> <<>>]
    /\ snap = [r \in Readers |-> Blank]
    /\ submitted = 0
    /\ flushed = 0
    /\ tested = {}

(* submit(), for its queue and its counter. *)
Submit(n) ==
    /\ submitted < MaxBatches
    /\ submitted' = submitted + 1
    /\ queue' = Append(queue, n)
    /\ counters' = [counters EXCEPT !.submitted = @ + n]
    /\ UNCHANGED <<stopped, size, todo, reading, snap, flushed, tested>>

(* Mutants: the batch is counted before its queries are, or they are left    *)
(* out as in flush(); flush() keeps the extremes as well.                    *)
LoopOrderCountFirst == <<"dispatched", "in_batches", "count", "sum", "min?", "max?">>
LoopOrderNoSum      == <<"dispatched", "in_batches", "count", "min?", "max?">>
FlushOrderExtremes  == <<"dispatched", "in_batches", "count", "min?", "max?">>

(* The updates for one batch, in the order of the code.  A comparison with   *)
(* the minimum or the maximum and the assignment are two accesses.           *)
LoopOrder  == <<"dispatched", "in_batches", "sum", "count", "min?", "max?">>
FlushOrder == <<"dispatched", "in_batches", "count">>

(* A batch has been handed to the service, and is counted next. *)
Take(w) ==
    /\ todo[w] = <<>> /\ queue # <<>>
    /\ size' = [size EXCEPT ![w] = Head(queue)]
    /\ queue' = Tail(queue)
    /\ todo' = [todo EXCEPT ![w] =
                  IF w = Dispatcher /\ ~stopped THEN LoopOrder ELSE FlushOrder]
    /\ UNCHANGED <<counters, stopped, reading, snap, submitted, flushed, tested>>

Amount(w, f) == IF f \in {"dispatched", "count"} THEN 1 ELSE size[w]

Add(w) ==
    /\ todo[w] # <<>>
    /\ LET f == Head(todo[w])
       IN  /\ f \in {"dispatched", "in_batches", "sum", "count"}
           /\ counters' = [counters EXCEPT ![f] = @ + Amount(w, f)]
           /\ flushed' = IF f = "count" /\ (w # Dispatcher \/ stopped)
                         THEN flushed + 1 ELSE flushed
    /\ todo' = [todo EXCEPT ![w] = Tail(@)]
    /\ UNCHANGED <<queue, stopped, size, reading, snap, submitted, tested>>

Compare(w) ==
    /\ todo[w] # <<>>
    /\ \/ /\ Head(todo[w]) = "min?"
          /\ todo' = [todo EXCEPT ![w] =
                IF size[w] < counters.min THEN <<"min">> \o Tail(@) ELSE Tail(@)]
          /\ UNCHANGED tested
       \/ /\ Head(todo[w]) = "max?"
          /\ todo' = [todo EXCEPT ![w] =
                IF size[w] > counters.max THEN <<"max">> \o Tail(@) ELSE Tail(@)]
          /\ tested' = tested \cup {size[w]}
    /\ UNCHANGED <<counters, queue, stopped, size, reading, snap, submitted, flushed>>

Assign(w) ==
    /\ todo[w] # <<>>
    /\ Head(todo[w]) \in {"min", "max"}
    /\ counters' = [counters EXCEPT ![Head(todo[w])] = size[w]]
    /\ todo' = [todo EXCEPT ![w] = Tail(@)]
    /\ UNCHANGED <<queue, stopped, size, reading, snap, submitted, flushed, tested>>

(* shutdown(): the dispatcher goes on with flush(). *)
StopLoop ==
    /\ ~stopped /\ todo[Dispatcher] = <<>>
    /\ stopped' = TRUE
    /\ UNCHANGED <<counters, queue, size, todo, reading, snap, submitted, flushed, tested>>

-------------------------------------------------------------------------------
(* get_stats() *)

(* Mutant of ReadOrder: the number of batches is read first. *)
CountFirst == <<"count", "submitted", "dispatched", "in_batches", "sum", "min", "max">>

ReadOrder == <<"submitted", "dispatched", "in_batches", "count", "sum", "min", "max">>

GetStats(r) ==
    /\ reading[r] = <<>>
    /\ reading' = [reading EXCEPT ![r] = ReadOrder]
    /\ snap' = [snap EXCEPT ![r] = Blank]
    /\ UNCHANGED <<counters, queue, stopped, size, todo, submitted, flushed, tested>>

(* The averages are only computed, and the sum only read, if bc > 0. *)
Skips(r, f) == f = "sum" /\ snap[r].count = 0

ReadField(r) ==
    /\ reading[r] # <<>>
    /\ LET f == Head(reading[r])
       IN  snap' = IF Skips(r, f) THEN snap ELSE [snap EXCEPT ![r][f] = counters[f]]
    /\ reading' = [reading EXCEPT ![r] = Tail(@)]
    /\ UNCHANGED <<counters, queue, stopped, size, todo, submitted, flushed, tested>>

-------------------------------------------------------------------------------
Next ==
    \/ \E n \in Sizes : Submit(n)
    \/ \E w \in Workers : Take(w) \/ Add(w) \/ Compare(w) \/ Assign(w)
    \/ StopLoop
    \/ \E r \in Readers : GetStats(r) \/ ReadField(r)

Spec == Init /\ [][Next]_svars

-------------------------------------------------------------------------------
(* What get_stats() has returned to r, once it has read everything. *)
Returned(r) == reading[r] = <<>> /\ snap[r].min # 0

Smallest == CHOOSE n \in Sizes : \A m \in Sizes : n <= m

(* avg_batch_size, the sum over the count, is never below the smallest batch *)
(* on account of a batch that is being counted: the loop adds to the sum     *)
(* before it adds to the count, and get_stats() reads the count first.  Only *)
(* what flush() has counted, which adds nothing to the sum, lowers it.       *)
AverageNotLow ==
    \A r \in Readers :
        Returned(r) => snap[r].sum >= Smallest * (snap[r].count - flushed)

(* The batches dispatched and the batches counted, read one after the other, *)
(* differ at most by the one batch that each worker has in hand, however     *)
(* many were dispatched between the reads.                                   *)
CountLags ==
    \A r \in Readers :
        Returned(r) => snap[r].dispatched - snap[r].count <= Cardinality(Workers)

Quiet == \A w \in Workers : todo[w] = <<>>

(* The minimum and the maximum are tested and then set without a lock, and   *)
(* still exact whenever nobody is in between: they have one writer.          *)
ExtremaExact ==
    Quiet =>
        /\ counters.min \in tested \cup {INT64_MAX}
        /\ counters.max \in tested \cup {0}
        /\ \A n \in tested : counters.min <= n /\ n <= counters.max

(* As long as flush() has counted nothing, the average batch size lies       *)
(* between the smallest and the largest batch whenever no batch is being     *)
(* counted: the loop keeps all four counters in step.                        *)
AverageInRange ==
    Quiet /\ flushed = 0 /\ counters.count > 0 =>
        /\ counters.min * counters.count <= counters.sum
        /\ counters.sum <= counters.max * counters.count

================================================================================
