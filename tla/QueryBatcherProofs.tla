-------------------------- MODULE QueryBatcherProofs --------------------------
(****************************************************************************)
(* Proofs about QueryBatcher, for any number of clients, flushers and       *)
(* requests and any batch sizes.                                            *)
(****************************************************************************)
EXTENDS QueryBatcher, SumTheorems, SequenceTheorems, TLAPS

-------------------------------------------------------------------------------
(* The kinds of threads are disjoint, and each has its own places.           *)
LEMMA Kinds ==
    /\ Dispatcher \in Workers /\ Flushers \subseteq Workers
    /\ Clients \subseteq Threads /\ Workers \subseteq Threads /\ Stopper \in Threads
    /\ Clients \cap Workers = {} /\ Stopper \notin Clients \cup Workers
    /\ Dispatcher \notin Flushers
BY ThreadsAssumption DEF Threads, Workers

LEMMA PlacesOf ==
    /\ \A c \in Clients : Places(c) = ClientPlaces
    /\ Places(Dispatcher) = LoopPlaces \cup FlushPlaces
    /\ Places(Stopper) = StopperPlaces
    /\ \A f \in Flushers : Places(f) = FlushPlaces \cup {"idle"}
    /\ \A w \in Workers : FlushPlaces \subseteq Places(w)
BY Kinds DEF Places, Workers

(* Moving one thread within its program leaves every thread in its own.     *)
LEMMA MoveOK ==
    ASSUME PcOK, NEW t \in Threads, NEW from, NEW to \in Places(t),
           Move(t, from, to)
    PROVE  /\ PcOK'
           /\ pc[t] = from /\ pc'[t] = to
           /\ \A u \in Threads \ {t} : pc'[u] = pc[u]
           /\ ~crashed /\ ~crashed'
<1>1. pc \in [Threads -> UNION {Places(u) : u \in Threads}] /\ crashed \in BOOLEAN
  BY DEF PcOK
<1>2. pc' = [pc EXCEPT ![t] = to] /\ pc[t] = from /\ ~crashed /\ crashed' = crashed
  BY DEF Move, At
<1>3. to \in UNION {Places(u) : u \in Threads}
  OBVIOUS
<1>4. pc'[t] = to /\ \A u \in Threads \ {t} : pc'[u] = pc[u]
  BY <1>1, <1>2
<1>5. pc' \in [Threads -> UNION {Places(u) : u \in Threads}]
  BY <1>1, <1>2, <1>3
<1>6. \A u \in Threads : pc'[u] \in Places(u)
  BY <1>4 DEF PcOK
<1> QED
  BY <1>2, <1>4, <1>5, <1>6 DEF PcOK

-------------------------------------------------------------------------------
(* The counters stay counters. *)
LEMMA LoopCountedOK ==
    ASSUME StatsOK, NEW n \in Nat
    PROVE  LoopCounted(n) \in [StatsFields -> Nat]
<1> DEFINE s1 == [stats EXCEPT !.total_batches_dispatched = @ + 1]
           s2 == [s1 EXCEPT !.total_queries_in_batches = @ + n]
           s3 == [s2 EXCEPT !.batch_size_sum = @ + n]
           s4 == [s3 EXCEPT !.batch_count = @ + 1]
           s5 == [s4 EXCEPT !.min_batch_size = Smaller(n, @)]
           s6 == [s5 EXCEPT !.max_batch_size = Larger(n, @)]
<1>1. s1 \in [StatsFields -> Nat]
  BY DEF StatsOK, StatsFields
<1>2. s2 \in [StatsFields -> Nat]
  <2> HIDE DEF s1
  <2> QED BY <1>1 DEF StatsFields
<1>3. s3 \in [StatsFields -> Nat]
  <2> HIDE DEF s2
  <2> QED BY <1>2 DEF StatsFields
<1>4. s4 \in [StatsFields -> Nat]
  <2> HIDE DEF s3
  <2> QED BY <1>3 DEF StatsFields
<1>5. s5 \in [StatsFields -> Nat]
  <2> HIDE DEF s4
  <2> QED BY <1>4 DEF StatsFields, Smaller
<1>6. s6 \in [StatsFields -> Nat]
  <2> HIDE DEF s5
  <2> QED BY <1>5 DEF StatsFields, Larger
<1>7. LoopCounted(n) = s6
  BY Zenon DEF LoopCounted
<1> QED
  BY <1>6, <1>7

LEMMA FlushCountedOK ==
    ASSUME StatsOK, NEW n \in Nat
    PROVE  FlushCounted(n) \in [StatsFields -> Nat]
<1> DEFINE s1 == [stats EXCEPT !.total_batches_dispatched = @ + 1]
           s2 == [s1 EXCEPT !.total_queries_in_batches = @ + n]
           s3 == [s2 EXCEPT !.batch_count = @ + 1]
<1>1. s1 \in [StatsFields -> Nat]
  BY DEF StatsOK, StatsFields
<1>2. s2 \in [StatsFields -> Nat]
  <2> HIDE DEF s1
  <2> QED BY <1>1 DEF StatsFields
<1>3. s3 \in [StatsFields -> Nat]
  <2> HIDE DEF s2
  <2> QED BY <1>2 DEF StatsFields
<1>4. FlushCounted(n) = s3
  BY Zenon DEF FlushCounted
<1> QED
  BY <1>3, <1>4

LEMMA SubmittedOK ==
    ASSUME StatsOK, NEW n \in Nat
    PROVE  [stats EXCEPT !.total_queries_submitted = @ + n] \in [StatsFields -> Nat]
  BY DEF StatsOK, StatsFields
-------------------------------------------------------------------------------
(* Type correctness: one step per action.                                    *)
LEMMA NextTyped == TypeOK /\ [Next]_vars => TypeOK'
<1> SUFFICES ASSUME TypeOK, [Next]_vars PROVE TypeOK'
  OBVIOUS
<1> USE Kinds
<1>0. PcOK
  BY DEF TypeOK
<1>1. ASSUME NEW c \in Clients, NEW r \in Requests, SubmitEmpty(c, r) PROVE TypeOK'
  <2>1. pc' = pc /\ crashed' \in BOOLEAN
    BY <1>1, <1>0 DEF SubmitEmpty, PcOK
  <2>2. PcOK'
    BY <2>1, <1>0 DEF PcOK
  <2>3. SyncOK' /\ QueuesOK' /\ TimeOK' /\ CallersOK' /\ StatsOK'
    BY <1>1, <2>2, <2>1 DEF SubmitEmpty, TypeOK, SyncOK, QueuesOK, TimeOK, CallersOK, StatsOK, sync, queues, time, callers
  <2>4. PromisesOK'
    BY <1>1, <2>2, <2>1 DEF SubmitEmpty, TypeOK, PromisesOK, promises, Settled
  <2> QED
    BY <2>2, <2>3, <2>4 DEF TypeOK
<1>2. ASSUME NEW c \in Clients, NEW r \in Requests, SubmitBegin(c, r) PROVE TypeOK'
  <2>1. Move(c, "idle", "lock")
    BY <1>2 DEF SubmitBegin
  <2>2. /\ PcOK' /\ pc[c] = "idle" /\ pc'[c] = "lock"
        /\ \A u \in Threads \ {c} : pc'[u] = pc[u]
    BY <2>1, <1>0, PlacesOf, MoveOK DEF ClientPlaces, LoopPlaces, FlushPlaces, StopperPlaces
  <2>3. SyncOK' /\ QueuesOK' /\ TimeOK' /\ StatsOK'
    BY <1>2, <2>2 DEF SubmitBegin, TypeOK, SyncOK, QueuesOK, TimeOK, StatsOK, sync, queues, time
  <2>4. PromisesOK'
    BY <1>2, <2>2 DEF SubmitBegin, TypeOK, PromisesOK, promises
  <2>5. CallersOK'
    BY <1>2, <2>2, SizeAssumption DEF SubmitBegin, TypeOK, CallersOK, callers
  <2> QED
    BY <2>2, <2>3, <2>4, <2>5 DEF TypeOK
<1>3. ASSUME NEW c \in Clients, SubmitLock(c) PROVE TypeOK'
  <2>1. Move(c, "lock", "push")
    BY <1>3 DEF SubmitLock
  <2>2. /\ PcOK' /\ pc[c] = "lock" /\ pc'[c] = "push"
        /\ \A u \in Threads \ {c} : pc'[u] = pc[u]
    BY <2>1, <1>0, PlacesOf, MoveOK DEF ClientPlaces, LoopPlaces, FlushPlaces, StopperPlaces
  <2>3. QueuesOK' /\ TimeOK' /\ PromisesOK' /\ StatsOK'
    BY <1>3, <2>2 DEF SubmitLock, TypeOK, QueuesOK, TimeOK, PromisesOK, StatsOK, queues, time, promises
  <2>4. SyncOK'
    BY <1>3, <2>2 DEF SubmitLock, TypeOK, SyncOK, sync, Acquire
  <2>5. CallersOK'
    BY <1>3, <2>2 DEF SubmitLock, TypeOK, CallersOK, callers
  <2> QED
    BY <2>2, <2>3, <2>4, <2>5 DEF TypeOK
<1>4. ASSUME NEW c \in Clients, SubmitPush(c) PROVE TypeOK'
  <2>1. Move(c, "push", "get")
    BY <1>4 DEF SubmitPush
  <2>2. /\ PcOK' /\ pc[c] = "push" /\ pc'[c] = "get"
        /\ \A u \in Threads \ {c} : pc'[u] = pc[u]
    BY <2>1, <1>0, PlacesOf, MoveOK DEF ClientPlaces, LoopPlaces, FlushPlaces, StopperPlaces
  <2>3. cur[c] \in Requests
    BY <2>2 DEF TypeOK, CallersOK
  <2>4. PromisesOK'
    BY <1>4, <2>2 DEF SubmitPush, TypeOK, PromisesOK, promises
  <2>5. SyncOK'
    BY <1>4, <2>2 DEF SubmitPush, TypeOK, SyncOK, sync, Release
  <2>6. pending' \in Seq(Requests)
    BY <1>4, <2>3, AppendProperties DEF SubmitPush, TypeOK, QueuesOK
  <2>7. QueuesOK'
    BY <1>4, <2>2, <2>6 DEF SubmitPush, TypeOK, QueuesOK
  <2>8. TimeOK'
    BY <1>4, <2>2, <2>3 DEF SubmitPush, TypeOK, TimeOK, time
  <2>9. CallersOK'
    BY <1>4, <2>2 DEF SubmitPush, TypeOK, CallersOK, callers
  <2>10. Size[cur[c]] \in Nat
    BY <2>3, SizeAssumption DEF Counting
  <2>11. StatsOK'
    BY <1>4, <2>10, SubmittedOK DEF SubmitPush, TypeOK, StatsOK
  <2> QED
    BY <2>2, <2>4, <2>5, <2>7, <2>8, <2>9, <2>11 DEF TypeOK
<1>5. ASSUME NEW c \in Clients, TakeFuture(c) PROVE TypeOK'
  <2>1. Move(c, "get", "wait")
    BY <1>5 DEF TakeFuture
  <2>2. /\ PcOK' /\ pc[c] = "get" /\ pc'[c] = "wait"
        /\ \A u \in Threads \ {c} : pc'[u] = pc[u]
    BY <2>1, <1>0, PlacesOf, MoveOK DEF ClientPlaces, LoopPlaces, FlushPlaces, StopperPlaces
  <2>3. pending[Len(pending)] \in Requests
    BY <1>5, LenProperties DEF TakeFuture, TypeOK, QueuesOK
  <2>4. SyncOK' /\ QueuesOK' /\ TimeOK' /\ StatsOK'
    BY <1>5, <2>2 DEF TakeFuture, TypeOK, SyncOK, QueuesOK, TimeOK, StatsOK, sync, queues, time
  <2>5. PromisesOK'
    BY <1>5, <2>2, <2>3 DEF TakeFuture, TypeOK, PromisesOK, promises
  <2>6. CallersOK'
    BY <1>5, <2>2, <2>3, SizeAssumption DEF TakeFuture, TypeOK, CallersOK, callers
  <2> QED
    BY <2>2, <2>4, <2>5, <2>6 DEF TypeOK
<1>6. ASSUME NEW c \in Clients, SubmitThrows(c) PROVE TypeOK'
  <2>1. Move(c, "get", "idle")
    BY <1>6 DEF SubmitThrows
  <2>2. /\ PcOK' /\ pc[c] = "get" /\ pc'[c] = "idle"
        /\ \A u \in Threads \ {c} : pc'[u] = pc[u]
    BY <2>1, <1>0, PlacesOf, MoveOK DEF ClientPlaces, LoopPlaces, FlushPlaces, StopperPlaces
  <2>3. SyncOK' /\ QueuesOK' /\ TimeOK' /\ PromisesOK' /\ StatsOK'
    BY <1>6, <2>2 DEF SubmitThrows, TypeOK, SyncOK, QueuesOK, TimeOK, PromisesOK, StatsOK, sync, queues, time, promises
  <2>4. CallersOK'
    BY <1>6, <2>2 DEF SubmitThrows, TypeOK, CallersOK, callers, LeaveRequest
  <2> QED
    BY <2>2, <2>3, <2>4 DEF TypeOK
<1>7. ASSUME NEW c \in Clients, SubmitFaults(c) PROVE TypeOK'
  <2>1. pc' = pc /\ crashed' \in BOOLEAN
    BY <1>7, <1>0 DEF SubmitFaults, PcOK
  <2>2. PcOK'
    BY <2>1, <1>0 DEF PcOK
  <2>3. SyncOK' /\ QueuesOK' /\ TimeOK' /\ PromisesOK' /\ CallersOK' /\ StatsOK'
    BY <1>7, <2>2, <2>1 DEF SubmitFaults, TypeOK, SyncOK, QueuesOK, TimeOK, PromisesOK, CallersOK, StatsOK, sync, queues, time, promises, callers
  <2> QED
    BY <2>2, <2>3 DEF TypeOK
<1>8. ASSUME NEW c \in Clients, Collect(c) PROVE TypeOK'
  <2>1. Move(c, "wait", "idle")
    BY <1>8 DEF Collect
  <2>2. /\ PcOK' /\ pc[c] = "wait" /\ pc'[c] = "idle"
        /\ \A u \in Threads \ {c} : pc'[u] = pc[u]
    BY <2>1, <1>0, PlacesOf, MoveOK DEF ClientPlaces, LoopPlaces, FlushPlaces, StopperPlaces
  <2>3. SyncOK' /\ QueuesOK' /\ TimeOK' /\ PromisesOK' /\ StatsOK'
    BY <1>8, <2>2 DEF Collect, TypeOK, SyncOK, QueuesOK, TimeOK, PromisesOK, StatsOK, sync, queues, time, promises
  <2>4. CallersOK'
    BY <1>8, <2>2 DEF Collect, TypeOK, CallersOK, callers, LeaveRequest
  <2> QED
    BY <2>2, <2>3, <2>4 DEF TypeOK
<1>9. ASSUME LoopTest PROVE TypeOK'
  <2>1. Move(Dispatcher, "loop", IF running THEN "acquire" ELSE "flushlock")
    BY <1>9 DEF LoopTest
  <2>2. /\ PcOK' /\ pc[Dispatcher] = "loop" /\ pc'[Dispatcher] = (IF running THEN "acquire" ELSE "flushlock")
        /\ \A u \in Threads \ {Dispatcher} : pc'[u] = pc[u]
    BY <2>1, <1>0, PlacesOf, MoveOK DEF ClientPlaces, LoopPlaces, FlushPlaces, StopperPlaces
  <2>3. SyncOK' /\ QueuesOK' /\ TimeOK' /\ PromisesOK' /\ CallersOK' /\ StatsOK'
    BY <1>9, <2>2 DEF LoopTest, TypeOK, SyncOK, QueuesOK, TimeOK, PromisesOK, CallersOK, StatsOK, sync, queues, time, promises, callers
  <2> QED
    BY <2>2, <2>3 DEF TypeOK
<1>10. ASSUME WaitBegin PROVE TypeOK'
  <2>1. Move(Dispatcher, "acquire", IF running THEN "park" ELSE "woken")
    BY <1>10 DEF WaitBegin
  <2>2. /\ PcOK' /\ pc[Dispatcher] = "acquire" /\ pc'[Dispatcher] = (IF running THEN "park" ELSE "woken")
        /\ \A u \in Threads \ {Dispatcher} : pc'[u] = pc[u]
    BY <2>1, <1>0, PlacesOf, MoveOK DEF ClientPlaces, LoopPlaces, FlushPlaces, StopperPlaces
  <2>3. QueuesOK' /\ PromisesOK' /\ CallersOK' /\ StatsOK'
    BY <1>10, <2>2 DEF WaitBegin, TypeOK, QueuesOK, PromisesOK, CallersOK, StatsOK, queues, promises, callers
  <2>4. SyncOK'
    BY <1>10, <2>2 DEF WaitBegin, TypeOK, SyncOK, sync, Acquire
  <2>5. TimeOK'
    BY <1>10, <2>2 DEF WaitBegin, TypeOK, TimeOK, time
  <2> QED
    BY <2>2, <2>3, <2>4, <2>5 DEF TypeOK
<1>11. ASSUME Park PROVE TypeOK'
  <2>1. Move(Dispatcher, "park", "wait")
    BY <1>11 DEF Park
  <2>2. /\ PcOK' /\ pc[Dispatcher] = "park" /\ pc'[Dispatcher] = "wait"
        /\ \A u \in Threads \ {Dispatcher} : pc'[u] = pc[u]
    BY <2>1, <1>0, PlacesOf, MoveOK DEF ClientPlaces, LoopPlaces, FlushPlaces, StopperPlaces
  <2>3. QueuesOK' /\ TimeOK' /\ PromisesOK' /\ CallersOK' /\ StatsOK'
    BY <1>11, <2>2 DEF Park, TypeOK, QueuesOK, TimeOK, PromisesOK, CallersOK, StatsOK, queues, time, promises, callers
  <2>4. SyncOK'
    BY <1>11, <2>2 DEF Park, TypeOK, SyncOK, sync, Release
  <2> QED
    BY <2>2, <2>3, <2>4 DEF TypeOK
<1>12. ASSUME WakeNotified PROVE TypeOK'
  <2>1. Move(Dispatcher, "wait", IF running THEN "park" ELSE "woken")
    BY <1>12 DEF WakeNotified
  <2>2. /\ PcOK' /\ pc[Dispatcher] = "wait" /\ pc'[Dispatcher] = (IF running THEN "park" ELSE "woken")
        /\ \A u \in Threads \ {Dispatcher} : pc'[u] = pc[u]
    BY <2>1, <1>0, PlacesOf, MoveOK DEF ClientPlaces, LoopPlaces, FlushPlaces, StopperPlaces
  <2>3. QueuesOK' /\ TimeOK' /\ PromisesOK' /\ CallersOK' /\ StatsOK'
    BY <1>12, <2>2 DEF WakeNotified, TypeOK, QueuesOK, TimeOK, PromisesOK, CallersOK, StatsOK, queues, time, promises, callers
  <2>4. SyncOK'
    BY <1>12, <2>2 DEF WakeNotified, TypeOK, SyncOK, sync, Acquire
  <2> QED
    BY <2>2, <2>3, <2>4 DEF TypeOK
<1>13. ASSUME WakeTimeout PROVE TypeOK'
  <2>1. Move(Dispatcher, "wait", "woken")
    BY <1>13 DEF WakeTimeout
  <2>2. /\ PcOK' /\ pc[Dispatcher] = "wait" /\ pc'[Dispatcher] = "woken"
        /\ \A u \in Threads \ {Dispatcher} : pc'[u] = pc[u]
    BY <2>1, <1>0, PlacesOf, MoveOK DEF ClientPlaces, LoopPlaces, FlushPlaces, StopperPlaces
  <2>3. QueuesOK' /\ TimeOK' /\ PromisesOK' /\ CallersOK' /\ StatsOK'
    BY <1>13, <2>2 DEF WakeTimeout, TypeOK, QueuesOK, TimeOK, PromisesOK, CallersOK, StatsOK, queues, time, promises, callers
  <2>4. SyncOK'
    BY <1>13, <2>2 DEF WakeTimeout, TypeOK, SyncOK, sync, Acquire
  <2> QED
    BY <2>2, <2>3, <2>4 DEF TypeOK
<1>14. ASSUME StopSeen PROVE TypeOK'
  <2>1. Move(Dispatcher, "woken", "flushlock")
    BY <1>14 DEF StopSeen
  <2>2. /\ PcOK' /\ pc[Dispatcher] = "woken" /\ pc'[Dispatcher] = "flushlock"
        /\ \A u \in Threads \ {Dispatcher} : pc'[u] = pc[u]
    BY <2>1, <1>0, PlacesOf, MoveOK DEF ClientPlaces, LoopPlaces, FlushPlaces, StopperPlaces
  <2>3. QueuesOK' /\ TimeOK' /\ PromisesOK' /\ CallersOK' /\ StatsOK'
    BY <1>14, <2>2 DEF StopSeen, TypeOK, QueuesOK, TimeOK, PromisesOK, CallersOK, StatsOK, queues, time, promises, callers
  <2>4. SyncOK'
    BY <1>14, <2>2 DEF StopSeen, TypeOK, SyncOK, sync, Release
  <2> QED
    BY <2>2, <2>3, <2>4 DEF TypeOK
<1>15. ASSUME SampleNow PROVE TypeOK'
  <2>1. Move(Dispatcher, "woken", "drain")
    BY <1>15 DEF SampleNow
  <2>2. /\ PcOK' /\ pc[Dispatcher] = "woken" /\ pc'[Dispatcher] = "drain"
        /\ \A u \in Threads \ {Dispatcher} : pc'[u] = pc[u]
    BY <2>1, <1>0, PlacesOf, MoveOK DEF ClientPlaces, LoopPlaces, FlushPlaces, StopperPlaces
  <2>3. SyncOK' /\ QueuesOK' /\ PromisesOK' /\ CallersOK' /\ StatsOK'
    BY <1>15, <2>2 DEF SampleNow, TypeOK, SyncOK, QueuesOK, PromisesOK, CallersOK, StatsOK, sync, queues, promises, callers
  <2>4. TimeOK'
    BY <1>15, <2>2 DEF SampleNow, TypeOK, TimeOK, time, Sampled
  <2> QED
    BY <2>2, <2>3, <2>4 DEF TypeOK
<1>16. ASSUME DrainFront PROVE TypeOK'
  <2>1. pc' = pc /\ crashed' \in BOOLEAN
    BY <1>16, <1>0 DEF DrainFront, PcOK
  <2>2. PcOK'
    BY <2>1, <1>0 DEF PcOK
  <2>3. Head(pending) \in Requests /\ Tail(pending) \in Seq(Requests)
    BY <1>16, HeadTailProperties DEF DrainFront, TypeOK, QueuesOK
  <2>4. SyncOK' /\ TimeOK' /\ PromisesOK' /\ CallersOK' /\ StatsOK'
    BY <1>16, <2>2, <2>1 DEF DrainFront, TypeOK, SyncOK, TimeOK, PromisesOK, CallersOK, StatsOK, sync, time, promises, callers
  <2>5. /\ Append(remaining, Head(pending)) \in Seq(Requests)
        /\ Append(held[Dispatcher], Head(pending)) \in Seq(Requests)
    BY <2>3, AppendProperties DEF TypeOK, QueuesOK
  <2>6. pending' \in Seq(Requests) /\ remaining' \in Seq(Requests) /\ held' \in [Workers -> Seq(Requests)]
    BY <1>16, <2>3, <2>5 DEF DrainFront, TypeOK, QueuesOK, DispatchFront, KeepFront
  <2>7. \A w \in Workers : pc[w] \in {"count", "flushcount"} => held'[w] = held[w]
    BY <1>16 DEF DrainFront, At, TypeOK, QueuesOK, DispatchFront
  <2>8. QueuesOK'
    BY <2>1, <2>6, <2>7 DEF TypeOK, QueuesOK
  <2> QED
    BY <2>2, <2>4, <2>8 DEF TypeOK
<1>17. ASSUME DrainEnd PROVE TypeOK'
  <2>1. Move(Dispatcher, "drain", "dispatch")
    BY <1>17 DEF DrainEnd
  <2>2. /\ PcOK' /\ pc[Dispatcher] = "drain" /\ pc'[Dispatcher] = "dispatch"
        /\ \A u \in Threads \ {Dispatcher} : pc'[u] = pc[u]
    BY <2>1, <1>0, PlacesOf, MoveOK DEF ClientPlaces, LoopPlaces, FlushPlaces, StopperPlaces
  <2>3. TimeOK' /\ PromisesOK' /\ CallersOK' /\ StatsOK'
    BY <1>17, <2>2 DEF DrainEnd, TypeOK, TimeOK, PromisesOK, CallersOK, StatsOK, time, promises, callers
  <2>4. SyncOK'
    BY <1>17, <2>2 DEF DrainEnd, TypeOK, SyncOK, sync, Release
  <2>5. QueuesOK'
    BY <1>17, <2>2 DEF DrainEnd, TypeOK, QueuesOK, queues
  <2> QED
    BY <2>2, <2>3, <2>4, <2>5 DEF TypeOK
<1>18. ASSUME LoopDispatch PROVE TypeOK'
  <2>1. Move(Dispatcher, "dispatch", "count")
    BY <1>18 DEF LoopDispatch, DispatchBatch
  <2>2. /\ PcOK' /\ pc[Dispatcher] = "dispatch" /\ pc'[Dispatcher] = "count"
        /\ \A u \in Threads \ {Dispatcher} : pc'[u] = pc[u]
    BY <2>1, <1>0, PlacesOf, MoveOK DEF ClientPlaces, LoopPlaces, FlushPlaces, StopperPlaces
  <2>3. Head(held[Dispatcher]) \in Requests /\ Tail(held[Dispatcher]) \in Seq(Requests)
    BY <1>18, <2>2, HeadTailProperties DEF LoopDispatch, DispatchBatch, TypeOK, QueuesOK
  <2>4. SyncOK' /\ TimeOK' /\ CallersOK' /\ StatsOK'
    BY <1>18, <2>2 DEF LoopDispatch, DispatchBatch, TypeOK, SyncOK, TimeOK, CallersOK, StatsOK, sync, time, callers
  <2>5. QueuesOK'
    BY <1>18, <2>2, <2>3 DEF LoopDispatch, TypeOK, QueuesOK, queues, DispatchBatch
  <2>6. PromisesOK'
    BY <1>18, <2>2, <2>3 DEF LoopDispatch, TypeOK, PromisesOK, promises, DispatchBatch
  <2> QED
    BY <2>2, <2>4, <2>5, <2>6 DEF TypeOK
<1>19. ASSUME LoopCount PROVE TypeOK'
  <2>1. Move(Dispatcher, "count", "dispatch")
    BY <1>19 DEF LoopCount, CountBatch
  <2>2. /\ PcOK' /\ pc[Dispatcher] = "count" /\ pc'[Dispatcher] = "dispatch"
        /\ \A u \in Threads \ {Dispatcher} : pc'[u] = pc[u]
    BY <2>1, <1>0, PlacesOf, MoveOK DEF ClientPlaces, LoopPlaces, FlushPlaces, StopperPlaces
  <2>3. Head(held[Dispatcher]) \in Requests /\ Tail(held[Dispatcher]) \in Seq(Requests)
    BY <1>19, <2>2, HeadTailProperties DEF LoopCount, CountBatch, TypeOK, QueuesOK
  <2>4. SyncOK' /\ TimeOK' /\ PromisesOK' /\ CallersOK'
    BY <1>19, <2>2 DEF LoopCount, CountBatch, TypeOK, SyncOK, TimeOK, PromisesOK, CallersOK, sync, time, promises, callers
  <2>5. QueuesOK'
    BY <1>19, <2>2, <2>3 DEF LoopCount, TypeOK, QueuesOK, queues, CountBatch
  <2>6. Counting(Dispatcher) \in Nat
    BY <2>3, SizeAssumption DEF Counting
  <2>7. StatsOK'
    BY <1>19, <2>6, LoopCountedOK DEF LoopCount, CountBatch, TypeOK, StatsOK
  <2> QED
    BY <2>2, <2>4, <2>5, <2>7 DEF TypeOK
<1>20. ASSUME DispatchEnd PROVE TypeOK'
  <2>1. Move(Dispatcher, "dispatch", "loop")
    BY <1>20 DEF DispatchEnd
  <2>2. /\ PcOK' /\ pc[Dispatcher] = "dispatch" /\ pc'[Dispatcher] = "loop"
        /\ \A u \in Threads \ {Dispatcher} : pc'[u] = pc[u]
    BY <2>1, <1>0, PlacesOf, MoveOK DEF ClientPlaces, LoopPlaces, FlushPlaces, StopperPlaces
  <2>3. SyncOK' /\ QueuesOK' /\ TimeOK' /\ PromisesOK' /\ CallersOK' /\ StatsOK'
    BY <1>20, <2>2 DEF DispatchEnd, TypeOK, SyncOK, QueuesOK, TimeOK, PromisesOK, CallersOK, StatsOK, sync, queues, time, promises, callers
  <2> QED
    BY <2>2, <2>3 DEF TypeOK
<1>21. ASSUME NEW r \in Requests, RunThen(r) PROVE TypeOK'
  <2>1. pc' = pc /\ crashed' \in BOOLEAN
    BY <1>21, <1>0 DEF RunThen, PcOK
  <2>2. PcOK'
    BY <2>1, <1>0 DEF PcOK
  <2>3. SyncOK' /\ QueuesOK' /\ TimeOK' /\ CallersOK' /\ StatsOK'
    BY <1>21, <2>2, <2>1 DEF RunThen, TypeOK, SyncOK, QueuesOK, TimeOK, CallersOK, StatsOK, sync, queues, time, callers
  <2>4. PromisesOK'
    BY <1>21, <2>2, <2>1 DEF RunThen, TypeOK, PromisesOK, promises, Settled, Delivered
  <2> QED
    BY <2>2, <2>3, <2>4 DEF TypeOK
<1>22. ASSUME NEW f \in Flushers, FlushCall(f) PROVE TypeOK'
  <2>1. Move(f, "idle", "flushlock")
    BY <1>22 DEF FlushCall
  <2>2. /\ PcOK' /\ pc[f] = "idle" /\ pc'[f] = "flushlock"
        /\ \A u \in Threads \ {f} : pc'[u] = pc[u]
    BY <2>1, <1>0, PlacesOf, MoveOK DEF ClientPlaces, LoopPlaces, FlushPlaces, StopperPlaces
  <2>3. SyncOK' /\ QueuesOK' /\ TimeOK' /\ PromisesOK' /\ CallersOK' /\ StatsOK'
    BY <1>22, <2>2 DEF FlushCall, TypeOK, SyncOK, QueuesOK, TimeOK, PromisesOK, CallersOK, StatsOK, sync, queues, time, promises, callers
  <2> QED
    BY <2>2, <2>3 DEF TypeOK
<1>23. ASSUME NEW w \in Workers, FlushLock(w) PROVE TypeOK'
  <2>1. Move(w, "flushlock", "flushtake")
    BY <1>23 DEF FlushLock
  <2>2. /\ PcOK' /\ pc[w] = "flushlock" /\ pc'[w] = "flushtake"
        /\ \A u \in Threads \ {w} : pc'[u] = pc[u]
    BY <2>1, <1>0, PlacesOf, MoveOK DEF ClientPlaces, LoopPlaces, FlushPlaces, StopperPlaces
  <2>3. QueuesOK' /\ TimeOK' /\ PromisesOK' /\ CallersOK' /\ StatsOK'
    BY <1>23, <2>2 DEF FlushLock, TypeOK, QueuesOK, TimeOK, PromisesOK, CallersOK, StatsOK, queues, time, promises, callers
  <2>4. SyncOK'
    BY <1>23, <2>2 DEF FlushLock, TypeOK, SyncOK, sync, Acquire
  <2> QED
    BY <2>2, <2>3, <2>4 DEF TypeOK
<1>24. ASSUME NEW w \in Workers, FlushTake(w) PROVE TypeOK'
  <2>1. Move(w, "flushtake", "flushdispatch")
    BY <1>24 DEF FlushTake
  <2>2. /\ PcOK' /\ pc[w] = "flushtake" /\ pc'[w] = "flushdispatch"
        /\ \A u \in Threads \ {w} : pc'[u] = pc[u]
    BY <2>1, <1>0, PlacesOf, MoveOK DEF ClientPlaces, LoopPlaces, FlushPlaces, StopperPlaces
  <2>3. TimeOK' /\ PromisesOK' /\ CallersOK' /\ StatsOK'
    BY <1>24, <2>2 DEF FlushTake, TypeOK, TimeOK, PromisesOK, CallersOK, StatsOK, time, promises, callers
  <2>4. SyncOK'
    BY <1>24, <2>2 DEF FlushTake, TypeOK, SyncOK, sync, Release
  <2>5. QueuesOK'
    BY <1>24, <2>2 DEF FlushTake, TypeOK, QueuesOK, queues
  <2> QED
    BY <2>2, <2>3, <2>4, <2>5 DEF TypeOK
<1>25. ASSUME NEW w \in Workers, FlushDispatch(w) PROVE TypeOK'
  <2>1. Move(w, "flushdispatch", "flushcount")
    BY <1>25 DEF FlushDispatch, DispatchBatch
  <2>2. /\ PcOK' /\ pc[w] = "flushdispatch" /\ pc'[w] = "flushcount"
        /\ \A u \in Threads \ {w} : pc'[u] = pc[u]
    BY <2>1, <1>0, PlacesOf, MoveOK DEF ClientPlaces, LoopPlaces, FlushPlaces, StopperPlaces
  <2>3. Head(held[w]) \in Requests /\ Tail(held[w]) \in Seq(Requests)
    BY <1>25, <2>2, HeadTailProperties DEF FlushDispatch, DispatchBatch, TypeOK, QueuesOK
  <2>4. SyncOK' /\ TimeOK' /\ CallersOK' /\ StatsOK'
    BY <1>25, <2>2 DEF FlushDispatch, DispatchBatch, TypeOK, SyncOK, TimeOK, CallersOK, StatsOK, sync, time, callers
  <2>5. QueuesOK'
    BY <1>25, <2>2, <2>3 DEF FlushDispatch, TypeOK, QueuesOK, queues, DispatchBatch
  <2>6. PromisesOK'
    BY <1>25, <2>2, <2>3 DEF FlushDispatch, TypeOK, PromisesOK, promises, DispatchBatch
  <2> QED
    BY <2>2, <2>4, <2>5, <2>6 DEF TypeOK
<1>26. ASSUME NEW w \in Workers, FlushCount(w) PROVE TypeOK'
  <2>1. Move(w, "flushcount", "flushdispatch")
    BY <1>26 DEF FlushCount, CountBatch
  <2>2. /\ PcOK' /\ pc[w] = "flushcount" /\ pc'[w] = "flushdispatch"
        /\ \A u \in Threads \ {w} : pc'[u] = pc[u]
    BY <2>1, <1>0, PlacesOf, MoveOK DEF ClientPlaces, LoopPlaces, FlushPlaces, StopperPlaces
  <2>3. Head(held[w]) \in Requests /\ Tail(held[w]) \in Seq(Requests)
    BY <1>26, <2>2, HeadTailProperties DEF FlushCount, CountBatch, TypeOK, QueuesOK
  <2>4. SyncOK' /\ TimeOK' /\ PromisesOK' /\ CallersOK'
    BY <1>26, <2>2 DEF FlushCount, CountBatch, TypeOK, SyncOK, TimeOK, PromisesOK, CallersOK, sync, time, promises, callers
  <2>5. QueuesOK'
    BY <1>26, <2>2, <2>3 DEF FlushCount, TypeOK, QueuesOK, queues, CountBatch
  <2>6. Counting(w) \in Nat
    BY <2>3, SizeAssumption DEF Counting
  <2>7. StatsOK'
    BY <1>26, <2>6, FlushCountedOK DEF FlushCount, CountBatch, TypeOK, StatsOK
  <2> QED
    BY <2>2, <2>4, <2>5, <2>7 DEF TypeOK
<1>27. ASSUME NEW w \in Workers, FlushEnd(w) PROVE TypeOK'
  <2>1. Move(w, "flushdispatch", "done")
    BY <1>27 DEF FlushEnd
  <2>2. /\ PcOK' /\ pc[w] = "flushdispatch" /\ pc'[w] = "done"
        /\ \A u \in Threads \ {w} : pc'[u] = pc[u]
    BY <2>1, <1>0, PlacesOf, MoveOK DEF ClientPlaces, LoopPlaces, FlushPlaces, StopperPlaces
  <2>3. SyncOK' /\ QueuesOK' /\ TimeOK' /\ PromisesOK' /\ CallersOK' /\ StatsOK'
    BY <1>27, <2>2 DEF FlushEnd, TypeOK, SyncOK, QueuesOK, TimeOK, PromisesOK, CallersOK, StatsOK, sync, queues, time, promises, callers
  <2> QED
    BY <2>2, <2>3 DEF TypeOK
<1>28. ASSUME StopRunning PROVE TypeOK'
  <2>1. Move(Stopper, "running", "notify")
    BY <1>28 DEF StopRunning
  <2>2. /\ PcOK' /\ pc[Stopper] = "running" /\ pc'[Stopper] = "notify"
        /\ \A u \in Threads \ {Stopper} : pc'[u] = pc[u]
    BY <2>1, <1>0, PlacesOf, MoveOK DEF ClientPlaces, LoopPlaces, FlushPlaces, StopperPlaces
  <2>3. QueuesOK' /\ TimeOK' /\ PromisesOK' /\ CallersOK' /\ StatsOK'
    BY <1>28, <2>2 DEF StopRunning, TypeOK, QueuesOK, TimeOK, PromisesOK, CallersOK, StatsOK, queues, time, promises, callers
  <2>4. SyncOK'
    BY <1>28, <2>2 DEF StopRunning, TypeOK, SyncOK, sync
  <2> QED
    BY <2>2, <2>3, <2>4 DEF TypeOK
<1>29. ASSUME StopNotify PROVE TypeOK'
  <2>1. Move(Stopper, "notify", "join")
    BY <1>29 DEF StopNotify
  <2>2. /\ PcOK' /\ pc[Stopper] = "notify" /\ pc'[Stopper] = "join"
        /\ \A u \in Threads \ {Stopper} : pc'[u] = pc[u]
    BY <2>1, <1>0, PlacesOf, MoveOK DEF ClientPlaces, LoopPlaces, FlushPlaces, StopperPlaces
  <2>3. QueuesOK' /\ TimeOK' /\ PromisesOK' /\ CallersOK' /\ StatsOK'
    BY <1>29, <2>2 DEF StopNotify, TypeOK, QueuesOK, TimeOK, PromisesOK, CallersOK, StatsOK, queues, time, promises, callers
  <2>4. SyncOK'
    BY <1>29, <2>2 DEF StopNotify, TypeOK, SyncOK, sync
  <2> QED
    BY <2>2, <2>3, <2>4 DEF TypeOK
<1>30. ASSUME StopJoin PROVE TypeOK'
  <2>1. Move(Stopper, "join", "stopped")
    BY <1>30 DEF StopJoin
  <2>2. /\ PcOK' /\ pc[Stopper] = "join" /\ pc'[Stopper] = "stopped"
        /\ \A u \in Threads \ {Stopper} : pc'[u] = pc[u]
    BY <2>1, <1>0, PlacesOf, MoveOK DEF ClientPlaces, LoopPlaces, FlushPlaces, StopperPlaces
  <2>3. SyncOK' /\ QueuesOK' /\ TimeOK' /\ PromisesOK' /\ CallersOK' /\ StatsOK'
    BY <1>30, <2>2 DEF StopJoin, TypeOK, SyncOK, QueuesOK, TimeOK, PromisesOK, CallersOK, StatsOK, sync, queues, time, promises, callers
  <2> QED
    BY <2>2, <2>3 DEF TypeOK
<1>31. ASSUME Destroy PROVE TypeOK'
  <2>1. Move(Stopper, "stopped", "destroyed")
    BY <1>31 DEF Destroy
  <2>2. /\ PcOK' /\ pc[Stopper] = "stopped" /\ pc'[Stopper] = "destroyed"
        /\ \A u \in Threads \ {Stopper} : pc'[u] = pc[u]
    BY <2>1, <1>0, PlacesOf, MoveOK DEF ClientPlaces, LoopPlaces, FlushPlaces, StopperPlaces
  <2>3. SyncOK' /\ TimeOK' /\ CallersOK' /\ StatsOK'
    BY <1>31, <2>2 DEF Destroy, TypeOK, SyncOK, TimeOK, CallersOK, StatsOK, sync, time, callers
  <2>4. QueuesOK'
    BY <1>31, <2>2 DEF Destroy, TypeOK, QueuesOK, queues
  <2>5. PromisesOK'
    BY <1>31, <2>2 DEF Destroy, TypeOK, PromisesOK, promises, Settled
  <2> QED
    BY <2>2, <2>3, <2>4, <2>5 DEF TypeOK
<1>32. CASE UNCHANGED vars
  BY <1>32 DEF TypeOK, PcOK, SyncOK, QueuesOK, TimeOK, PromisesOK, CallersOK, StatsOK, vars, sync, queues, time, promises, callers
<1> QED
  BY <1>1, <1>2, <1>3, <1>4, <1>5, <1>6, <1>7, <1>8, <1>9, <1>10, <1>11, <1>12, <1>13, <1>14, <1>15, <1>16, <1>17, <1>18, <1>19, <1>20, <1>21, <1>22, <1>23, <1>24, <1>25, <1>26, <1>27, <1>28, <1>29, <1>30, <1>31, <1>32 DEF Next, Submit, Loop, Flush, Stop

LEMMA InitTyped == Init => TypeOK
<1> SUFFICES ASSUME Init PROVE TypeOK
  OBVIOUS
<1>1. PcOK
  <2>1. \A t \in Threads : pc[t] \in Places(t)
    BY Kinds, PlacesOf DEF Init, ClientPlaces, LoopPlaces, FlushPlaces, StopperPlaces,
       Threads, Workers
  <2> QED
    BY <2>1 DEF Init, PcOK
<1>2. StatsOK
  BY SizeAssumption DEF Init, StatsOK, StatsFields
<1>3. QueuesOK
  <2>1. \A w \in Workers : pc[w] \in {"loop", "idle"}
    BY Kinds DEF Init
  <2> QED
    BY <2>1 DEF Init, QueuesOK
<1>4. SyncOK /\ TimeOK /\ PromisesOK
  BY DEF Init, SyncOK, TimeOK, PromisesOK, Settled
<1>5. CallersOK
  BY Kinds DEF Init, CallersOK
<1> QED
  BY <1>1, <1>2, <1>3, <1>4, <1>5 DEF TypeOK

(* In every state the batcher's variables have the values their types and    *)
(* the control flow of submit(), background_loop(), flush() and shutdown()   *)
(* allow, for any number of threads and requests.                            *)
THEOREM TypeCorrect == Spec => []TypeOK
BY InitTyped, NextTyped, PTL DEF Spec

-------------------------------------------------------------------------------
(* Mutual exclusion.                                                         *)
LEMMA NextExclusive == TypeOK /\ MutexHeld /\ [Next]_vars => MutexHeld'
<1> SUFFICES ASSUME TypeOK, MutexHeld, [Next]_vars PROVE MutexHeld'
  OBVIOUS
<1> USE Kinds
<1>0. DOMAIN pc = Threads /\ NoThread \notin Threads
  BY ThreadsAssumption DEF TypeOK, PcOK
<1>1. ASSUME NEW c \in Clients, NEW r \in Requests, SubmitEmpty(c, r) PROVE MutexHeld'
  BY <1>0, <1>1 DEF SubmitEmpty, MutexHeld, InCritical, sync
<1>2. ASSUME NEW c \in Clients, NEW r \in Requests, SubmitBegin(c, r) PROVE MutexHeld'
  BY <1>0, <1>2 DEF SubmitBegin, Move, At, MutexHeld, InCritical, sync
<1>3. ASSUME NEW c \in Clients, SubmitLock(c) PROVE MutexHeld'
  BY <1>0, <1>3 DEF SubmitLock, Move, At, Acquire, MutexHeld, InCritical, sync
<1>4. ASSUME NEW c \in Clients, SubmitPush(c) PROVE MutexHeld'
  BY <1>0, <1>4 DEF SubmitPush, Move, At, Release, MutexHeld, InCritical, sync
<1>5. ASSUME NEW c \in Clients, TakeFuture(c) PROVE MutexHeld'
  BY <1>0, <1>5 DEF TakeFuture, Move, At, MutexHeld, InCritical, sync
<1>6. ASSUME NEW c \in Clients, SubmitThrows(c) PROVE MutexHeld'
  BY <1>0, <1>6 DEF SubmitThrows, Move, At, MutexHeld, InCritical, sync
<1>7. ASSUME NEW c \in Clients, SubmitFaults(c) PROVE MutexHeld'
  BY <1>0, <1>7 DEF SubmitFaults, MutexHeld, InCritical, sync
<1>8. ASSUME NEW c \in Clients, Collect(c) PROVE MutexHeld'
  BY <1>0, <1>8 DEF Collect, Move, At, MutexHeld, InCritical, sync
<1>9. ASSUME LoopTest PROVE MutexHeld'
  BY <1>0, <1>9 DEF LoopTest, Move, At, MutexHeld, InCritical, sync
<1>10. ASSUME WaitBegin PROVE MutexHeld'
  BY <1>0, <1>10 DEF WaitBegin, Move, At, Acquire, MutexHeld, InCritical, sync
<1>11. ASSUME Park PROVE MutexHeld'
  BY <1>0, <1>11 DEF Park, Move, At, Release, MutexHeld, InCritical, sync
<1>12. ASSUME WakeNotified PROVE MutexHeld'
  BY <1>0, <1>12 DEF WakeNotified, Move, At, Acquire, MutexHeld, InCritical, sync
<1>13. ASSUME WakeTimeout PROVE MutexHeld'
  BY <1>0, <1>13 DEF WakeTimeout, Move, At, Acquire, MutexHeld, InCritical, sync
<1>14. ASSUME StopSeen PROVE MutexHeld'
  BY <1>0, <1>14 DEF StopSeen, Move, At, Release, MutexHeld, InCritical, sync
<1>15. ASSUME SampleNow PROVE MutexHeld'
  BY <1>0, <1>15 DEF SampleNow, Move, At, MutexHeld, InCritical, sync
<1>16. ASSUME DrainFront PROVE MutexHeld'
  BY <1>0, <1>16 DEF DrainFront, MutexHeld, InCritical, sync
<1>17. ASSUME DrainEnd PROVE MutexHeld'
  BY <1>0, <1>17 DEF DrainEnd, Move, At, Release, MutexHeld, InCritical, sync
<1>18. ASSUME LoopDispatch PROVE MutexHeld'
  BY <1>0, <1>18 DEF LoopDispatch, DispatchBatch, Move, At, MutexHeld, InCritical, sync
<1>19. ASSUME LoopCount PROVE MutexHeld'
  BY <1>0, <1>19 DEF LoopCount, CountBatch, Move, At, MutexHeld, InCritical, sync
<1>20. ASSUME DispatchEnd PROVE MutexHeld'
  BY <1>0, <1>20 DEF DispatchEnd, Move, At, MutexHeld, InCritical, sync
<1>21. ASSUME NEW r \in Requests, RunThen(r) PROVE MutexHeld'
  BY <1>0, <1>21 DEF RunThen, MutexHeld, InCritical, sync
<1>22. ASSUME NEW f \in Flushers, FlushCall(f) PROVE MutexHeld'
  BY <1>0, <1>22 DEF FlushCall, Move, At, MutexHeld, InCritical, sync
<1>23. ASSUME NEW w \in Workers, FlushLock(w) PROVE MutexHeld'
  BY <1>0, <1>23 DEF FlushLock, Move, At, Acquire, MutexHeld, InCritical, sync
<1>24. ASSUME NEW w \in Workers, FlushTake(w) PROVE MutexHeld'
  BY <1>0, <1>24 DEF FlushTake, Move, At, Release, MutexHeld, InCritical, sync
<1>25. ASSUME NEW w \in Workers, FlushDispatch(w) PROVE MutexHeld'
  BY <1>0, <1>25 DEF FlushDispatch, DispatchBatch, Move, At, MutexHeld, InCritical, sync
<1>26. ASSUME NEW w \in Workers, FlushCount(w) PROVE MutexHeld'
  BY <1>0, <1>26 DEF FlushCount, CountBatch, Move, At, MutexHeld, InCritical, sync
<1>27. ASSUME NEW w \in Workers, FlushEnd(w) PROVE MutexHeld'
  BY <1>0, <1>27 DEF FlushEnd, Move, At, MutexHeld, InCritical, sync
<1>28. ASSUME StopRunning PROVE MutexHeld'
  BY <1>0, <1>28 DEF StopRunning, Move, At, MutexHeld, InCritical, sync
<1>29. ASSUME StopNotify PROVE MutexHeld'
  BY <1>0, <1>29 DEF StopNotify, Move, At, MutexHeld, InCritical, sync
<1>30. ASSUME StopJoin PROVE MutexHeld'
  BY <1>0, <1>30 DEF StopJoin, Move, At, MutexHeld, InCritical, sync
<1>31. ASSUME Destroy PROVE MutexHeld'
  BY <1>0, <1>31 DEF Destroy, Move, At, MutexHeld, InCritical, sync
<1>32. CASE UNCHANGED vars
  BY <1>32 DEF vars, sync, MutexHeld, InCritical
<1> QED
  BY <1>1, <1>2, <1>3, <1>4, <1>5, <1>6, <1>7, <1>8, <1>9, <1>10, <1>11, <1>12, <1>13, <1>14, <1>15, <1>16, <1>17, <1>18, <1>19, <1>20, <1>21, <1>22, <1>23, <1>24, <1>25, <1>26, <1>27, <1>28, <1>29, <1>30, <1>31, <1>32 DEF Next, Submit, Loop, Flush, Stop

(* mutex_ is held by exactly the thread that is in one of its critical        *)
(* sections: submit(), flush() and the loop exclude each other, through the   *)
(* release and retake inside wait_for.                                        *)
THEOREM MutualExclusion == Spec => []MutexHeld
<1>1. Init => MutexHeld
  BY Kinds, ThreadsAssumption DEF Init, MutexHeld, InCritical
<1> QED
  BY <1>1, TypeCorrect, NextExclusive, PTL DEF Spec

-------------------------------------------------------------------------------
(* Where promises are: facts about the queues they wait in.                  *)
LEMMA AppendToQueue ==
    ASSUME NEW s \in Seq(Requests), NEW e \in Requests
    PROVE  /\ Range(Append(s, e)) = Range(s) \cup {e}
           /\ IsInjective(s) /\ e \notin Range(s) => IsInjective(Append(s, e))
<1> DEFINE t == Append(s, e)
<1>1. /\ Len(t) = Len(s) + 1 /\ t[Len(s) + 1] = e
      /\ \A i \in 1..Len(s) : t[i] = s[i]
      /\ DOMAIN t = 1..(Len(s) + 1) /\ DOMAIN s = 1..Len(s) /\ Len(s) \in Nat
  BY AppendProperties, LenProperties
<1> HIDE DEF t
<1>2. Range(t) = Range(s) \cup {e}
  <2>1. Range(t) \subseteq Range(s) \cup {e}
    BY <1>1 DEF Range
  <2>2. Range(s) \cup {e} \subseteq Range(t)
    BY <1>1 DEF Range
  <2> QED
    BY <2>1, <2>2
<1>3. IsInjective(s) /\ e \notin Range(s) => IsInjective(t)
  BY <1>1 DEF IsInjective, Range
<1> QED
  BY <1>2, <1>3 DEF t

LEMMA TakeFromQueue ==
    ASSUME NEW s \in Seq(Requests), s # <<>>
    PROVE  /\ Head(s) \in Range(s)
           /\ Range(s) = Range(Tail(s)) \cup {Head(s)}
           /\ IsInjective(s) => Head(s) \notin Range(Tail(s)) /\ IsInjective(Tail(s))
<1> DEFINE t == Tail(s)
<1>1. /\ Len(t) = Len(s) - 1 /\ Head(s) = s[1]
      /\ \A i \in 1..Len(t) : t[i] = s[i + 1]
      /\ DOMAIN t = 1..(Len(s) - 1) /\ DOMAIN s = 1..Len(s) /\ Len(s) \in Nat /\ Len(s) > 0
  BY HeadTailProperties, LenProperties, EmptySeq
<1> HIDE DEF t
<1>2. Head(s) \in Range(s)
  BY <1>1 DEF Range
<1>3. Range(s) = Range(t) \cup {Head(s)}
  <2>1. Range(t) \subseteq Range(s)
    BY <1>1 DEF Range
  <2>2. ASSUME NEW i \in DOMAIN s PROVE s[i] \in Range(t) \cup {Head(s)}
    <3>1. i = 1 \/ (i - 1 \in 1..Len(t) /\ t[i - 1] = s[i])
      BY <1>1
    <3> QED
      BY <1>1, <3>1 DEF Range
  <2>3. Range(s) \subseteq Range(t) \cup {Head(s)}
    BY <2>2 DEF Range
  <2> QED
    BY <1>2, <2>1, <2>3
<1>4. ASSUME IsInjective(s) PROVE Head(s) \notin Range(t) /\ IsInjective(t)
  <2>0. DOMAIN t = 1..Len(t)
    BY HeadTailProperties, LenProperties DEF t
  <2>1. ASSUME NEW i \in 1..Len(t) PROVE t[i] # Head(s)
    <3>1. i + 1 \in DOMAIN s /\ 1 \in DOMAIN s /\ i + 1 # 1 /\ t[i] = s[i + 1]
      BY <1>1
    <3> QED
      BY <1>1, <1>4, <3>1 DEF IsInjective
  <2>2. ASSUME NEW i \in 1..Len(t), NEW j \in 1..Len(t), t[i] = t[j] PROVE i = j
    <3>1. /\ i + 1 \in DOMAIN s /\ t[i] = s[i + 1]
          /\ j + 1 \in DOMAIN s /\ t[j] = s[j + 1]
      BY <1>1
    <3>2. i + 1 = j + 1
      BY <1>4, <2>2, <3>1 DEF IsInjective
    <3> QED
      BY <3>2
  <2> QED
    BY <2>0, <2>1, <2>2 DEF IsInjective, Range
<1> QED
  BY <1>2, <1>3, <1>4 DEF t

LEMMA EmptyQueue == Range(<<>>) = {} /\ IsInjective(<<>>)
BY DEF Range, IsInjective

(* A worker's vector is empty except from the moment it is filled until the  *)
(* last batch in it is counted, and the loop's second queue except while it  *)
(* is being filled.  Without this a vector that is filled anew could         *)
(* overwrite promises.                                                       *)
HandsEmpty ==
    /\ \A w \in Workers :
          pc[w] \notin {"drain", "dispatch", "count", "flushdispatch", "flushcount"}
          => held[w] = <<>>
    /\ pc[Dispatcher] # "drain" => remaining = <<>>

HeldInv == TypeOK /\ HandsEmpty /\ PromiseHeldOnce

(* PromiseHeldOnce depends on these alone.                                   *)
SameView ==
    /\ UNCHANGED <<pending, remaining, promise, cont>>
    /\ \A w \in Workers : Undispatched(w)' = Undispatched(w)
    /\ \A c \in Clients : Submitting(c)' = Submitting(c)

LEMMA ViewKept == SameView /\ PromiseHeldOnce => PromiseHeldOnce'
<1> SUFFICES ASSUME SameView, PromiseHeldOnce PROVE PromiseHeldOnce'
  OBVIOUS
<1>1. Queued' = Queued /\ Taken' = Taken
  BY DEF SameView, Queued, Taken
<1>2. \A r : InSubmit(r)' <=> InSubmit(r)
  BY DEF SameView, InSubmit
<1>3. HeldSomewhere'
  BY <1>1, <1>2 DEF PromiseHeldOnce, HeldSomewhere, SameView
<1>4. NoDuplicates'
  BY DEF PromiseHeldOnce, NoDuplicates, SameView
<1>5. OnePlace'
  BY <1>1, <1>2 DEF PromiseHeldOnce, OnePlace, SameView
<1> QED
  BY <1>3, <1>4, <1>5 DEF PromiseHeldOnce

LEMMA NextHandsEmpty == TypeOK /\ HandsEmpty /\ [Next]_vars => HandsEmpty'
<1> SUFFICES ASSUME TypeOK, HandsEmpty, [Next]_vars PROVE HandsEmpty'
  OBVIOUS
<1> USE Kinds
<1>0. DOMAIN pc = Threads /\ DOMAIN held = Workers
  BY DEF TypeOK, PcOK, QueuesOK
<1>1. ASSUME NEW c \in Clients, NEW r \in Requests, SubmitEmpty(c, r) PROVE HandsEmpty'
  BY <1>0, <1>1 DEF SubmitEmpty, HandsEmpty, queues
<1>2. ASSUME NEW c \in Clients, NEW r \in Requests, SubmitBegin(c, r) PROVE HandsEmpty'
  BY <1>0, <1>2 DEF SubmitBegin, Move, At, HandsEmpty, queues
<1>3. ASSUME NEW c \in Clients, SubmitLock(c) PROVE HandsEmpty'
  BY <1>0, <1>3 DEF SubmitLock, Move, At, HandsEmpty, queues
<1>4. ASSUME NEW c \in Clients, SubmitPush(c) PROVE HandsEmpty'
  BY <1>0, <1>4 DEF SubmitPush, Move, At, HandsEmpty, queues
<1>5. ASSUME NEW c \in Clients, TakeFuture(c) PROVE HandsEmpty'
  BY <1>0, <1>5 DEF TakeFuture, Move, At, HandsEmpty, queues
<1>6. ASSUME NEW c \in Clients, SubmitThrows(c) PROVE HandsEmpty'
  BY <1>0, <1>6 DEF SubmitThrows, Move, At, HandsEmpty, queues
<1>7. ASSUME NEW c \in Clients, SubmitFaults(c) PROVE HandsEmpty'
  BY <1>0, <1>7 DEF SubmitFaults, HandsEmpty, queues
<1>8. ASSUME NEW c \in Clients, Collect(c) PROVE HandsEmpty'
  BY <1>0, <1>8 DEF Collect, Move, At, HandsEmpty, queues
<1>9. ASSUME LoopTest PROVE HandsEmpty'
  BY <1>0, <1>9 DEF LoopTest, Move, At, HandsEmpty, queues
<1>10. ASSUME WaitBegin PROVE HandsEmpty'
  BY <1>0, <1>10 DEF WaitBegin, Move, At, HandsEmpty, queues
<1>11. ASSUME Park PROVE HandsEmpty'
  BY <1>0, <1>11 DEF Park, Move, At, HandsEmpty, queues
<1>12. ASSUME WakeNotified PROVE HandsEmpty'
  BY <1>0, <1>12 DEF WakeNotified, Move, At, HandsEmpty, queues
<1>13. ASSUME WakeTimeout PROVE HandsEmpty'
  BY <1>0, <1>13 DEF WakeTimeout, Move, At, HandsEmpty, queues
<1>14. ASSUME StopSeen PROVE HandsEmpty'
  BY <1>0, <1>14 DEF StopSeen, Move, At, HandsEmpty, queues
<1>15. ASSUME SampleNow PROVE HandsEmpty'
  BY <1>0, <1>15 DEF SampleNow, Move, At, HandsEmpty, queues
<1>16. ASSUME DrainFront PROVE HandsEmpty'
  BY <1>0, <1>16 DEF DrainFront, HandsEmpty, queues, At, DispatchFront
<1>17. ASSUME DrainEnd PROVE HandsEmpty'
  BY <1>0, <1>17 DEF DrainEnd, Move, At, HandsEmpty, queues
<1>18. ASSUME LoopDispatch PROVE HandsEmpty'
  BY <1>0, <1>18 DEF LoopDispatch, DispatchBatch, Move, At, HandsEmpty, queues
<1>19. ASSUME LoopCount PROVE HandsEmpty'
  BY <1>0, <1>19 DEF LoopCount, CountBatch, Move, At, HandsEmpty, queues
<1>20. ASSUME DispatchEnd PROVE HandsEmpty'
  BY <1>0, <1>20 DEF DispatchEnd, Move, At, HandsEmpty, queues
<1>21. ASSUME NEW r \in Requests, RunThen(r) PROVE HandsEmpty'
  BY <1>0, <1>21 DEF RunThen, HandsEmpty, queues
<1>22. ASSUME NEW f \in Flushers, FlushCall(f) PROVE HandsEmpty'
  BY <1>0, <1>22 DEF FlushCall, Move, At, HandsEmpty, queues
<1>23. ASSUME NEW w \in Workers, FlushLock(w) PROVE HandsEmpty'
  BY <1>0, <1>23 DEF FlushLock, Move, At, HandsEmpty, queues
<1>24. ASSUME NEW w \in Workers, FlushTake(w) PROVE HandsEmpty'
  BY <1>0, <1>24 DEF FlushTake, Move, At, HandsEmpty, queues
<1>25. ASSUME NEW w \in Workers, FlushDispatch(w) PROVE HandsEmpty'
  BY <1>0, <1>25 DEF FlushDispatch, DispatchBatch, Move, At, HandsEmpty, queues
<1>26. ASSUME NEW w \in Workers, FlushCount(w) PROVE HandsEmpty'
  BY <1>0, <1>26 DEF FlushCount, CountBatch, Move, At, HandsEmpty, queues
<1>27. ASSUME NEW w \in Workers, FlushEnd(w) PROVE HandsEmpty'
  BY <1>0, <1>27 DEF FlushEnd, Move, At, HandsEmpty, queues
<1>28. ASSUME StopRunning PROVE HandsEmpty'
  BY <1>0, <1>28 DEF StopRunning, Move, At, HandsEmpty, queues
<1>29. ASSUME StopNotify PROVE HandsEmpty'
  BY <1>0, <1>29 DEF StopNotify, Move, At, HandsEmpty, queues
<1>30. ASSUME StopJoin PROVE HandsEmpty'
  BY <1>0, <1>30 DEF StopJoin, Move, At, HandsEmpty, queues
<1>31. ASSUME Destroy PROVE HandsEmpty'
  BY <1>0, <1>31 DEF Destroy, Move, At, HandsEmpty, queues
<1>32. CASE UNCHANGED vars
  BY <1>32 DEF vars, queues, HandsEmpty
<1> QED
  BY <1>1, <1>2, <1>3, <1>4, <1>5, <1>6, <1>7, <1>8, <1>9, <1>10, <1>11, <1>12, <1>13, <1>14, <1>15, <1>16, <1>17, <1>18, <1>19, <1>20, <1>21, <1>22, <1>23, <1>24, <1>25, <1>26, <1>27, <1>28, <1>29, <1>30, <1>31, <1>32 DEF Next, Submit, Loop, Flush, Stop

(* Handing the first batch of a worker's vector to the service moves its     *)
(* promise into the continuation.                                            *)
LEMMA DispatchHeld ==
    ASSUME HeldInv, NEW w \in Workers, NEW from \in {"dispatch", "flushdispatch"},
           NEW to \in {"count", "flushcount"}, DispatchBatch(w, from, to)
    PROVE  PromiseHeldOnce'
<1> DEFINE r == Head(held[w])
<1> USE Kinds
<1>0. DOMAIN pc = Threads /\ DOMAIN cont = Requests /\ held[w] \in Seq(Requests)
  BY DEF HeldInv, TypeOK, PcOK, PromisesOK, QueuesOK
<1>1. /\ held[w] # <<>> /\ pc[w] = from /\ pc' = [pc EXCEPT ![w] = to]
      /\ UNCHANGED <<pending, remaining, held, promise, cur>>
      /\ \E result \in Results : cont' = [cont EXCEPT ![r] = result]
  BY DEF DispatchBatch, Move, At, queues, callers
<1>2. r \in Requests
  BY <1>0, <1>1, HeadTailProperties
<1>3. /\ Undispatched(w) = held[w] /\ Undispatched(w)' = Tail(held[w])
      /\ \A v \in Workers \ {w} : Undispatched(v)' = Undispatched(v)
      /\ \A c \in Clients : Submitting(c)' = Submitting(c)
  BY <1>0, <1>1 DEF Undispatched, Submitting
<1>4. /\ r \in Range(held[w])
      /\ Range(held[w]) = Range(Tail(held[w])) \cup {r}
      /\ r \notin Range(Tail(held[w])) /\ IsInjective(Tail(held[w]))
  BY <1>0, <1>1, <1>3, TakeFromQueue DEF HeldInv, PromiseHeldOnce, NoDuplicates
<1>5. cont'[r] # "idle" /\ \A q \in Requests \ {r} : cont'[q] = cont[q]
  BY <1>0, <1>1, <1>2 DEF Results
<1>6. /\ Queued' = Queued
      /\ \A q : InSubmit(q)' <=> InSubmit(q)
  BY <1>1, <1>3 DEF Queued, InSubmit
<1>7. Taken = Taken' \cup {r} /\ r \notin Taken'
  <2>1. \A v \in Workers \ {w} : r \notin Range(Undispatched(v))
    BY <1>3, <1>4 DEF HeldInv, PromiseHeldOnce, OnePlace
  <2> HIDE DEF r
  <2> QED
    BY <1>3, <1>4, <2>1 DEF Taken
<1>8. r \notin Queued /\ ~InSubmit(r) /\ r \in Taken
  BY <1>2, <1>7 DEF HeldInv, PromiseHeldOnce, OnePlace
<1> HIDE DEF r
<1>9. HeldSomewhere'
  BY <1>1, <1>2, <1>5, <1>6, <1>7, <1>8 DEF HeldInv, PromiseHeldOnce, HeldSomewhere
<1>10. NoDuplicates'
  BY <1>1, <1>3, <1>4 DEF HeldInv, PromiseHeldOnce, NoDuplicates
<1>11. OnePlace'
  <2>1. Range(pending') \cap Range(remaining') = {} /\ Queued' \cap Taken' = {}
    BY <1>1, <1>6, <1>7 DEF HeldInv, PromiseHeldOnce, OnePlace
  <2>2. \A u, v \in Workers :
          u # v => Range(Undispatched(u)') \cap Range(Undispatched(v)') = {}
    BY <1>3, <1>4 DEF HeldInv, PromiseHeldOnce, OnePlace
  <2>3. \A q \in Requests :
           /\ InSubmit(q)' => q \notin Queued' \cup Taken' /\ cont'[q] = "idle"
           /\ cont'[q] # "idle" => q \notin Queued' \cup Taken'
    BY <1>5, <1>6, <1>7, <1>8 DEF HeldInv, PromiseHeldOnce, OnePlace
  <2> QED
    BY <2>1, <2>2, <2>3 DEF OnePlace
<1> QED
  BY <1>9, <1>10, <1>11 DEF PromiseHeldOnce

(* One step per action: those that move no promise keep the view; the others *)
(* take one from exactly one place to exactly one other.                     *)
LEMMA NextHeldOnce == HeldInv /\ [Next]_vars => PromiseHeldOnce'
<1> SUFFICES ASSUME HeldInv, [Next]_vars PROVE PromiseHeldOnce'
  OBVIOUS
<1> USE Kinds DEF HeldInv
<1>0. /\ DOMAIN pc = Threads /\ DOMAIN held = Workers /\ DOMAIN cur = Clients
      /\ DOMAIN promise = Requests /\ DOMAIN cont = Requests
  BY DEF TypeOK, PcOK, QueuesOK, CallersOK, PromisesOK
<1>1. ASSUME NEW c \in Clients, NEW r \in Requests, SubmitEmpty(c, r) PROVE PromiseHeldOnce'
  <2>1. /\ UNCHANGED <<pending, remaining, cont>>
        /\ \A w \in Workers : Undispatched(w)' = Undispatched(w)
        /\ \A d \in Clients : Submitting(d)' = Submitting(d)
        /\ promise[r] = "none" /\ promise' = [promise EXCEPT ![r] = "value"]
    BY <1>1 DEF SubmitEmpty, Undispatched, Submitting, queues, callers
  <2>2. Queued' = Queued /\ Taken' = Taken /\ \A q : InSubmit(q)' <=> InSubmit(q)
    BY <2>1 DEF Queued, Taken, InSubmit
  <2>3. HeldSomewhere'
    BY <1>0, <2>1, <2>2 DEF PromiseHeldOnce, HeldSomewhere
  <2>4. NoDuplicates' /\ OnePlace'
    BY <2>1, <2>2 DEF PromiseHeldOnce, NoDuplicates, OnePlace
  <2> QED
    BY <2>3, <2>4 DEF PromiseHeldOnce
<1>2. ASSUME NEW c \in Clients, NEW r \in Requests, SubmitBegin(c, r) PROVE PromiseHeldOnce'
  <2>1. /\ UNCHANGED <<pending, remaining, cont>>
        /\ \A w \in Workers : Undispatched(w)' = Undispatched(w)
        /\ promise[r] = "none" /\ promise' = [promise EXCEPT ![r] = "unset"]
    BY <1>0, <1>2 DEF SubmitBegin, Move, At, Undispatched, queues
  <2>2. /\ Submitting(c) = NoRequest /\ Submitting(c)' = r
        /\ \A d \in Clients \ {c} : Submitting(d)' = Submitting(d)
    BY <1>0, <1>2 DEF SubmitBegin, Move, At, Submitting
  <2>3. Queued' = Queued /\ Taken' = Taken
    BY <2>1 DEF Queued, Taken
  <2>4. \A q \in Requests : InSubmit(q)' <=> InSubmit(q) \/ q = r
    BY <2>2, SizeAssumption DEF InSubmit
  <2>5. ~InSubmit(r) /\ r \notin Queued \cup Taken /\ cont[r] = "idle"
    BY <2>1 DEF PromiseHeldOnce, HeldSomewhere
  <2>6. HeldSomewhere'
    BY <1>0, <2>1, <2>3, <2>4 DEF PromiseHeldOnce, HeldSomewhere
  <2>7. NoDuplicates'
    BY <2>1, <2>2, <2>5 DEF PromiseHeldOnce, NoDuplicates, InSubmit
  <2>8. OnePlace'
    BY <2>1, <2>3, <2>4, <2>5 DEF PromiseHeldOnce, OnePlace
  <2> QED
    BY <2>6, <2>7, <2>8 DEF PromiseHeldOnce
<1>3. ASSUME NEW c \in Clients, SubmitLock(c) PROVE PromiseHeldOnce'
  <2>1. SameView
    BY <1>0, <1>3 DEF SubmitLock, Move, At, SameView, Undispatched, Submitting, queues, promises, callers
  <2> QED
    BY <2>1, ViewKept
<1>4. ASSUME NEW c \in Clients, SubmitPush(c) PROVE PromiseHeldOnce'
  <2> DEFINE r == cur[c]
  <2>1. /\ UNCHANGED <<remaining, cont, promise>> /\ pending' = Append(pending, r)
        /\ \A w \in Workers : Undispatched(w)' = Undispatched(w)
    BY <1>0, <1>4 DEF SubmitPush, Move, At, Undispatched, queues, promises
  <2>2. /\ Submitting(c) = r /\ Submitting(c)' = NoRequest /\ pc[c] = "push"
        /\ \A d \in Clients \ {c} : Submitting(d)' = Submitting(d)
    BY <1>0, <1>4 DEF SubmitPush, Move, At, Submitting, callers
  <2>3. r \in Requests /\ r # NoRequest
    BY <2>2, SizeAssumption DEF TypeOK, CallersOK
  <2>4. InSubmit(r) /\ r \notin Queued \cup Taken /\ cont[r] = "idle"
    BY <2>2, <2>3 DEF InSubmit, PromiseHeldOnce, OnePlace
  <2>5. /\ Range(pending') = Range(pending) \cup {r}
        /\ IsInjective(pending')
    BY <2>1, <2>3, <2>4, AppendToQueue DEF TypeOK, QueuesOK, Queued, PromiseHeldOnce, NoDuplicates
  <2>6. Queued' = Queued \cup {r} /\ Taken' = Taken
    BY <2>1, <2>5 DEF Queued, Taken
  <2> HIDE DEF r
  <2>7. \A d \in Clients \ {c} : Submitting(d) # r
    BY <2>2, <2>3 DEF PromiseHeldOnce, NoDuplicates
  <2>8. \A q \in Requests : InSubmit(q)' <=> InSubmit(q) /\ q # r
    BY <2>2, <2>3, <2>7, SizeAssumption DEF InSubmit
  <2>9. HeldSomewhere'
    BY <2>1, <2>3, <2>4, <2>6, <2>8 DEF PromiseHeldOnce, HeldSomewhere
  <2>10. NoDuplicates'
    BY <2>1, <2>2, <2>5 DEF PromiseHeldOnce, NoDuplicates
  <2>11. OnePlace'
    BY <2>1, <2>4, <2>5, <2>6, <2>8 DEF PromiseHeldOnce, OnePlace, Queued
  <2> QED
    BY <2>9, <2>10, <2>11 DEF PromiseHeldOnce
<1>5. ASSUME NEW c \in Clients, TakeFuture(c) PROVE PromiseHeldOnce'
  <2>1. SameView
    BY <1>0, <1>5 DEF TakeFuture, Move, At, SameView, Undispatched, Submitting, queues, promises, callers
  <2> QED
    BY <2>1, ViewKept
<1>6. ASSUME NEW c \in Clients, SubmitThrows(c) PROVE PromiseHeldOnce'
  <2>1. SameView
    BY <1>0, <1>6 DEF SubmitThrows, Move, At, LeaveRequest, SameView, Undispatched, Submitting, queues, promises, callers
  <2> QED
    BY <2>1, ViewKept
<1>7. ASSUME NEW c \in Clients, SubmitFaults(c) PROVE PromiseHeldOnce'
  <2>1. SameView
    BY <1>0, <1>7 DEF SubmitFaults, SameView, Undispatched, Submitting, queues, promises, callers
  <2> QED
    BY <2>1, ViewKept
<1>8. ASSUME NEW c \in Clients, Collect(c) PROVE PromiseHeldOnce'
  <2>1. SameView
    BY <1>0, <1>8 DEF Collect, Move, At, LeaveRequest, SameView, Undispatched, Submitting, queues, promises, callers
  <2> QED
    BY <2>1, ViewKept
<1>9. ASSUME LoopTest PROVE PromiseHeldOnce'
  <2>1. SameView
    BY <1>0, <1>9 DEF LoopTest, Move, At, SameView, Undispatched, Submitting, queues, promises, callers
  <2> QED
    BY <2>1, ViewKept
<1>10. ASSUME WaitBegin PROVE PromiseHeldOnce'
  <2>1. SameView
    BY <1>0, <1>10 DEF WaitBegin, Move, At, SameView, Undispatched, Submitting, queues, promises, callers
  <2> QED
    BY <2>1, ViewKept
<1>11. ASSUME Park PROVE PromiseHeldOnce'
  <2>1. SameView
    BY <1>0, <1>11 DEF Park, Move, At, SameView, Undispatched, Submitting, queues, promises, callers
  <2> QED
    BY <2>1, ViewKept
<1>12. ASSUME WakeNotified PROVE PromiseHeldOnce'
  <2>1. SameView
    BY <1>0, <1>12 DEF WakeNotified, Move, At, SameView, Undispatched, Submitting, queues, promises, callers
  <2> QED
    BY <2>1, ViewKept
<1>13. ASSUME WakeTimeout PROVE PromiseHeldOnce'
  <2>1. SameView
    BY <1>0, <1>13 DEF WakeTimeout, Move, At, SameView, Undispatched, Submitting, queues, promises, callers
  <2> QED
    BY <2>1, ViewKept
<1>14. ASSUME StopSeen PROVE PromiseHeldOnce'
  <2>1. SameView
    BY <1>0, <1>14 DEF StopSeen, Move, At, SameView, Undispatched, Submitting, queues, promises, callers
  <2> QED
    BY <2>1, ViewKept
<1>15. ASSUME SampleNow PROVE PromiseHeldOnce'
  <2>1. SameView
    BY <1>0, <1>15 DEF SampleNow, Move, At, SameView, Undispatched, Submitting, queues, promises, callers
  <2> QED
    BY <2>1, ViewKept
<1>16. ASSUME DrainFront PROVE PromiseHeldOnce'
  <2> DEFINE r == Head(pending)
  <2>1. /\ pending # <<>> /\ pending' = Tail(pending) /\ pc' = pc
        /\ pc[Dispatcher] = "drain"
        /\ UNCHANGED <<cont, promise>>
        /\ \A d \in Clients : Submitting(d)' = Submitting(d)
    BY <1>16 DEF DrainFront, At, Submitting, promises, callers
  <2>2. r \in Requests /\ pending \in Seq(Requests) /\ remaining \in Seq(Requests)
        /\ held[Dispatcher] \in Seq(Requests)
    BY <2>1, HeadTailProperties DEF TypeOK, QueuesOK
  <2>3. /\ Range(pending) = Range(pending') \cup {r} /\ r \notin Range(pending')
        /\ r \in Queued /\ IsInjective(pending')
    BY <2>1, <2>2, TakeFromQueue DEF PromiseHeldOnce, NoDuplicates, Queued
  <2>4. r \notin Range(remaining) /\ r \notin Taken /\ ~InSubmit(r) /\ cont[r] = "idle"
    BY <2>2, <2>3 DEF PromiseHeldOnce, OnePlace, Queued
  <2>5. \A q : InSubmit(q)' <=> InSubmit(q)
    BY <2>1 DEF InSubmit
  <2>6. \A w \in Workers \ {Dispatcher} : Undispatched(w)' = Undispatched(w)
    BY <1>0, <2>1, <1>16 DEF DrainFront, DispatchFront, Undispatched
  <2>7. CASE DispatchFront(r) /\ UNCHANGED remaining
    <3>1. /\ Undispatched(Dispatcher) = held[Dispatcher]
          /\ Undispatched(Dispatcher)' = Append(held[Dispatcher], r)
      BY <1>0, <2>1, <2>7 DEF DispatchFront, Undispatched
    <3>2. r \notin Range(Undispatched(Dispatcher))
      BY <2>4 DEF Taken
    <3> HIDE DEF r
    <3>3. /\ Range(Undispatched(Dispatcher)') = Range(Undispatched(Dispatcher)) \cup {r}
          /\ IsInjective(Undispatched(Dispatcher)')
      BY <2>2, <3>1, <3>2, AppendToQueue DEF PromiseHeldOnce, NoDuplicates
    <3>4. Taken' = Taken \cup {r}
      BY <2>6, <3>3 DEF Taken
    <3>5. Queued = Queued' \cup {r} /\ r \notin Queued'
      BY <2>3, <2>4, <2>7 DEF Queued
    <3>6. HeldSomewhere'
      BY <2>1, <2>5, <3>4, <3>5 DEF PromiseHeldOnce, HeldSomewhere
    <3>7. NoDuplicates'
      BY <2>1, <2>3, <2>6, <2>7, <3>3 DEF PromiseHeldOnce, NoDuplicates
    <3>8. \A w \in Workers \ {Dispatcher} : r \notin Range(Undispatched(w))
      BY <2>4 DEF Taken
    <3>9. \A v, w \in Workers :
             v # w => Range(Undispatched(v)') \cap Range(Undispatched(w)') = {}
      BY <2>6, <3>3, <3>8 DEF PromiseHeldOnce, OnePlace
    <3>10. Range(pending') \cap Range(remaining') = {} /\ Queued' \cap Taken' = {}
      BY <2>3, <2>7, <3>4, <3>5 DEF PromiseHeldOnce, OnePlace
    <3>11. OnePlace'
      BY <2>1, <2>2, <2>4, <2>5, <3>4, <3>5, <3>9, <3>10 DEF PromiseHeldOnce, OnePlace
    <3> QED
      BY <3>6, <3>7, <3>11 DEF PromiseHeldOnce
  <2>8. CASE KeepFront(r) /\ UNCHANGED held
    <3>1. Undispatched(Dispatcher)' = Undispatched(Dispatcher)
      BY <2>1, <2>8 DEF Undispatched
    <3> HIDE DEF r
    <3>2. Range(remaining') = Range(remaining) \cup {r} /\ IsInjective(remaining')
      BY <2>2, <2>4, <2>8, AppendToQueue DEF KeepFront, PromiseHeldOnce, NoDuplicates
    <3>3. Taken' = Taken /\ Queued' = Queued
      BY <2>3, <2>6, <3>1, <3>2 DEF Taken, Queued
    <3>4. HeldSomewhere'
      BY <2>1, <2>5, <3>3 DEF PromiseHeldOnce, HeldSomewhere
    <3>5. NoDuplicates'
      BY <2>1, <2>3, <2>6, <3>1, <3>2 DEF PromiseHeldOnce, NoDuplicates
    <3>6. OnePlace'
      BY <2>1, <2>3, <2>5, <2>6, <3>1, <3>2, <3>3 DEF PromiseHeldOnce, OnePlace
    <3> QED
      BY <3>4, <3>5, <3>6 DEF PromiseHeldOnce
  <2> QED
    BY <1>16, <2>7, <2>8 DEF DrainFront
<1>17. ASSUME DrainEnd PROVE PromiseHeldOnce'
  <2>1. /\ pending = <<>> /\ pending' = remaining /\ remaining' = <<>>
        /\ UNCHANGED <<cont, promise>>
        /\ \A w \in Workers : Undispatched(w)' = Undispatched(w)
        /\ \A d \in Clients : Submitting(d)' = Submitting(d)
    BY <1>0, <1>17 DEF DrainEnd, Move, At, Undispatched, Submitting, promises, callers
  <2>2. /\ Queued' = Queued /\ Taken' = Taken /\ \A q : InSubmit(q)' <=> InSubmit(q)
        /\ Range(remaining') = {}
    BY <2>1, EmptyQueue DEF Queued, Taken, InSubmit
  <2>3. HeldSomewhere'
    BY <2>1, <2>2 DEF PromiseHeldOnce, HeldSomewhere
  <2>4. NoDuplicates'
    BY <2>1, EmptyQueue DEF PromiseHeldOnce, NoDuplicates
  <2>5. OnePlace'
    BY <2>1, <2>2 DEF PromiseHeldOnce, OnePlace
  <2> QED
    BY <2>3, <2>4, <2>5 DEF PromiseHeldOnce
<1>18. ASSUME LoopDispatch PROVE PromiseHeldOnce'
  BY <1>18, DispatchHeld DEF LoopDispatch
<1>19. ASSUME LoopCount PROVE PromiseHeldOnce'
  <2>1. SameView
    BY <1>0, <1>19 DEF LoopCount, CountBatch, Move, At, SameView, Undispatched, Submitting, queues, promises, callers
  <2> QED
    BY <2>1, ViewKept
<1>20. ASSUME DispatchEnd PROVE PromiseHeldOnce'
  <2>1. SameView
    BY <1>0, <1>20 DEF DispatchEnd, Move, At, SameView, Undispatched, Submitting, queues, promises, callers
  <2> QED
    BY <2>1, ViewKept
<1>21. ASSUME NEW r \in Requests, RunThen(r) PROVE PromiseHeldOnce'
  <2>1. /\ UNCHANGED <<pending, remaining>>
        /\ \A w \in Workers : Undispatched(w)' = Undispatched(w)
        /\ \A d \in Clients : Submitting(d)' = Submitting(d)
        /\ cont[r] # "idle" /\ cont' = [cont EXCEPT ![r] = "idle"]
        /\ \E result \in {"value", "error"} : promise' = [promise EXCEPT ![r] = result]
    BY <1>21 DEF RunThen, Undispatched, Submitting, queues, callers
  <2>2. Queued' = Queued /\ Taken' = Taken /\ \A q : InSubmit(q)' <=> InSubmit(q)
    BY <2>1 DEF Queued, Taken, InSubmit
  <2>3. r \notin Queued \cup Taken /\ ~InSubmit(r)
    BY <2>1 DEF PromiseHeldOnce, OnePlace
  <2>4. HeldSomewhere'
    BY <1>0, <2>1, <2>2, <2>3 DEF PromiseHeldOnce, HeldSomewhere
  <2>5. NoDuplicates'
    BY <2>1 DEF PromiseHeldOnce, NoDuplicates
  <2>6. OnePlace'
    BY <1>0, <2>1, <2>2 DEF PromiseHeldOnce, OnePlace
  <2> QED
    BY <2>4, <2>5, <2>6 DEF PromiseHeldOnce
<1>22. ASSUME NEW f \in Flushers, FlushCall(f) PROVE PromiseHeldOnce'
  <2>1. SameView
    BY <1>0, <1>22 DEF FlushCall, Move, At, SameView, Undispatched, Submitting, queues, promises, callers
  <2> QED
    BY <2>1, ViewKept
<1>23. ASSUME NEW w \in Workers, FlushLock(w) PROVE PromiseHeldOnce'
  <2>1. SameView
    BY <1>0, <1>23 DEF FlushLock, Move, At, SameView, Undispatched, Submitting, queues, promises, callers
  <2> QED
    BY <2>1, ViewKept
<1>24. ASSUME NEW w \in Workers, FlushTake(w) PROVE PromiseHeldOnce'
  <2>1. /\ pending' = <<>> /\ UNCHANGED <<remaining, cont, promise>>
        /\ \A v \in Workers \ {w} : Undispatched(v)' = Undispatched(v)
        /\ Undispatched(w)' = pending
        /\ Undispatched(w) = held[w] /\ pc[w] = "flushtake"
        /\ \A d \in Clients : Submitting(d)' = Submitting(d)
    BY <1>0, <1>24 DEF FlushTake, Move, At, Undispatched, Submitting, promises, callers
  <2>2. Range(Undispatched(w)) = {} /\ Range(pending') = {}
    BY <2>1, EmptyQueue DEF HandsEmpty
  <2>3. /\ Taken' = Taken \cup Range(pending) /\ Queued' = Range(remaining)
        /\ \A q : InSubmit(q)' <=> InSubmit(q)
    BY <2>1, <2>2 DEF Taken, Queued, InSubmit
  <2>4. HeldSomewhere'
    BY <2>1, <2>3 DEF PromiseHeldOnce, HeldSomewhere, Queued
  <2>5. NoDuplicates'
    BY <2>1, EmptyQueue DEF PromiseHeldOnce, NoDuplicates
  <2>6. \A v \in Workers : Range(Undispatched(v)) \subseteq Taken
    BY DEF Taken
  <2>7. \A u, v \in Workers :
           u # v => Range(Undispatched(u)') \cap Range(Undispatched(v)') = {}
    BY <2>1, <2>6 DEF PromiseHeldOnce, OnePlace, Queued
  <2>8. OnePlace'
    BY <2>1, <2>2, <2>3, <2>7 DEF PromiseHeldOnce, OnePlace, Queued
  <2> QED
    BY <2>4, <2>5, <2>8 DEF PromiseHeldOnce
<1>25. ASSUME NEW w \in Workers, FlushDispatch(w) PROVE PromiseHeldOnce'
  BY <1>25, DispatchHeld DEF FlushDispatch
<1>26. ASSUME NEW w \in Workers, FlushCount(w) PROVE PromiseHeldOnce'
  <2>1. SameView
    BY <1>0, <1>26 DEF FlushCount, CountBatch, Move, At, SameView, Undispatched, Submitting, queues, promises, callers
  <2> QED
    BY <2>1, ViewKept
<1>27. ASSUME NEW w \in Workers, FlushEnd(w) PROVE PromiseHeldOnce'
  <2>1. SameView
    BY <1>0, <1>27 DEF FlushEnd, Move, At, SameView, Undispatched, Submitting, queues, promises, callers
  <2> QED
    BY <2>1, ViewKept
<1>28. ASSUME StopRunning PROVE PromiseHeldOnce'
  <2>1. SameView
    BY <1>0, <1>28 DEF StopRunning, Move, At, SameView, Undispatched, Submitting, queues, promises, callers
  <2> QED
    BY <2>1, ViewKept
<1>29. ASSUME StopNotify PROVE PromiseHeldOnce'
  <2>1. SameView
    BY <1>0, <1>29 DEF StopNotify, Move, At, SameView, Undispatched, Submitting, queues, promises, callers
  <2> QED
    BY <2>1, ViewKept
<1>30. ASSUME StopJoin PROVE PromiseHeldOnce'
  <2>1. SameView
    BY <1>0, <1>30 DEF StopJoin, Move, At, SameView, Undispatched, Submitting, queues, promises, callers
  <2> QED
    BY <2>1, ViewKept
<1>31. ASSUME Destroy PROVE PromiseHeldOnce'
  <2>1. /\ pending' = <<>> /\ UNCHANGED <<remaining, cont>>
        /\ \A w \in Workers : Undispatched(w)' = Undispatched(w)
        /\ \A d \in Clients : Submitting(d)' = Submitting(d)
        /\ promise' = [q \in Requests |->
                         IF q \in Range(pending) THEN "broken" ELSE promise[q]]
    BY <1>0, <1>31 DEF Destroy, Move, At, Undispatched, Submitting, callers
  <2>2. /\ Range(pending') = {} /\ Queued' = Range(remaining) /\ Taken' = Taken
        /\ \A q : InSubmit(q)' <=> InSubmit(q)
    BY <2>1, EmptyQueue DEF Queued, Taken, InSubmit
  <2>3. ASSUME NEW q \in Range(pending), q \in Requests
        PROVE  ~InSubmit(q) /\ q \notin Range(remaining) \cup Taken /\ cont[q] = "idle"
    BY <2>3 DEF PromiseHeldOnce, OnePlace, Queued
  <2>4. HeldSomewhere'
    BY <2>1, <2>2, <2>3 DEF PromiseHeldOnce, HeldSomewhere, Queued
  <2>5. NoDuplicates'
    BY <2>1, EmptyQueue DEF PromiseHeldOnce, NoDuplicates
  <2>6. OnePlace'
    BY <2>1, <2>2 DEF PromiseHeldOnce, OnePlace, Queued
  <2> QED
    BY <2>4, <2>5, <2>6 DEF PromiseHeldOnce
<1>32. CASE UNCHANGED vars
  <2>1. SameView
    BY <1>32 DEF vars, SameView, Undispatched, Submitting, queues, promises, callers
  <2> QED
    BY <2>1, ViewKept
<1> QED
  BY <1>1, <1>2, <1>3, <1>4, <1>5, <1>6, <1>7, <1>8, <1>9, <1>10, <1>11, <1>12, <1>13, <1>14, <1>15, <1>16, <1>17, <1>18, <1>19, <1>20, <1>21, <1>22, <1>23, <1>24, <1>25, <1>26, <1>27, <1>28, <1>29, <1>30, <1>31, <1>32 DEF Next, Submit, Loop, Flush, Stop

LEMMA InitHeld == Init => HandsEmpty /\ PromiseHeldOnce
<1> SUFFICES ASSUME Init PROVE HandsEmpty /\ PromiseHeldOnce
  OBVIOUS
<1>1. /\ pending = <<>> /\ remaining = <<>>
      /\ \A w \in Workers : Undispatched(w) = <<>> /\ held[w] = <<>>
      /\ \A c \in Clients : Submitting(c) = NoRequest
      /\ \A r \in Requests : promise[r] = "none" /\ cont[r] = "idle"
  BY Kinds DEF Init, Undispatched, Submitting
<1>2. Queued = {} /\ Taken = {} /\ \A r \in Requests : ~InSubmit(r)
  BY <1>1, EmptyQueue, SizeAssumption DEF Queued, Taken, InSubmit
<1> QED
  BY <1>1, <1>2, EmptyQueue
  DEF HandsEmpty, PromiseHeldOnce, HeldSomewhere, NoDuplicates, OnePlace

LEMMA AlwaysHeld == Spec => []HeldInv
<1>1. Init => HeldInv
  BY InitTyped, InitHeld DEF HeldInv
<1>2. HeldInv /\ [Next]_vars => HeldInv'
  BY NextTyped, NextHandsEmpty, NextHeldOnce DEF HeldInv
<1> QED
  BY <1>1, <1>2, PTL DEF Spec

(* The promise of every submitted request is in exactly one place until it   *)
(* is fulfilled or broken, and in none afterwards: no interleaving of         *)
(* submit(), the loop, flush() and the continuations loses or doubles one.    *)
THEOREM PromisesAreHeldOnce == Spec => []PromiseHeldOnce
BY AlwaysHeld, PTL DEF HeldInv

(* A result that has been stored in a promise is never changed: set_value()  *)
(* and set_exception() are never called on a promise that has one.           *)
THEOREM ResultsAreFinal == Spec => SettledOnce
<1> DEFINE Final == \A r \in Requests : promise[r] \in Settled =>
                       promise'[r] = promise[r] /\ embeddings'[r] = embeddings[r]
<1>1. HeldInv /\ [Next]_vars => [Final]_vars
  <2> SUFFICES ASSUME HeldInv, Next PROVE Final
    BY DEF vars
  <2>0. /\ DOMAIN promise = Requests /\ DOMAIN embeddings = Requests
        /\ promise \in [Requests -> {"none", "unset"} \cup Settled]
    BY DEF HeldInv, TypeOK, PromisesOK
  <2>1. CASE UNCHANGED <<promise, embeddings>>
    BY <2>1
  <2>2. ASSUME NEW c \in Clients, NEW r \in Requests, SubmitEmpty(c, r) \/ SubmitBegin(c, r)
        PROVE  Final
    BY <2>0, <2>2 DEF SubmitEmpty, SubmitBegin, Settled
  <2>3. ASSUME NEW r \in Requests, RunThen(r) PROVE Final
    <3>1. promise[r] = "unset"
      BY <2>3 DEF RunThen, HeldInv, PromiseHeldOnce, HeldSomewhere
    <3> QED
      BY <2>0, <2>3, <3>1 DEF RunThen, Settled
  <2>4. ASSUME Destroy PROVE Final
    <3>1. \A r \in Requests : r \in Range(pending) => promise[r] = "unset"
      BY DEF HeldInv, PromiseHeldOnce, HeldSomewhere, Queued
    <3> QED
      BY <2>0, <2>4, <3>1 DEF Destroy, Settled
  <2>5. ASSUME NEW c \in Clients, Submit(c) \/ Collect(c)
        PROVE  UNCHANGED <<promise, embeddings>>
    BY <2>5 DEF Submit, SubmitLock, SubmitPush, TakeFuture, SubmitThrows, SubmitFaults,
       Collect, promises
  <2>6. ASSUME Loop PROVE UNCHANGED <<promise, embeddings>>
    BY <2>6 DEF Loop, LoopTest, WaitBegin, Park, WakeNotified, WakeTimeout, StopSeen,
       SampleNow, DrainFront, DrainEnd, LoopDispatch, LoopCount, DispatchBatch,
       CountBatch, DispatchEnd, promises
  <2>7. ASSUME NEW w \in Workers, Flush(w) PROVE UNCHANGED <<promise, embeddings>>
    BY <2>7 DEF Flush, FlushLock, FlushTake, FlushDispatch, FlushCount, FlushEnd,
       DispatchBatch, CountBatch, promises
  <2>8. ASSUME (\E f \in Flushers : FlushCall(f)) \/ StopRunning \/ Stop
        PROVE  UNCHANGED <<promise, embeddings>>
    BY <2>8 DEF FlushCall, StopRunning, Stop, StopNotify, StopJoin, promises
  <2> QED
    BY <2>1, <2>2, <2>3, <2>4, <2>5, <2>6, <2>7, <2>8 DEF Next
<1> QED
  BY <1>1, AlwaysHeld, PTL DEF Spec, SettledOnce

-------------------------------------------------------------------------------
(* A future that a caller waits for has been retrieved, so no other caller    *)
(* can be given it: get_future() throws instead.                              *)
WaitedRetrieved ==
    \A c \in Clients : pc[c] = "wait" => fut[c] \in retrieved

(* However the unlocked read of the queue in submit() goes, two callers never *)
(* wait for the same future.                                                  *)
THEOREM FuturesAreNotShared == Spec => []NoSharedFuture
<1> DEFINE Inv == TypeOK /\ WaitedRetrieved /\ NoSharedFuture
<1>1. Init => Inv
  BY Kinds, InitTyped DEF Init, WaitedRetrieved, NoSharedFuture
<1>2. Inv /\ [Next]_vars => Inv'
  <2> SUFFICES ASSUME Inv, [Next]_vars PROVE (WaitedRetrieved /\ NoSharedFuture)'
    BY NextTyped
  <2> USE Kinds DEF WaitedRetrieved, NoSharedFuture
  <2>0. DOMAIN pc = Threads /\ DOMAIN fut = Clients
    BY DEF TypeOK, PcOK, CallersOK
  <2>1. CASE /\ \A c \in Clients : pc'[c] = "wait" => pc[c] = "wait" /\ fut'[c] = fut[c]
             /\ retrieved \subseteq retrieved'
    BY <2>1
  <2>2. ASSUME NEW c \in Clients, TakeFuture(c)
        PROVE  (WaitedRetrieved /\ NoSharedFuture)'
    <3>1. /\ fut' = [fut EXCEPT ![c] = pending[Len(pending)]]
          /\ pending[Len(pending)] \notin retrieved
          /\ retrieved' = retrieved \cup {pending[Len(pending)]}
          /\ \A d \in Clients \ {c} : pc'[d] = pc[d]
      BY <2>0, <2>2 DEF TakeFuture, Move, At
    <3> QED
      BY <2>0, <3>1
  <2>3. ASSUME NEW c \in Clients, NEW r \in Requests, SubmitEmpty(c, r) \/ SubmitBegin(c, r)
        PROVE  (WaitedRetrieved /\ NoSharedFuture)'
    BY <2>0, <2>1, <2>3 DEF SubmitEmpty, SubmitBegin, Move, At, callers
  <2>4. ASSUME NEW c \in Clients, \/ SubmitLock(c) \/ SubmitPush(c) \/ SubmitThrows(c)
                                  \/ SubmitFaults(c) \/ Collect(c)
        PROVE  (WaitedRetrieved /\ NoSharedFuture)'
    BY <2>0, <2>1, <2>4 DEF SubmitLock, SubmitPush, SubmitThrows, SubmitFaults, Collect,
       Move, At, callers, promises
  <2>5. ASSUME Loop PROVE (WaitedRetrieved /\ NoSharedFuture)'
    BY <2>0, <2>1, <2>5 DEF Loop, LoopTest, WaitBegin, Park, WakeNotified, WakeTimeout,
       StopSeen, SampleNow, DrainFront, DrainEnd, LoopDispatch, LoopCount,
       DispatchBatch, CountBatch, DispatchEnd, Move, At, promises, callers
  <2>6. ASSUME NEW w \in Workers, Flush(w) PROVE (WaitedRetrieved /\ NoSharedFuture)'
    BY <2>0, <2>1, <2>6 DEF Flush, FlushLock, FlushTake, FlushDispatch, FlushCount,
       FlushEnd, DispatchBatch, CountBatch, Move, At, promises, callers
  <2>7. ASSUME NEW f \in Flushers, FlushCall(f)
        PROVE  (WaitedRetrieved /\ NoSharedFuture)'
    BY <2>0, <2>1, <2>7 DEF FlushCall, Move, At, promises, callers
  <2>8. ASSUME NEW r \in Requests, RunThen(r)
        PROVE  (WaitedRetrieved /\ NoSharedFuture)'
    BY <2>1, <2>8 DEF RunThen, callers
  <2>9. ASSUME StopRunning \/ Stop \/ Destroy PROVE (WaitedRetrieved /\ NoSharedFuture)'
    BY <2>0, <2>1, <2>9 DEF StopRunning, Stop, StopNotify, StopJoin, Destroy, Move, At,
       promises, callers
  <2>10. CASE UNCHANGED vars
    BY <2>1, <2>10 DEF vars, promises, callers
  <2> QED
    BY <2>2, <2>3, <2>4, <2>5, <2>6, <2>7, <2>8, <2>9, <2>10 DEF Next, Submit
<1> QED
  BY <1>1, <1>2, PTL DEF Spec

-------------------------------------------------------------------------------
(* What the callers of submit() are promised: the batcher implements         *)
(* EncodingService, and serves its queue in order.                           *)

(* The refinement.  shutdown() goes on only when the dispatcher has ended,   *)
(* so the destructor finds late requests alone in the queue.                 *)
JoinedDone == pc[Stopper] \in {"stopped", "destroyed"} => pc[Dispatcher] = "done"

LEMMA NextJoined == TypeOK /\ JoinedDone /\ [Next]_vars => JoinedDone'
<1> SUFFICES ASSUME TypeOK, JoinedDone, [Next]_vars PROVE JoinedDone'
  OBVIOUS
<1> USE Kinds DEF JoinedDone
<1>0. DOMAIN pc = Threads
  BY DEF TypeOK, PcOK
<1>1. ASSUME NEW c \in Clients, Submit(c) \/ Collect(c) \/ \E r \in Requests : SubmitEmpty(c, r) \/ SubmitBegin(c, r)
      PROVE  JoinedDone'
  BY <1>0, <1>1 DEF Submit, SubmitLock, SubmitPush, TakeFuture, SubmitThrows, SubmitFaults,
     Collect, SubmitEmpty, SubmitBegin, Move, At
<1>2. ASSUME Loop PROVE JoinedDone'
  BY <1>0, <1>2 DEF Loop, LoopTest, WaitBegin, Park, WakeNotified, WakeTimeout, StopSeen,
     SampleNow, DrainFront, DrainEnd, LoopDispatch, LoopCount, DispatchBatch, CountBatch,
     DispatchEnd, Move, At
<1>3. ASSUME NEW w \in Workers, Flush(w) PROVE JoinedDone'
  BY <1>0, <1>3 DEF Flush, FlushLock, FlushTake, FlushDispatch, FlushCount, FlushEnd,
     DispatchBatch, CountBatch, Move, At
<1>4. ASSUME NEW f \in Flushers, FlushCall(f) PROVE JoinedDone'
  BY <1>0, <1>4 DEF FlushCall, Move, At
<1>5. ASSUME StopRunning \/ Stop \/ Destroy PROVE JoinedDone'
  BY <1>0, <1>5 DEF StopRunning, Stop, StopNotify, StopJoin, Destroy, Move, At
<1>6. ASSUME NEW r \in Requests, RunThen(r) PROVE JoinedDone'
  BY <1>6 DEF RunThen
<1>7. CASE UNCHANGED vars
  BY <1>7 DEF vars
<1> QED
  BY <1>1, <1>2, <1>3, <1>4, <1>5, <1>6, <1>7 DEF Next

ServiceInv == HeldInv /\ JoinedDone

LEMMA AlwaysJoined == Spec => []ServiceInv
<1>1. Init => JoinedDone
  BY Kinds DEF Init, JoinedDone
<1>2. HeldInv => TypeOK
  BY DEF HeldInv
<1> QED
  BY <1>1, <1>2, NextJoined, AlwaysHeld, PTL DEF Spec, ServiceInv

-------------------------------------------------------------------------------
StatusOf(r) ==
    IF InSubmit(r) THEN "none"
    ELSE IF promise[r] # "unset" THEN promise[r]
    ELSE IF Closed /\ r \in Range(pending) THEN "late" ELSE "accepted"

LEMMA StatusMap == Status = [r \in Requests |-> StatusOf(r)]
BY DEF Status, StatusOf

LEMMA StatusMapNext == Status' = [r \in Requests |-> StatusOf(r)']
BY DEF Status, StatusOf

LEMMA StatusSame ==
    ASSUME \A r \in Requests : StatusOf(r)' = StatusOf(r)
    PROVE  Status' = Status
BY StatusMap, StatusMapNext

(* The service does not see a step that leaves the promises, and what the    *)
(* status of a request depends on, as they are.                              *)
LEMMA Unseen ==
    ASSUME UNCHANGED <<promise, crashed>>, Closed' = Closed,
           Closed => pending' = pending,
           \A c \in Clients : Submitting(c)' = Submitting(c)
    PROVE  UNCHANGED Service!svars
<1>1. \A r \in Requests : InSubmit(r)' = InSubmit(r)
  BY DEF InSubmit
<1>2. \A r \in Requests : StatusOf(r)' = StatusOf(r)
  BY <1>1 DEF StatusOf
<1> QED
  BY <1>2, StatusSame DEF Service!svars

(* One request changes its status. *)
LEMMA Resolves ==
    ASSUME NEW r \in Requests, NEW from, NEW to, ~crashed,
           StatusOf(r) = from, StatusOf(r)' = to,
           \A q \in Requests \ {r} : StatusOf(q)' = StatusOf(q),
           Closed' = Closed, crashed' = crashed
    PROVE  Service!Resolve(r, from, to)
<1>1. Status[r] = from
  BY StatusMap
<1>2. Status' = [Status EXCEPT ![r] = to]
  BY StatusMap, StatusMapNext
<1> QED
  BY <1>1, <1>2 DEF Service!Resolve

(* The steps of submit(). *)
LEMMA EmptyAnswered ==
    ASSUME HeldInv, NEW c \in Clients, NEW r \in Requests, SubmitEmpty(c, r)
    PROVE  Service!Answer(r)
<1> USE Kinds DEF HeldInv
<1>1. /\ promise[r] = "none" /\ promise' = [promise EXCEPT ![r] = "value"]
      /\ DOMAIN promise = Requests /\ pending' = pending /\ ~crashed /\ crashed' = crashed
      /\ Closed' = Closed /\ \A d \in Clients : Submitting(d)' = Submitting(d)
  BY DEF SubmitEmpty, queues, callers, Closed, Submitting, TypeOK, PromisesOK, At
<1>2. \A q \in Requests : InSubmit(q)' = InSubmit(q)
  BY <1>1 DEF InSubmit
<1>3. ~InSubmit(r)
  BY <1>1 DEF PromiseHeldOnce, HeldSomewhere
<1>4. StatusOf(r) = "none" /\ StatusOf(r)' = "value"
  BY <1>1, <1>2, <1>3 DEF StatusOf
<1>5. \A q \in Requests \ {r} : StatusOf(q)' = StatusOf(q)
  BY <1>1, <1>2 DEF StatusOf
<1> QED
  BY <1>1, <1>4, <1>5, Resolves DEF Service!Answer

LEMMA BeginUnseen ==
    ASSUME HeldInv, NEW c \in Clients, NEW r \in Requests, SubmitBegin(c, r)
    PROVE  UNCHANGED Service!svars
<1> USE Kinds DEF HeldInv
<1>0. DOMAIN pc = Threads /\ DOMAIN cur = Clients /\ DOMAIN promise = Requests
  BY DEF TypeOK, PcOK, CallersOK, PromisesOK
<1>1. /\ promise[r] = "none" /\ promise' = [promise EXCEPT ![r] = "unset"]
      /\ pending' = pending /\ crashed' = crashed /\ Closed' = Closed
  BY <1>0 DEF SubmitBegin, queues, Closed, Move, At
<1>2. /\ Submitting(c) = NoRequest /\ Submitting(c)' = r
      /\ \A d \in Clients \ {c} : Submitting(d)' = Submitting(d)
  BY <1>0 DEF SubmitBegin, Move, At, Submitting
<1>3. \A q \in Requests : InSubmit(q)' <=> InSubmit(q) \/ q = r
  BY <1>2, SizeAssumption DEF InSubmit
<1>4. ~InSubmit(r)
  BY <1>1 DEF PromiseHeldOnce, HeldSomewhere
<1>5. \A q \in Requests : StatusOf(q)' = StatusOf(q)
  BY <1>0, <1>1, <1>3, <1>4 DEF StatusOf
<1> QED
  BY <1>1, <1>5, StatusSame DEF Service!svars

LEMMA PushAccepted ==
    ASSUME HeldInv, NEW c \in Clients, SubmitPush(c)
    PROVE  cur[c] \in Requests /\ Service!Accept(cur[c])
<1> USE Kinds DEF HeldInv
<1>a. cur[c] \in Requests
  BY DEF TypeOK, PcOK, CallersOK, SubmitPush, Move, At
<1>b. PICK r \in Requests : r = cur[c]
  BY <1>a
<1>0. /\ DOMAIN pc = Threads /\ pc[c] = "push" /\ ~crashed
      /\ pending \in Seq(Requests)
  BY DEF TypeOK, PcOK, QueuesOK, SubmitPush, Move, At
<1>1. /\ promise' = promise /\ pending' = Append(pending, r) /\ crashed' = crashed
      /\ Closed' = Closed
      /\ Submitting(c) = r /\ Submitting(c)' = NoRequest
      /\ \A d \in Clients \ {c} : Submitting(d)' = Submitting(d)
  BY <1>0, <1>b DEF SubmitPush, promises, callers, Closed, Move, At, Submitting
<1>2. Range(pending') = Range(pending) \cup {r}
  BY <1>0, <1>1, AppendToQueue
<1>3. InSubmit(r) /\ promise[r] = "unset"
  BY <1>0, <1>1 DEF InSubmit, PromiseHeldOnce, HeldSomewhere
<1>4. \A d \in Clients \ {c} : Submitting(d) # r
  BY <1>0, <1>1, SizeAssumption DEF PromiseHeldOnce, NoDuplicates
<1>5. \A q \in Requests : InSubmit(q)' <=> InSubmit(q) /\ q # r
  BY <1>1, <1>4, SizeAssumption DEF InSubmit
<1>6. StatusOf(r) = "none" /\ StatusOf(r)' = (IF Closed THEN "late" ELSE "accepted")
  BY <1>0, <1>1, <1>2, <1>3, <1>5 DEF StatusOf
<1>7. \A q \in Requests \ {r} : StatusOf(q)' = StatusOf(q)
  BY <1>1, <1>2, <1>5 DEF StatusOf
<1> QED
  BY <1>0, <1>b, <1>1, <1>6, <1>7, Resolves DEF Service!Accept

(* A continuation settles a request that is accepted. *)
LEMMA ThenSettles ==
    ASSUME HeldInv, NEW r \in Requests, RunThen(r)
    PROVE  Service!Settle(r)
<1> USE Kinds DEF HeldInv
<1>1. /\ cont[r] # "idle" /\ ~crashed /\ crashed' = crashed /\ pending' = pending
      /\ Closed' = Closed /\ \A d \in Clients : Submitting(d)' = Submitting(d)
      /\ DOMAIN promise = Requests
  BY DEF RunThen, queues, callers, Closed, Submitting, TypeOK, PromisesOK
<1>2. PICK answer \in {"value", "error"} : promise' = [promise EXCEPT ![r] = answer]
  BY DEF RunThen
<1>3. promise[r] = "unset" /\ ~InSubmit(r) /\ r \notin Range(pending)
  BY <1>1 DEF PromiseHeldOnce, HeldSomewhere, OnePlace, Queued
<1>4. \A q \in Requests : InSubmit(q)' = InSubmit(q)
  BY <1>1 DEF InSubmit
<1>5. StatusOf(r) = "accepted" /\ StatusOf(r)' = answer
  BY <1>1, <1>2, <1>3, <1>4 DEF StatusOf
<1>6. \A q \in Requests \ {r} : StatusOf(q)' = StatusOf(q)
  BY <1>1, <1>2, <1>4 DEF StatusOf
<1>7. Service!Resolve(r, "accepted", answer)
  BY <1>1, <1>5, <1>6, Resolves
<1> QED
  BY <1>7 DEF Service!Settle

(* flush(): the dispatcher's closes the service, a later one adopts what is   *)
(* late, an earlier one is not seen.                                         *)
LEMMA TakeCloses ==
    ASSUME HeldInv, NEW w \in Workers, FlushTake(w)
    PROVE  Service!Close \/ Service!Adopt \/ UNCHANGED Service!svars
<1> USE Kinds DEF HeldInv
<1>1. /\ pc[w] = "flushtake" /\ pending' = <<>> /\ ~crashed
      /\ pc' = [pc EXCEPT ![w] = "flushdispatch"] /\ DOMAIN pc = Threads
      /\ promise' = promise /\ crashed' = crashed
      /\ \A d \in Clients : Submitting(d)' = Submitting(d)
  BY DEF FlushTake, promises, callers, Move, At, Submitting, TypeOK, PcOK
<1>2. \A q \in Requests : InSubmit(q)' = InSubmit(q)
  BY <1>1 DEF InSubmit
<1>3. Range(pending') = {}
  BY <1>1, EmptyQueue
<1>4. CASE w = Dispatcher
  <2>1. ~Closed /\ Closed'
    BY <1>1, <1>4 DEF Closed
  <2>2. \A q \in Requests : StatusOf(q)' = StatusOf(q)
    BY <1>1, <1>2, <1>3, <2>1 DEF StatusOf
  <2> QED
    BY <1>1, <2>1, <2>2, StatusSame DEF Service!Close
<1>5. CASE w # Dispatcher /\ Closed
  <2>1. Closed'
    BY <1>1, <1>5 DEF Closed
  <2>2. \A q \in Requests :
           StatusOf(q)' = IF StatusOf(q) = "late" THEN "accepted" ELSE StatusOf(q)
    <3>1. \A q \in Requests : promise[q] # "late"
      BY DEF TypeOK, PromisesOK, Settled
    <3> QED
      BY <1>1, <1>2, <1>3, <1>5, <3>1 DEF StatusOf
  <2>3. Status' = [q \in Requests |-> IF Status[q] = "late" THEN "accepted" ELSE Status[q]]
    BY <2>2, StatusMap, StatusMapNext
  <2> QED
    BY <1>1, <1>5, <2>1, <2>3 DEF Service!Adopt
<1>6. CASE w # Dispatcher /\ ~Closed
  <2>1. Closed' = Closed
    BY <1>1, <1>6 DEF Closed
  <2> QED
    BY <1>1, <1>6, <2>1, Unseen
<1> QED
  BY <1>4, <1>5, <1>6

(* The destructor breaks what is late. *)
LEMMA DestroyBreaks ==
    ASSUME ServiceInv, Destroy
    PROVE  Service!Break
<1> USE Kinds DEF ServiceInv, HeldInv
<1>1. /\ pc[Stopper] = "stopped" /\ ~crashed /\ crashed' = crashed /\ pending' = <<>>
      /\ \A c \in Clients : pc[c] \in {"idle", "wait"} /\ pc'[c] = pc[c]
      /\ promise' = [r \in Requests |->
                       IF r \in Range(pending) THEN "broken" ELSE promise[r]]
      /\ Closed' = Closed
  BY DEF Destroy, Move, At, TypeOK, PcOK, Closed
<1>2. Closed
  BY <1>1 DEF JoinedDone, Closed
<1>3. \A c \in Clients : Submitting(c) = NoRequest /\ Submitting(c)' = NoRequest
  BY <1>1 DEF Submitting
<1>4. \A q \in Requests : ~InSubmit(q) /\ ~InSubmit(q)'
  BY <1>3, SizeAssumption DEF InSubmit
<1>5. \A q \in Requests : q \in Range(pending) => promise[q] = "unset"
  BY DEF PromiseHeldOnce, HeldSomewhere, Queued
<1>6. \A q \in Requests : promise[q] # "late"
  BY DEF TypeOK, PromisesOK, Settled
<1>7. Range(pending') = {}
  BY <1>1, EmptyQueue
<1>8. \A q \in Requests :
         StatusOf(q)' = IF StatusOf(q) = "late" THEN "broken" ELSE StatusOf(q)
  BY <1>1, <1>2, <1>4, <1>5, <1>6, <1>7 DEF StatusOf
<1>9. Status' = [q \in Requests |-> IF Status[q] = "late" THEN "broken" ELSE Status[q]]
  BY <1>8, StatusMap, StatusMapNext
<1> QED
  BY <1>1, <1>2, <1>9 DEF Service!Break

-------------------------------------------------------------------------------
(* Every step of the batcher is a step of the service, or not seen by it.    *)
LEMMA StepServed == ServiceInv /\ [Next]_vars => [Service!SNext]_(Service!svars)
<1> SUFFICES ASSUME ServiceInv, [Next]_vars
             PROVE  Service!SNext \/ UNCHANGED Service!svars
  OBVIOUS
<1> USE Kinds
<1>0. HeldInv /\ DOMAIN pc = Threads
  BY DEF ServiceInv, HeldInv, TypeOK, PcOK
<1>1. ASSUME NEW c \in Clients, NEW r \in Requests, SubmitEmpty(c, r)
      PROVE  Service!SNext
  BY <1>0, <1>1, EmptyAnswered DEF Service!SNext
<1>2. ASSUME NEW c \in Clients, NEW r \in Requests, SubmitBegin(c, r)
      PROVE  UNCHANGED Service!svars
  BY <1>0, <1>2, BeginUnseen
<1>3. ASSUME NEW c \in Clients, SubmitPush(c) PROVE Service!SNext
  BY <1>0, <1>3, PushAccepted DEF Service!SNext
<1>4. ASSUME NEW c \in Clients, SubmitFaults(c) PROVE Service!SNext
  <2>1. ~crashed /\ crashed' /\ UNCHANGED <<promise, pending, pc, cur>>
    BY <1>4 DEF SubmitFaults, At, promises, queues, callers
  <2>2. Closed' = Closed /\ \A q \in Requests : StatusOf(q)' = StatusOf(q)
    BY <2>1 DEF Closed, StatusOf, InSubmit, Submitting
  <2> QED
    BY <2>1, <2>2, StatusSame DEF Service!SNext, Service!Crash
<1>5. ASSUME NEW c \in Clients,
             SubmitLock(c) \/ TakeFuture(c) \/ SubmitThrows(c) \/ Collect(c)
      PROVE  UNCHANGED Service!svars
  <2>1. UNCHANGED <<promise, crashed, pending>> /\ Closed' = Closed
    BY <1>0, <1>5 DEF SubmitLock, TakeFuture, SubmitThrows, Collect, Move, At, Closed,
       promises, queues
  <2>2. \A d \in Clients : Submitting(d)' = Submitting(d)
    BY <1>0, <1>5 DEF SubmitLock, TakeFuture, SubmitThrows, Collect, LeaveRequest, Move,
       At, Submitting, callers, HeldInv, TypeOK, CallersOK
  <2> QED
    BY <2>1, <2>2, Unseen
<1>6. ASSUME Loop PROVE UNCHANGED Service!svars
  <2>1. UNCHANGED <<promise, crashed>> /\ ~Closed /\ Closed' = Closed
    BY <1>0, <1>6 DEF Loop, LoopTest, WaitBegin, Park, WakeNotified, WakeTimeout, StopSeen,
       SampleNow, DrainFront, DrainEnd, LoopDispatch, LoopCount, DispatchBatch, CountBatch,
       DispatchEnd, Move, At, Closed, promises
  <2>2. \A d \in Clients : Submitting(d)' = Submitting(d)
    BY <1>0, <1>6 DEF Loop, LoopTest, WaitBegin, Park, WakeNotified, WakeTimeout, StopSeen,
       SampleNow, DrainFront, DrainEnd, LoopDispatch, LoopCount, DispatchBatch, CountBatch,
       DispatchEnd, Move, At, Submitting, callers
  <2> QED
    BY <2>1, <2>2, Unseen
<1>7. ASSUME NEW r \in Requests, RunThen(r) PROVE Service!SNext
  BY <1>0, <1>7, ThenSettles DEF Service!SNext
<1>8. ASSUME NEW w \in Workers, FlushTake(w)
      PROVE  Service!SNext \/ UNCHANGED Service!svars
  BY <1>0, <1>8, TakeCloses DEF Service!SNext
<1>9. ASSUME NEW w \in Workers,
             FlushLock(w) \/ FlushDispatch(w) \/ FlushCount(w) \/ FlushEnd(w)
      PROVE  UNCHANGED Service!svars
  <2>1. UNCHANGED <<promise, crashed, pending>> /\ Closed' = Closed
    BY <1>0, <1>9 DEF FlushLock, FlushDispatch, FlushCount, FlushEnd, DispatchBatch,
       CountBatch, Move, At, Closed, promises, queues
  <2>2. \A d \in Clients : Submitting(d)' = Submitting(d)
    BY <1>0, <1>9 DEF FlushLock, FlushDispatch, FlushCount, FlushEnd, DispatchBatch,
       CountBatch, Move, At, Submitting, callers
  <2> QED
    BY <2>1, <2>2, Unseen
<1>10. ASSUME (\E f \in Flushers : FlushCall(f)) \/ StopRunning \/ Stop
       PROVE  UNCHANGED Service!svars
  <2>1. UNCHANGED <<promise, crashed, pending>> /\ Closed' = Closed
    BY <1>0, <1>10 DEF FlushCall, StopRunning, Stop, StopNotify, StopJoin, Move, At,
       Closed, promises, queues
  <2>2. \A d \in Clients : Submitting(d)' = Submitting(d)
    BY <1>0, <1>10 DEF FlushCall, StopRunning, Stop, StopNotify, StopJoin, Move, At,
       Submitting, callers
  <2> QED
    BY <2>1, <2>2, Unseen
<1>11. ASSUME Destroy PROVE Service!SNext
  BY <1>11, DestroyBreaks DEF Service!SNext
<1>12. CASE UNCHANGED vars
  <2>1. UNCHANGED <<promise, crashed, pending, pc, cur>>
    BY <1>12 DEF vars, promises, queues, callers
  <2> QED
    BY <2>1, Unseen DEF Closed, Submitting
<1> QED
  BY <1>1, <1>2, <1>3, <1>4, <1>5, <1>6, <1>7, <1>8, <1>9, <1>10, <1>11, <1>12
  DEF Next, Submit, Flush

LEMMA InitServed == Init => Service!SInit
<1> SUFFICES ASSUME Init PROVE Service!SInit
  OBVIOUS
<1>1. /\ \A r \in Requests : promise[r] = "none" /\ ~Closed /\ crashed = FALSE
  BY Kinds DEF Init, Closed
<1>2. \A r \in Requests : StatusOf(r) = "none"
  BY <1>1 DEF StatusOf
<1>3. Closed = FALSE
  BY Kinds DEF Init, Closed
<1>4. crashed = FALSE
  BY DEF Init
<1> QED
  BY <1>2, <1>3, <1>4, StatusMap DEF Service!SInit

(* The batcher implements the service that its callers see, from submit() to *)
(* the destructor, whatever clients, dispatcher and flush() do at once.       *)
THEOREM ImplementsService == Spec => ServiceSafe
BY InitServed, StepServed, AlwaysJoined, PTL DEF Spec, ServiceSafe, Service!SSafe

-------------------------------------------------------------------------------
(* The order of the queue.                                                   *)
Ordered(at, s) == \A i, j \in DOMAIN s : i < j => at[s[i]] < at[s[j]]
Precede(at, s, t) == \A q \in Range(s), r \in Range(t) : at[q] < at[r]

LEMMA OrderedAppend ==
    ASSUME NEW at \in [Requests -> Nat], NEW s \in Seq(Requests), NEW e \in Requests,
           Ordered(at, s), \A q \in Range(s) : at[q] < at[e]
    PROVE  Ordered(at, Append(s, e))
<1> DEFINE t == Append(s, e)
<1>1. /\ t[Len(s) + 1] = e /\ \A i \in 1..Len(s) : t[i] = s[i]
      /\ DOMAIN t = 1..(Len(s) + 1) /\ DOMAIN s = 1..Len(s) /\ Len(s) \in Nat
  BY AppendProperties, LenProperties
<1> HIDE DEF t
<1>2. ASSUME NEW i \in DOMAIN t, NEW j \in DOMAIN t, i < j PROVE at[t[i]] < at[t[j]]
  <2>1. i \in DOMAIN s /\ t[i] = s[i] /\ s[i] \in Range(s)
    BY <1>1, <1>2 DEF Range
  <2>2. CASE j \in DOMAIN s
    BY <1>1, <1>2, <2>1, <2>2 DEF Ordered
  <2>3. CASE j = Len(s) + 1
    BY <1>1, <2>1, <2>3
  <2> QED
    BY <1>1, <2>2, <2>3
<1> QED
  BY <1>2 DEF Ordered, t

LEMMA OrderedTail ==
    ASSUME NEW at \in [Requests -> Nat], NEW s \in Seq(Requests), s # <<>>, Ordered(at, s)
    PROVE  /\ Ordered(at, Tail(s))
           /\ \A q \in Range(Tail(s)) : at[Head(s)] < at[q]
<1> DEFINE t == Tail(s)
<1>1. /\ Head(s) = s[1] /\ \A i \in 1..Len(t) : t[i] = s[i + 1]
      /\ DOMAIN t = 1..Len(t) /\ Len(t) = Len(s) - 1 /\ Len(t) \in Nat
      /\ DOMAIN s = 1..Len(s)
  BY HeadTailProperties, LenProperties, EmptySeq
<1> HIDE DEF t
<1>2. ASSUME NEW i \in DOMAIN t, NEW j \in DOMAIN t, i < j PROVE at[t[i]] < at[t[j]]
  <2>1. /\ i + 1 \in DOMAIN s /\ j + 1 \in DOMAIN s /\ i + 1 < j + 1
        /\ t[i] = s[i + 1] /\ t[j] = s[j + 1]
    BY <1>1, <1>2
  <2> QED
    BY <2>1 DEF Ordered
<1>3. ASSUME NEW i \in DOMAIN t PROVE at[Head(s)] < at[t[i]]
  <2>1. 1 \in DOMAIN s /\ i + 1 \in DOMAIN s /\ 1 < i + 1 /\ t[i] = s[i + 1]
    BY <1>1
  <2> QED
    BY <1>1, <2>1 DEF Ordered
<1> QED
  BY <1>2, <1>3 DEF Ordered, Range, t

LEMMA OrderedEmpty ==
    ASSUME NEW at, NEW s
    PROVE  Ordered(at, <<>>) /\ Precede(at, <<>>, s) /\ Precede(at, s, <<>>)
BY DEF Ordered, Precede, Range

(* A batch that is still within submit() has no place in the order yet.      *)
LEMMA OrderedSame ==
    ASSUME NEW at, NEW at2, NEW s, NEW t,
           \A q \in Range(s) \cup Range(t) : at2[q] = at[q]
    PROVE  /\ Ordered(at, s) => Ordered(at2, s)
           /\ Precede(at, s, t) => Precede(at2, s, t)
BY DEF Ordered, Precede, Range

(* Between two drains the second queue is empty.  During one it holds batches *)
(* that came after the instant the loop compares with, before all the others. *)
QueueOrder ==
    /\ Ordered(enqueued_at, remaining)
    /\ Ordered(enqueued_at, pending)
    /\ Precede(enqueued_at, remaining, pending)
    /\ \A r \in Requests : enqueued_at[r] <= clock
    /\ pc[Dispatcher] = "drain" => since <= now
    /\ \A r \in Range(remaining) : enqueued_at[r] > now

(* A request has its time of entry once it has left submit(), and a promise  *)
(* is broken only by the destructor.                                         *)
Entered ==
    /\ \A r \in Requests : enqueued_at[r] >= 1 => promise[r] # "none" /\ ~InSubmit(r)
    /\ \A r \in Requests : promise[r] = "broken" => pc[Stopper] = "destroyed"

OrderView ==
    /\ UNCHANGED <<pending, remaining, clock, enqueued_at, now>>
    /\ pc'[Dispatcher] = "drain" => pc[Dispatcher] = "drain" /\ since' = since

LEMMA OrderKept == OrderView /\ QueueOrder => QueueOrder'
BY DEF OrderView, QueueOrder

(* submit() appends a request that is in no queue, with the latest time.      *)
LEMMA PushOrdered ==
    ASSUME HeldInv, QueueOrder, NEW c \in Clients, SubmitPush(c)
    PROVE  QueueOrder'
<1> USE Kinds DEF HeldInv
<1>1. /\ enqueued_at \in [Requests -> Nat] /\ clock \in Nat
      /\ pending \in Seq(Requests) /\ remaining \in Seq(Requests)
      /\ pc[c] = "push" /\ pc'[Dispatcher] = pc[Dispatcher]
  BY DEF TypeOK, TimeOK, QueuesOK, SubmitPush, Move, At, PcOK
<1>2. PICK r \in Requests : r = cur[c]
  BY <1>1 DEF TypeOK, CallersOK
<1>3. /\ pending' = Append(pending, r) /\ remaining' = remaining
      /\ clock' = clock + 1 /\ UNCHANGED <<since, now>>
      /\ enqueued_at' = [enqueued_at EXCEPT ![r] = clock + 1]
  BY <1>2 DEF SubmitPush
<1>4. InSubmit(r) /\ r \notin Range(pending) \cup Range(remaining)
  BY <1>1, <1>2 DEF InSubmit, Submitting, PromiseHeldOnce, OnePlace, Queued
<1>5. Range(pending) \subseteq Requests /\ Range(remaining) \subseteq Requests
  BY <1>1, RangeEquality
<1>6. /\ enqueued_at'[r] = clock + 1 /\ enqueued_at' \in [Requests -> Nat]
      /\ \A q \in Requests \ {r} : enqueued_at'[q] = enqueued_at[q]
  BY <1>1, <1>3
<1>7. /\ Ordered(enqueued_at', pending) /\ Ordered(enqueued_at', remaining)
      /\ Precede(enqueued_at', remaining, pending)
  BY <1>4, <1>5, <1>6, OrderedSame DEF QueueOrder
<1>8. \A q \in Requests \ {r} : enqueued_at'[q] < enqueued_at'[r]
  BY <1>1, <1>6 DEF QueueOrder
<1>9. Ordered(enqueued_at', pending')
  <2>1. \A q \in Range(pending) : enqueued_at'[q] < enqueued_at'[r]
    BY <1>4, <1>5, <1>8
  <2>2. Ordered(enqueued_at', Append(pending, r))
    BY <1>1, <1>6, <1>7, <2>1, OrderedAppend
  <2> QED
    BY <1>3, <2>2
<1>10. Precede(enqueued_at', remaining', pending')
  <2>1. Range(pending') = Range(pending) \cup {r}
    BY <1>1, <1>3, AppendToQueue
  <2> QED
    BY <1>3, <1>4, <1>5, <1>7, <1>8, <2>1 DEF Precede
<1>11. \A q \in Range(remaining') : enqueued_at'[q] > now'
  BY <1>3, <1>4, <1>5, <1>6 DEF QueueOrder
<1>12. \A q \in Requests : enqueued_at'[q] <= clock'
  BY <1>1, <1>3, <1>6 DEF QueueOrder
<1> QED
  BY <1>1, <1>3, <1>7, <1>9, <1>10, <1>11, <1>12 DEF QueueOrder

(* The loop takes the oldest batch, and keeps it behind those it kept before. *)
LEMMA DrainOrdered ==
    ASSUME HeldInv, QueueOrder, DrainFront
    PROVE  QueueOrder'
<1> USE Kinds DEF HeldInv
<1>1. /\ enqueued_at \in [Requests -> Nat] /\ clock \in Nat /\ now \in Nat
      /\ pending \in Seq(Requests) /\ remaining \in Seq(Requests)
      /\ pending # <<>> /\ pending' = Tail(pending)
      /\ UNCHANGED <<clock, enqueued_at, since, now, pc>>
  BY DEF TypeOK, TimeOK, QueuesOK, DrainFront, time
<1>2. PICK r \in Requests : r = Head(pending)
  BY <1>1
<1>3. /\ r \in Range(pending) /\ Range(pending) = Range(pending') \cup {r}
      /\ Range(pending) \subseteq Requests
  BY <1>1, <1>2, TakeFromQueue, RangeEquality
<1>4. Ordered(enqueued_at, pending') /\ \A q \in Range(pending') : enqueued_at[r] < enqueued_at[q]
  BY <1>1, <1>2, OrderedTail DEF QueueOrder
<1>5. Precede(enqueued_at, remaining, pending')
  BY <1>3 DEF QueueOrder, Precede
<1>6. CASE remaining' = remaining
  BY <1>1, <1>4, <1>5, <1>6 DEF QueueOrder
<1>7. CASE ~Due(r) /\ KeepFront(r)
  <2>1. remaining' = Append(remaining, r) /\ enqueued_at[r] > now
    BY <1>1, <1>7 DEF KeepFront, Due
  <2>2. Range(remaining') = Range(remaining) \cup {r}
    BY <1>1, <2>1, AppendToQueue
  <2>3. Ordered(enqueued_at, remaining')
    BY <1>1, <1>3, <2>1, OrderedAppend DEF QueueOrder, Precede
  <2>4. Precede(enqueued_at, remaining', pending')
    BY <1>4, <1>5, <2>2 DEF Precede
  <2> QED
    BY <1>1, <1>4, <2>1, <2>2, <2>3, <2>4 DEF QueueOrder
<1> QED
  BY <1>2, <1>6, <1>7 DEF DrainFront

LEMMA NextOrdered == HeldInv /\ QueueOrder /\ [Next]_vars => QueueOrder'
<1> SUFFICES ASSUME HeldInv, QueueOrder, [Next]_vars PROVE QueueOrder'
  OBVIOUS
<1> USE Kinds
<1>0. /\ DOMAIN pc = Threads /\ since \in Nat /\ clock \in Nat /\ now \in Nat
      /\ pc[Dispatcher] # "drain" => remaining = <<>>
  BY DEF HeldInv, HandsEmpty, TypeOK, PcOK, TimeOK
<1>1. ASSUME NEW c \in Clients, NEW r \in Requests, SubmitEmpty(c, r) \/ SubmitBegin(c, r)
      PROVE  QueueOrder'
  BY <1>0, <1>1, OrderKept DEF SubmitEmpty, SubmitBegin, Move, At, queues, time, OrderView
<1>2. ASSUME NEW c \in Clients, SubmitLock(c) \/ TakeFuture(c) \/ SubmitThrows(c)
                                \/ SubmitFaults(c) \/ Collect(c)
      PROVE  QueueOrder'
  BY <1>0, <1>2, OrderKept DEF SubmitLock, TakeFuture, SubmitThrows, SubmitFaults, Collect,
     Move, At, queues, time, OrderView
<1>3. ASSUME NEW c \in Clients, SubmitPush(c) PROVE QueueOrder'
  BY <1>3, PushOrdered
<1>4. ASSUME \/ LoopTest \/ Park \/ WakeNotified \/ WakeTimeout \/ StopSeen
             \/ LoopDispatch \/ LoopCount \/ DispatchEnd
      PROVE  QueueOrder'
  BY <1>0, <1>4, OrderKept DEF LoopTest, Park, WakeNotified, WakeTimeout, StopSeen,
     LoopDispatch, LoopCount, DispatchBatch, CountBatch, DispatchEnd, Move, At, queues,
     time, OrderView
<1>5. ASSUME WaitBegin PROVE QueueOrder'
  BY <1>0, <1>5, OrderKept DEF WaitBegin, Move, At, queues, OrderView
<1>6. ASSUME SampleNow PROVE QueueOrder'
  <2>1. /\ remaining = <<>> /\ UNCHANGED <<pending, remaining, clock, enqueued_at, since>>
        /\ since <= now'
    BY <1>0, <1>6 DEF SampleNow, Sampled, Move, At, queues
  <2> QED
    BY <2>1, EmptyQueue DEF QueueOrder
<1>7. ASSUME DrainFront PROVE QueueOrder'
  BY <1>7, DrainOrdered
<1>8. ASSUME DrainEnd PROVE QueueOrder'
  <2>1. /\ pending' = remaining /\ remaining' = <<>> /\ pc'[Dispatcher] = "dispatch"
        /\ UNCHANGED <<clock, enqueued_at, since, now>>
    BY <1>0, <1>8 DEF DrainEnd, Move, At, time
  <2> QED
    BY <2>1, EmptyQueue, OrderedEmpty DEF QueueOrder
<1>9. ASSUME NEW r \in Requests, RunThen(r) PROVE QueueOrder'
  BY <1>9, OrderKept DEF RunThen, queues, time, OrderView
<1>10. ASSUME NEW w \in Workers,
              FlushLock(w) \/ FlushDispatch(w) \/ FlushCount(w) \/ FlushEnd(w)
       PROVE  QueueOrder'
  BY <1>0, <1>10, OrderKept DEF FlushLock, FlushDispatch, FlushCount, FlushEnd,
     DispatchBatch, CountBatch, Move, At, queues, time, OrderView
<1>11. ASSUME NEW w \in Workers, FlushTake(w) PROVE QueueOrder'
  <2>1. /\ pending' = <<>> /\ UNCHANGED <<remaining, clock, enqueued_at, since, now>>
        /\ pc'[Dispatcher] = "drain" => pc[Dispatcher] = "drain"
    BY <1>0, <1>11 DEF FlushTake, Move, At, time
  <2> QED
    BY <2>1, OrderedEmpty DEF QueueOrder
<1>12. ASSUME (\E f \in Flushers : FlushCall(f)) \/ StopRunning \/ Stop PROVE QueueOrder'
  BY <1>0, <1>12, OrderKept DEF FlushCall, StopRunning, Stop, StopNotify, StopJoin, Move,
     At, queues, time, OrderView
<1>13. ASSUME Destroy PROVE QueueOrder'
  <2>1. /\ pending' = <<>> /\ UNCHANGED <<remaining, clock, enqueued_at, since, now>>
        /\ pc'[Dispatcher] = pc[Dispatcher]
    BY <1>0, <1>13 DEF Destroy, Move, At, time
  <2> QED
    BY <2>1, OrderedEmpty DEF QueueOrder
<1>14. CASE UNCHANGED vars
  BY <1>14, OrderKept DEF vars, queues, time, OrderView
<1> QED
  BY <1>1, <1>2, <1>3, <1>4, <1>5, <1>6, <1>7, <1>8, <1>9, <1>10, <1>11, <1>12, <1>13, <1>14
  DEF Next, Submit, Loop, Flush

LEMMA AlwaysOrdered == Spec => [](HeldInv /\ QueueOrder)
<1>1. Init => QueueOrder
  BY Kinds, EmptyQueue, OrderedEmpty DEF Init, QueueOrder
<1> QED
  BY <1>1, NextOrdered, AlwaysHeld, PTL DEF Spec

(* The queue is in order of arrival at every moment, also while the loop has *)
(* taken it apart.                                                           *)
THEOREM QueueInOrder == Spec => []OldestFirst
<1>1. HeldInv /\ QueueOrder => OldestFirst
  <2> SUFFICES ASSUME HeldInv, QueueOrder PROVE OldestFirst
    OBVIOUS
  <2>1. remaining \in Seq(Requests) /\ pending \in Seq(Requests)
    BY DEF HeldInv, TypeOK, QueuesOK
  <2> DEFINE queue == remaining \o pending
             m == Len(remaining)
             n == Len(pending)
  <2>2. /\ DOMAIN queue = 1..(m + n) /\ m \in Nat /\ n \in Nat
        /\ \A i \in 1..(m + n) :
              queue[i] = IF i <= m THEN remaining[i] ELSE pending[i - m]
        /\ DOMAIN remaining = 1..m /\ DOMAIN pending = 1..n
    BY <2>1, ConcatProperties, LenProperties
  <2>3. OldestFirst <=> \A i, j \in DOMAIN queue :
                           i < j => enqueued_at[queue[i]] < enqueued_at[queue[j]]
    BY Zenon DEF OldestFirst
  <2> HIDE DEF queue, m, n
  <2>4. ASSUME NEW i \in 1..(m + n), NEW j \in 1..(m + n), i < j
        PROVE  enqueued_at[queue[i]] < enqueued_at[queue[j]]
    <3>1. CASE j <= m
      BY <2>2, <2>4, <3>1 DEF QueueOrder, Ordered
    <3>2. CASE i <= m /\ j > m
      <4>1. queue[i] = remaining[i] /\ i \in DOMAIN remaining
            /\ queue[j] = pending[j - m] /\ j - m \in DOMAIN pending
        BY <2>2, <3>2
      <4>2. queue[i] \in Range(remaining) /\ queue[j] \in Range(pending)
        BY <4>1 DEF Range
      <4> QED
        BY <4>2 DEF QueueOrder, Precede
    <3>3. CASE i > m
      <4>1. /\ queue[i] = pending[i - m] /\ i - m \in DOMAIN pending
            /\ queue[j] = pending[j - m] /\ j - m \in DOMAIN pending /\ i - m < j - m
        BY <2>2, <2>4, <3>3
      <4> QED
        BY <4>1 DEF QueueOrder, Ordered
    <3> QED
      BY <2>2, <3>1, <3>2, <3>3
  <2> QED
    BY <2>2, <2>3, <2>4
<1> QED
  BY <1>1, AlwaysOrdered, PTL

(* No batch that was in the queue when the dispatcher went to sleep is put   *)
(* back.                                                                     *)
THEOREM OldBatchesGo == Spec => []OnlyFreshKept
<1>1. HeldInv /\ QueueOrder => OnlyFreshKept
  <2> SUFFICES ASSUME HeldInv, QueueOrder, NEW r \in Range(remaining)
               PROVE  enqueued_at[r] > since
    BY DEF OnlyFreshKept
  <2>1. pc[Dispatcher] = "drain"
    BY EmptyQueue DEF HeldInv, HandsEmpty
  <2>2. r \in Requests /\ since \in Nat /\ now \in Nat /\ enqueued_at[r] \in Nat
    BY RangeEquality DEF HeldInv, TypeOK, TimeOK, QueuesOK
  <2> QED
    BY <2>1, <2>2 DEF QueueOrder
<1> QED
  BY <1>1, AlwaysOrdered, PTL

-------------------------------------------------------------------------------
(* The order of dispatch.                                                    *)
LEMMA NextEntered == HeldInv /\ Entered /\ [Next]_vars => Entered'
<1> SUFFICES ASSUME HeldInv, Entered, [Next]_vars PROVE Entered'
  OBVIOUS
<1> USE Kinds
<1>0. /\ DOMAIN pc = Threads /\ DOMAIN cur = Clients /\ DOMAIN promise = Requests
      /\ enqueued_at \in [Requests -> Nat] /\ clock \in Nat
  BY DEF HeldInv, TypeOK, PcOK, CallersOK, PromisesOK, TimeOK
<1>1. CASE /\ enqueued_at' = enqueued_at
           /\ \A c \in Clients : Submitting(c)' = Submitting(c)
           /\ \A r \in Requests : promise[r] # "none" => promise'[r] # "none"
           /\ \A r \in Requests : promise'[r] = "broken" => promise[r] = "broken"
           /\ pc[Stopper] = "destroyed" => pc'[Stopper] = "destroyed"
  BY <1>1 DEF Entered, InSubmit
<1>2. ASSUME NEW c \in Clients, NEW r \in Requests, SubmitEmpty(c, r) PROVE Entered'
  BY <1>0, <1>1, <1>2 DEF SubmitEmpty, time, callers, Submitting
<1>3. ASSUME NEW c \in Clients, NEW r \in Requests, SubmitBegin(c, r) PROVE Entered'
  <2>1. /\ promise[r] = "none" /\ promise' = [promise EXCEPT ![r] = "unset"]
        /\ enqueued_at' = enqueued_at /\ pc'[Stopper] = pc[Stopper]
        /\ \A d \in Clients : Submitting(d)' # Submitting(d) => Submitting(d)' = r
    BY <1>0, <1>3 DEF SubmitBegin, time, Move, At, Submitting
  <2> QED
    BY <1>0, <2>1 DEF Entered, InSubmit
<1>4. ASSUME NEW c \in Clients, SubmitPush(c) PROVE Entered'
  <2>1. PICK r \in Requests : r = cur[c]
    BY <1>4 DEF SubmitPush, Move, At, HeldInv, TypeOK, CallersOK
  <2>2. /\ enqueued_at' = [enqueued_at EXCEPT ![r] = clock + 1]
        /\ promise' = promise /\ pc'[Stopper] = pc[Stopper]
        /\ Submitting(c) = r /\ Submitting(c)' = NoRequest
        /\ \A d \in Clients \ {c} : Submitting(d)' = Submitting(d)
    BY <1>0, <1>4, <2>1 DEF SubmitPush, promises, callers, Move, At, Submitting
  <2>3. promise[r] = "unset" /\ \A d \in Clients \ {c} : Submitting(d) # r
    BY <2>2, SizeAssumption
    DEF InSubmit, HeldInv, PromiseHeldOnce, HeldSomewhere, NoDuplicates
  <2> QED
    BY <1>0, <2>2, <2>3, SizeAssumption DEF Entered, InSubmit
<1>5. ASSUME NEW c \in Clients, SubmitLock(c) \/ TakeFuture(c) \/ SubmitThrows(c)
                                \/ SubmitFaults(c) \/ Collect(c)
      PROVE  Entered'
  BY <1>0, <1>1, <1>5 DEF SubmitLock, TakeFuture, SubmitThrows, SubmitFaults, Collect,
     LeaveRequest, Move, At, Submitting, time, promises, callers
<1>6. ASSUME Loop PROVE Entered'
  BY <1>0, <1>1, <1>6 DEF Loop, LoopTest, WaitBegin, Park, WakeNotified, WakeTimeout,
     StopSeen, SampleNow, DrainFront, DrainEnd, LoopDispatch, LoopCount, DispatchBatch,
     CountBatch, DispatchEnd, Move, At, Submitting, time, promises, callers
<1>7. ASSUME NEW r \in Requests, RunThen(r) PROVE Entered'
  BY <1>0, <1>1, <1>7 DEF RunThen, Submitting, time, callers
<1>8. ASSUME NEW w \in Workers, Flush(w) PROVE Entered'
  BY <1>0, <1>1, <1>8 DEF Flush, FlushLock, FlushTake, FlushDispatch, FlushCount,
     FlushEnd, DispatchBatch, CountBatch, Move, At, Submitting, time, promises, callers
<1>9. ASSUME (\E f \in Flushers : FlushCall(f)) \/ StopRunning \/ Stop PROVE Entered'
  BY <1>0, <1>1, <1>9 DEF FlushCall, StopRunning, Stop, StopNotify, StopJoin, Move, At,
     Submitting, time, promises, callers
<1>10. ASSUME Destroy PROVE Entered'
  <2>1. /\ enqueued_at' = enqueued_at /\ pc'[Stopper] = "destroyed"
        /\ \A c \in Clients : Submitting(c)' = Submitting(c)
        /\ \A r \in Requests : promise'[r] \in {"broken", promise[r]}
    BY <1>0, <1>10 DEF Destroy, Move, At, Submitting, time, callers
  <2> QED
    BY <2>1 DEF Entered, InSubmit
<1>11. CASE UNCHANGED vars
  BY <1>1, <1>11 DEF vars, time, promises, callers, Submitting
<1> QED
  BY <1>2, <1>3, <1>4, <1>5, <1>6, <1>7, <1>8, <1>9, <1>10, <1>11 DEF Next, Submit

Small(r)      == Size[r] \in 1..(MaxBatchSize - 1)
Earlier(r, q) == enqueued_at[r] \in 1..(enqueued_at[q] - 1)
NoneFlushes   == \A f \in Flushers : pc[f] = "idle"

(* While only the dispatcher takes batches, one that came earlier than a      *)
(* small one is handed over before it, also within the dispatcher's vector.   *)
HandedInOrder ==
    NoneFlushes =>
    \A q, r \in Requests : Small(q) /\ Earlier(r, q) =>
       /\ Dispatched(q) => Dispatched(r)
       /\ \A i \in DOMAIN Undispatched(Dispatcher) :
             Undispatched(Dispatcher)[i] = q =>
                Dispatched(r) \/ \E j \in 1..(i - 1) : Undispatched(Dispatcher)[j] = r

LEMMA HandedKept ==
    ASSUME HandedInOrder, UNCHANGED enqueued_at,
           Undispatched(Dispatcher)' = Undispatched(Dispatcher),
           NoneFlushes' => NoneFlushes,
           \A r \in Requests : Dispatched(r) => Dispatched(r)',
           \A q \in Requests : Small(q) /\ Dispatched(q)' => Dispatched(q)
    PROVE  HandedInOrder'
BY DEF HandedInOrder, Small, Earlier

(* Nothing that has entered the queue is lost sight of.                      *)
LEMMA Whereabouts ==
    ASSUME HeldInv, Entered, NoneFlushes, pc[Stopper] # "destroyed",
           NEW r \in Requests, enqueued_at[r] >= 1
    PROVE  Dispatched(r) \/ r \in Queued \/ r \in Range(Undispatched(Dispatcher))
<1>1. promise[r] \in {"unset", "value", "error"} /\ ~InSubmit(r)
  BY DEF Entered, HeldInv, TypeOK, PromisesOK, Settled
<1>2. ASSUME NEW f \in Flushers PROVE Range(Undispatched(f)) = {}
  BY Kinds, EmptyQueue DEF NoneFlushes, HeldInv, HandsEmpty, Undispatched
<1>3. \A w \in Workers : w = Dispatcher \/ w \in Flushers
  BY DEF Workers
<1> QED
  BY <1>1, <1>2, <1>3 DEF Dispatched, HeldInv, PromiseHeldOnce, HeldSomewhere, Taken

OrderInv == ServiceInv /\ QueueOrder /\ Entered /\ HandedInOrder

(* What submit() appends is later than everything, and with nobody yet.      *)
LEMMA PushHanded ==
    ASSUME OrderInv, NEW c \in Clients, SubmitPush(c)
    PROVE  HandedInOrder'
<1> USE Kinds DEF OrderInv, ServiceInv, HeldInv
<1>1. /\ DOMAIN pc = Threads /\ pc[c] = "push" /\ clock \in Nat
      /\ enqueued_at \in [Requests -> Nat]
  BY DEF TypeOK, PcOK, TimeOK, SubmitPush, Move, At
<1>2. PICK e \in Requests : e = cur[c]
  BY <1>1 DEF TypeOK, CallersOK
<1>3. /\ enqueued_at' = [enqueued_at EXCEPT ![e] = clock + 1]
      /\ Undispatched(Dispatcher)' = Undispatched(Dispatcher)
      /\ UNCHANGED <<promise, cont>>
      /\ NoneFlushes' => NoneFlushes
  BY <1>1, <1>2 DEF SubmitPush, Move, At, promises, Undispatched, NoneFlushes
<1>4. ~Dispatched(e) /\ e \notin Range(Undispatched(Dispatcher))
  BY <1>1, <1>2 DEF Dispatched, InSubmit, Submitting, PromiseHeldOnce, HeldSomewhere,
     OnePlace, Taken
<1>5. \A q, r \in Requests : Earlier(r, q)' => q = e \/ Earlier(r, q)
  BY <1>1, <1>3 DEF Earlier, QueueOrder
<1>6. \A i \in DOMAIN Undispatched(Dispatcher) : Undispatched(Dispatcher)[i] # e
  BY <1>4 DEF Range
<1>7. \A r \in Requests : Dispatched(r)' <=> Dispatched(r)
  BY <1>3 DEF Dispatched
<1> SUFFICES ASSUME NoneFlushes, NEW q \in Requests, NEW r \in Requests,
                    Small(q), Earlier(r, q)'
             PROVE  /\ Dispatched(q) => Dispatched(r)
                    /\ \A i \in DOMAIN Undispatched(Dispatcher) :
                          Undispatched(Dispatcher)[i] = q =>
                             \/ Dispatched(r)
                             \/ \E j \in 1..(i - 1) : Undispatched(Dispatcher)[j] = r
  BY <1>3, <1>7 DEF HandedInOrder, Small
<1> QED
  BY <1>4, <1>5, <1>6 DEF HandedInOrder

(* The loop takes a small batch only after all that came earlier.            *)
LEMMA DrainHanded ==
    ASSUME OrderInv, DrainFront
    PROVE  HandedInOrder'
<1> USE Kinds DEF OrderInv, ServiceInv, HeldInv
<1>1. /\ pc[Dispatcher] = "drain" /\ pending # <<>> /\ pending \in Seq(Requests)
      /\ enqueued_at \in [Requests -> Nat] /\ now \in Nat
      /\ held \in [Workers -> Seq(Requests)] /\ remaining \in Seq(Requests)
      /\ UNCHANGED <<pc, enqueued_at, promise, cont>>
  BY DEF DrainFront, At, TypeOK, QueuesOK, TimeOK, time, promises
<1>2. PICK h \in Requests : h = Head(pending)
  BY <1>1
<1>3. CASE held' = held
  BY <1>1, <1>3, HandedKept DEF Undispatched, NoneFlushes, Dispatched
<1>4. CASE Due(h) /\ DispatchFront(h)
  <2> DEFINE s == held[Dispatcher]
             t == Append(s, h)
  <2>1. Undispatched(Dispatcher) = s /\ Undispatched(Dispatcher)' = t
    BY <1>1, <1>4 DEF Undispatched, DispatchFront
  <2>2. /\ DOMAIN s = 1..Len(s) /\ DOMAIN t = 1..(Len(s) + 1) /\ Len(s) \in Nat
        /\ t[Len(s) + 1] = h /\ \A i \in 1..Len(s) : t[i] = s[i]
    BY <1>1, AppendProperties, LenProperties
  <2> HIDE DEF s, t
  <2> SUFFICES ASSUME NoneFlushes, NEW q \in Requests, NEW r \in Requests,
                      Small(q), Earlier(r, q)
               PROVE  /\ Dispatched(q) => Dispatched(r)
                      /\ \A i \in DOMAIN t : t[i] = q =>
                            Dispatched(r) \/ \E j \in 1..(i - 1) : t[j] = r
    BY <1>1, <2>1 DEF HandedInOrder, NoneFlushes, Dispatched, Small, Earlier
  <2>3. Dispatched(q) => Dispatched(r)
    BY DEF HandedInOrder
  <2>4. ASSUME NEW i \in 1..Len(s), t[i] = q
        PROVE  Dispatched(r) \/ \E j \in 1..(i - 1) : t[j] = r
    BY <2>1, <2>2, <2>4 DEF HandedInOrder
  <2>5. ASSUME q = h PROVE Dispatched(r) \/ r \in Range(s)
    <3>1. enqueued_at[h] <= now /\ enqueued_at[r] < enqueued_at[h] /\ enqueued_at[r] >= 1
      BY <1>1, <1>4, <2>5, SizeAssumption DEF Due, Small, Earlier
    <3>2. pc[Stopper] # "destroyed"
      BY <1>1 DEF JoinedDone
    <3>3. r \notin Range(remaining)
      BY <1>1, <3>1 DEF QueueOrder
    <3>4. r \notin Range(pending)
      <4>1. Range(pending) = Range(Tail(pending)) \cup {h}
        BY <1>1, <1>2, TakeFromQueue
      <4>2. \A e \in Range(Tail(pending)) : enqueued_at[h] < enqueued_at[e]
        BY <1>1, <1>2, OrderedTail DEF QueueOrder
      <4> QED
        BY <1>1, <3>1, <4>1, <4>2
    <3> QED
      BY <2>1, <3>1, <3>2, <3>3, <3>4, Whereabouts DEF Queued
  <2>6. ASSUME q = h PROVE Dispatched(r) \/ \E j \in 1..Len(s) : t[j] = r
    BY <2>2, <2>5, <2>6 DEF Range
  <2> QED
    BY <2>2, <2>3, <2>4, <2>6
<1> QED
  BY <1>2, <1>3, <1>4 DEF DrainFront

(* The last flush takes the queue as it is.                                  *)
LEMMA TakeHanded ==
    ASSUME OrderInv, FlushTake(Dispatcher)
    PROVE  HandedInOrder'
<1> USE Kinds DEF OrderInv, ServiceInv, HeldInv
<1>1. /\ pc[Dispatcher] = "flushtake" /\ pc'[Dispatcher] = "flushdispatch"
      /\ pending \in Seq(Requests) /\ enqueued_at \in [Requests -> Nat]
      /\ \A f \in Flushers : pc'[f] = pc[f]
      /\ held'[Dispatcher] = pending /\ UNCHANGED <<enqueued_at, promise, cont>>
  BY DEF FlushTake, Move, At, TypeOK, PcOK, QueuesOK, TimeOK, time, promises
<1>2. /\ Undispatched(Dispatcher) = <<>> /\ Undispatched(Dispatcher)' = pending
      /\ remaining = <<>> /\ pc[Stopper] # "destroyed"
  BY <1>1 DEF Undispatched, HandsEmpty, JoinedDone
<1> SUFFICES ASSUME NoneFlushes, NEW q \in Requests, NEW r \in Requests,
                    Small(q), Earlier(r, q)
             PROVE  /\ Dispatched(q) => Dispatched(r)
                    /\ \A i \in DOMAIN pending : pending[i] = q =>
                          Dispatched(r) \/ \E j \in 1..(i - 1) : pending[j] = r
  BY <1>1, <1>2 DEF HandedInOrder, NoneFlushes, Dispatched, Small, Earlier
<1>3. Dispatched(q) => Dispatched(r)
  BY DEF HandedInOrder
<1>4. Dispatched(r) \/ r \in Range(pending)
  BY <1>1, <1>2, Whereabouts, EmptyQueue DEF Earlier, Queued
<1>5. ASSUME NEW i \in DOMAIN pending, NEW j \in DOMAIN pending,
             pending[i] = q, pending[j] = r
      PROVE  j \in 1..(i - 1)
  <2>1. i \in 1..Len(pending) /\ j \in 1..Len(pending) /\ Len(pending) \in Nat
    BY <1>1, LenProperties
  <2>2. enqueued_at[r] < enqueued_at[q]
    BY <1>1 DEF Earlier
  <2>3. ~(i < j) /\ i # j
    BY <1>1, <1>5, <2>2 DEF QueueOrder, Ordered
  <2> QED
    BY <2>1, <2>3
<1> QED
  BY <1>3, <1>4, <1>5 DEF Range

(* The first batch of the dispatcher's vector goes to the service.           *)
LEMMA DispatchHanded ==
    ASSUME OrderInv, NEW from \in {"dispatch", "flushdispatch"},
           NEW to \in {"count", "flushcount"}, DispatchBatch(Dispatcher, from, to)
    PROVE  HandedInOrder'
<1> USE Kinds DEF OrderInv, ServiceInv, HeldInv
<1>1. PICK result \in Results :
         cont' = [cont EXCEPT ![Head(held[Dispatcher])] = result]
  BY DEF DispatchBatch
<1>2. /\ pc[Dispatcher] = from /\ pc'[Dispatcher] = to /\ \A f \in Flushers : pc'[f] = pc[f]
      /\ held[Dispatcher] # <<>> /\ held[Dispatcher] \in Seq(Requests)
      /\ UNCHANGED <<held, enqueued_at, promise>> /\ DOMAIN cont = Requests
  BY DEF DispatchBatch, Move, At, TypeOK, PcOK, QueuesOK, PromisesOK, queues, time
<1>3. PICK h \in Requests : h = Head(held[Dispatcher])
  BY <1>2
<1> DEFINE s == held[Dispatcher]
           t == Tail(s)
<1>4. Undispatched(Dispatcher) = s /\ Undispatched(Dispatcher)' = t
  BY <1>2 DEF Undispatched
<1>5. /\ DOMAIN s = 1..Len(s) /\ DOMAIN t = 1..(Len(s) - 1) /\ Len(s) \in Nat /\ Len(s) > 0
      /\ s[1] = h /\ \A i \in 1..(Len(s) - 1) : t[i] = s[i + 1]
  BY <1>2, <1>3, HeadTailProperties, LenProperties, EmptySeq
<1>6. \A r \in Requests : Dispatched(r)' <=> Dispatched(r) \/ r = h
  BY <1>1, <1>2, <1>3 DEF Dispatched, Results
<1> HIDE DEF s, t
<1> SUFFICES ASSUME NoneFlushes, NEW q \in Requests, NEW r \in Requests,
                    Small(q), Earlier(r, q)
             PROVE  /\ Dispatched(q)' => Dispatched(r)'
                    /\ \A i \in DOMAIN t : t[i] = q =>
                          Dispatched(r)' \/ \E j \in 1..(i - 1) : t[j] = r
  BY <1>2, <1>4 DEF HandedInOrder, NoneFlushes, Small, Earlier
<1>7. \A i \in DOMAIN s : s[i] = q => Dispatched(r) \/ \E j \in 1..(i - 1) : s[j] = r
  BY <1>4 DEF HandedInOrder
<1>8. Dispatched(q)' => Dispatched(r)'
  <2>1. CASE q = h
    BY <1>5, <1>6, <1>7, <2>1
  <2>2. CASE q # h
    BY <1>6, <2>2 DEF HandedInOrder
  <2> QED
    BY <2>1, <2>2
<1>9. ASSUME NEW i \in DOMAIN t, t[i] = q
      PROVE  Dispatched(r)' \/ \E j \in 1..(i - 1) : t[j] = r
  <2>1. i + 1 \in DOMAIN s /\ s[i + 1] = q /\ i \in 1..(Len(s) - 1)
    BY <1>5, <1>9
  <2>2. CASE Dispatched(r)
    BY <1>6, <2>2
  <2>3. ASSUME NEW j \in 1..i, s[j] = r
        PROVE  Dispatched(r)' \/ \E k \in 1..(i - 1) : t[k] = r
    <3>1. CASE j = 1
      BY <1>5, <1>6, <2>3, <3>1
    <3>2. CASE j # 1
      <4>1. j - 1 \in 1..(i - 1) /\ t[j - 1] = s[j]
        BY <1>5, <2>1, <3>2
      <4> QED
        BY <2>3, <4>1
    <3> QED
      BY <3>1, <3>2
  <2> QED
    BY <1>7, <2>1, <2>2, <2>3
<1> QED
  BY <1>8, <1>9

LEMMA NextHanded == OrderInv /\ [Next]_vars => HandedInOrder'
<1> SUFFICES ASSUME OrderInv, [Next]_vars PROVE HandedInOrder'
  OBVIOUS
<1> USE Kinds
<1>0. /\ DOMAIN pc = Threads /\ DOMAIN held = Workers /\ HandedInOrder
      /\ held \in [Workers -> Seq(Requests)]
  BY DEF OrderInv, ServiceInv, HeldInv, TypeOK, PcOK, QueuesOK
<1>1. CASE /\ UNCHANGED <<enqueued_at, promise, cont>>
           /\ Undispatched(Dispatcher)' = Undispatched(Dispatcher)
           /\ \A f \in Flushers : pc'[f] = "idle" => pc[f] = "idle"
  BY <1>0, <1>1, HandedKept DEF Dispatched, NoneFlushes
<1>2. ASSUME NEW c \in Clients, NEW r \in Requests, SubmitEmpty(c, r) PROVE HandedInOrder'
  <2>1. /\ Size[r] = 0 /\ promise' = [promise EXCEPT ![r] = "value"]
        /\ UNCHANGED <<enqueued_at, cont, pc, held>> /\ DOMAIN promise = Requests
    BY <1>2 DEF SubmitEmpty, time, queues, OrderInv, ServiceInv, HeldInv, TypeOK, PromisesOK
  <2>2. ~Small(r)
    BY <2>1 DEF Small
  <2> QED
    BY <1>0, <2>1, <2>2, HandedKept DEF Dispatched, NoneFlushes, Undispatched
<1>3. ASSUME NEW c \in Clients, NEW r \in Requests, SubmitBegin(c, r) PROVE HandedInOrder'
  <2>1. /\ promise[r] = "none" /\ promise' = [promise EXCEPT ![r] = "unset"]
        /\ UNCHANGED <<enqueued_at, cont, held>> /\ DOMAIN promise = Requests
        /\ \A w \in Workers : pc'[w] = pc[w]
    BY <1>0, <1>3 DEF SubmitBegin, time, queues, Move, At, OrderInv, ServiceInv, HeldInv,
       TypeOK, PromisesOK
  <2> QED
    BY <1>0, <2>1, HandedKept DEF Dispatched, NoneFlushes, Undispatched
<1>4. ASSUME NEW c \in Clients, SubmitPush(c) PROVE HandedInOrder'
  BY <1>4, PushHanded
<1>5. ASSUME NEW c \in Clients, SubmitLock(c) \/ TakeFuture(c) \/ SubmitThrows(c)
                                \/ SubmitFaults(c) \/ Collect(c)
      PROVE  HandedInOrder'
  BY <1>0, <1>1, <1>5 DEF SubmitLock, TakeFuture, SubmitThrows, SubmitFaults, Collect,
     Move, At, Undispatched, time, promises, queues
<1>6. ASSUME \/ LoopTest \/ WaitBegin \/ Park \/ WakeNotified \/ WakeTimeout \/ StopSeen
             \/ SampleNow \/ DrainEnd \/ DispatchEnd
      PROVE  HandedInOrder'
  BY <1>0, <1>1, <1>6 DEF LoopTest, WaitBegin, Park, WakeNotified, WakeTimeout, StopSeen,
     SampleNow, DrainEnd, DispatchEnd, Move, At, Undispatched, time, promises, queues
<1>7. ASSUME DrainFront PROVE HandedInOrder'
  BY <1>7, DrainHanded
<1>8. ASSUME LoopDispatch \/ FlushDispatch(Dispatcher) PROVE HandedInOrder'
  BY <1>8, DispatchHanded DEF LoopDispatch, FlushDispatch
<1>9. ASSUME LoopCount \/ FlushCount(Dispatcher) PROVE HandedInOrder'
  BY <1>0, <1>1, <1>9 DEF LoopCount, FlushCount, CountBatch, Move, At, Undispatched, time,
     promises
<1>10. ASSUME FlushTake(Dispatcher) PROVE HandedInOrder'
  BY <1>10, TakeHanded
<1>11. ASSUME FlushLock(Dispatcher) \/ FlushEnd(Dispatcher) PROVE HandedInOrder'
  BY <1>0, <1>1, <1>11 DEF FlushLock, FlushEnd, Move, At, Undispatched, time, promises,
     queues
<1>12. ASSUME NEW f \in Flushers, Flush(f) \/ FlushCall(f) PROVE HandedInOrder'
  <2>1. pc'[f] # "idle"
    BY <1>0, <1>12 DEF Flush, FlushLock, FlushTake, FlushDispatch, FlushCount, FlushEnd,
       FlushCall, DispatchBatch, CountBatch, Move, At
  <2> QED
    BY <2>1 DEF HandedInOrder, NoneFlushes
<1>13. ASSUME NEW r \in Requests, RunThen(r) PROVE HandedInOrder'
  <2>1. /\ cont[r] # "idle" /\ cont' = [cont EXCEPT ![r] = "idle"]
        /\ promise'[r] \in {"value", "error"}
        /\ \A q \in Requests \ {r} : promise'[q] = promise[q]
        /\ UNCHANGED <<enqueued_at, pc, held>> /\ DOMAIN cont = Requests
    BY <1>13 DEF RunThen, time, queues, OrderInv, ServiceInv, HeldInv, TypeOK, PromisesOK
  <2> QED
    BY <1>0, <2>1, HandedKept DEF Dispatched, NoneFlushes, Undispatched
<1>14. ASSUME StopRunning \/ Stop PROVE HandedInOrder'
  BY <1>0, <1>1, <1>14 DEF StopRunning, Stop, StopNotify, StopJoin, Move, At,
     Undispatched, time, promises, queues
<1>15. ASSUME Destroy PROVE HandedInOrder'
  <2>1. \A r \in Requests : r \in Range(pending) => promise[r] = "unset"
    BY DEF OrderInv, ServiceInv, HeldInv, PromiseHeldOnce, HeldSomewhere, Queued
  <2>2. /\ UNCHANGED <<enqueued_at, cont, held>> /\ \A w \in Workers : pc'[w] = pc[w]
        /\ \A r \in Requests : \/ promise'[r] = promise[r]
                               \/ promise[r] = "unset" /\ promise'[r] = "broken"
    BY <1>0, <1>15, <2>1 DEF Destroy, Move, At, time
  <2> QED
    BY <1>0, <2>2, HandedKept DEF Dispatched, NoneFlushes, Undispatched
<1>16. CASE UNCHANGED vars
  BY <1>1, <1>16 DEF vars, time, promises, queues, Undispatched
<1>17. \A w \in Workers : w = Dispatcher \/ w \in Flushers
  BY DEF Workers
<1> QED
  BY <1>2, <1>3, <1>4, <1>5, <1>6, <1>7, <1>8, <1>9, <1>10, <1>11, <1>12, <1>13, <1>14,
     <1>15, <1>16, <1>17
  DEF Next, Submit, Loop, Flush

(* A batch that the size trigger does not single out never overtakes one      *)
(* that came earlier, as long as only the dispatcher takes batches.          *)
THEOREM NobodyOvertaken == Spec => []NoOvertaking
<1>1. Init => Entered /\ HandedInOrder
  BY Kinds DEF Init, Entered, HandedInOrder, Dispatched, Undispatched, Earlier
<1>2. OrderInv => NoOvertaking
  BY DEF OrderInv, HandedInOrder, NoOvertaking, NoneFlushes, Small, Earlier
<1>3. HeldInv /\ QueueOrder /\ ServiceInv /\ Entered /\ HandedInOrder /\ [Next]_vars
      => (Entered /\ HandedInOrder)'
  BY NextEntered, NextHanded DEF OrderInv
<1> QED
  BY <1>1, <1>2, <1>3, AlwaysOrdered, AlwaysJoined, PTL DEF Spec, OrderInv

-------------------------------------------------------------------------------
(* The statistics.  A batch that is being counted is with the service        *)
(* already, and with one worker.                                             *)
Counts(w) == pc[w] \in {"count", "flushcount"}

HeadsGone ==
    /\ \A w \in Workers : Counts(w) => Dispatched(Head(held[w]))
    /\ \A v, w \in Workers :
          Counts(v) /\ Counts(w) /\ Head(held[v]) = Head(held[w]) => v = w

LEMMA HeadsKept ==
    /\ HeadsGone
    /\ \A w \in Workers : Counts(w)' => Counts(w) /\ held'[w] = held[w]
    /\ \A r \in Requests : Dispatched(r) => Dispatched(r)'
    /\ TypeOK
    => HeadsGone'
<1> SUFFICES ASSUME HeadsGone, TypeOK,
                    \A w \in Workers : Counts(w)' => Counts(w) /\ held'[w] = held[w],
                    \A r \in Requests : Dispatched(r) => Dispatched(r)'
             PROVE  HeadsGone'
  OBVIOUS
<1>1. \A w \in Workers : Counts(w) => Head(held[w]) \in Requests
  BY HeadTailProperties DEF TypeOK, QueuesOK, Counts
<1>2. ASSUME NEW w \in Workers, Counts(w)' PROVE Dispatched(Head(held[w]))'
  <2>1. PICK h \in Requests : h = Head(held[w])
    BY <1>1, <1>2
  <2>2. Dispatched(h) /\ h = Head(held'[w])
    BY <1>2, <2>1 DEF HeadsGone
  <2> QED
    BY <2>2 DEF Dispatched
<1> QED
  BY <1>2 DEF HeadsGone

(* A batch that a worker hands over has not been with the service before.    *)
LEMMA DispatchGone ==
    ASSUME HeldInv, HeadsGone, NEW w \in Workers, NEW from \in {"dispatch", "flushdispatch"},
           NEW to \in {"count", "flushcount"}, DispatchBatch(w, from, to)
    PROVE  HeadsGone'
<1> USE Kinds
<1>0. DOMAIN pc = Threads /\ DOMAIN cont = Requests /\ held \in [Workers -> Seq(Requests)]
  BY DEF HeldInv, TypeOK, PcOK, PromisesOK, QueuesOK
<1>1. /\ held[w] # <<>> /\ pc[w] = from /\ pc' = [pc EXCEPT ![w] = to]
      /\ UNCHANGED <<held, promise>>
      /\ \E result \in Results : cont' = [cont EXCEPT ![Head(held[w])] = result]
  BY DEF DispatchBatch, Move, At, queues
<1>2. PICK h \in Requests : h = Head(held[w])
  BY <1>0, <1>1, HeadTailProperties
<1>3. h \in Taken
  <2>1. h \in Range(held[w]) /\ Undispatched(w) = held[w]
    BY <1>0, <1>1, <1>2, TakeFromQueue DEF Undispatched
  <2> QED
    BY <2>1 DEF Taken
<1>4. ~Dispatched(h)
  BY <1>3 DEF HeldInv, PromiseHeldOnce, HeldSomewhere, OnePlace, Dispatched
<1>5. Dispatched(h)' /\ \A r \in Requests \ {h} : Dispatched(r)' <=> Dispatched(r)
  BY <1>0, <1>1, <1>2 DEF Dispatched, Results
<1>6. Counts(w)' /\ \A v \in Workers \ {w} : Counts(v)' <=> Counts(v)
  BY <1>0, <1>1 DEF Counts
<1>7. \A v \in Workers : Counts(v) => Head(held[v]) \in Requests \ {h}
  BY <1>0, <1>4, HeadTailProperties DEF HeadsGone, HeldInv, TypeOK, QueuesOK, Counts
<1>8. \A v \in Workers : Counts(v)' => Dispatched(Head(held[v]))'
  <2> SUFFICES ASSUME NEW v \in Workers, Counts(v)' PROVE Dispatched(Head(held[v]))'
    OBVIOUS
  <2>1. CASE v = w
    BY <1>1, <1>2, <1>5, <2>1
  <2>2. CASE v # w
    <3>1. Counts(v) /\ held'[v] = held[v]
      BY <1>1, <1>6, <2>2
    <3>2. Dispatched(Head(held[v])) /\ Head(held[v]) \in Requests \ {h}
      BY <1>7, <3>1 DEF HeadsGone
    <3>3. PICK q \in Requests \ {h} : q = Head(held[v])
      BY <3>2
    <3>4. Dispatched(q)'
      BY <1>5, <3>2, <3>3
    <3> QED
      BY <3>1, <3>3, <3>4 DEF Dispatched
  <2> QED
    BY <2>1, <2>2
<1>9. \A u, v \in Workers :
         Counts(u)' /\ Counts(v)' /\ Head(held'[u]) = Head(held'[v]) => u = v
  BY <1>1, <1>2, <1>6, <1>7 DEF HeadsGone
<1> QED
  BY <1>1, <1>8, <1>9 DEF HeadsGone

LEMMA NextHeads == HeldInv /\ HeadsGone /\ [Next]_vars => HeadsGone'
<1> SUFFICES ASSUME HeldInv, HeadsGone, [Next]_vars PROVE HeadsGone'
  OBVIOUS
<1> USE Kinds
<1>0. /\ DOMAIN pc = Threads /\ DOMAIN held = Workers /\ DOMAIN promise = Requests
      /\ DOMAIN cont = Requests /\ TypeOK
  BY DEF HeldInv, TypeOK, PcOK, QueuesOK, PromisesOK
<1>1. CASE /\ UNCHANGED <<promise, cont>>
           /\ \A w \in Workers : Counts(w)' => Counts(w) /\ held'[w] = held[w]
  BY <1>0, <1>1, HeadsKept DEF Dispatched
<1>2. ASSUME NEW c \in Clients, NEW r \in Requests, SubmitEmpty(c, r) PROVE HeadsGone'
  <2>1. /\ UNCHANGED <<cont, pc, held>>
        /\ promise' = [promise EXCEPT ![r] = "value"]
    BY <1>2 DEF SubmitEmpty, queues
  <2> QED
    BY <1>0, <2>1, HeadsKept DEF Dispatched, Counts
<1>3. ASSUME NEW c \in Clients, NEW r \in Requests, SubmitBegin(c, r) PROVE HeadsGone'
  <2>1. /\ UNCHANGED <<cont, held>> /\ promise[r] = "none"
        /\ promise' = [promise EXCEPT ![r] = "unset"]
        /\ \A w \in Workers : pc'[w] = pc[w]
    BY <1>0, <1>3 DEF SubmitBegin, queues, Move, At
  <2> QED
    BY <1>0, <2>1, HeadsKept DEF Dispatched, Counts
<1>4. ASSUME NEW c \in Clients, Submit(c) \/ Collect(c) PROVE HeadsGone'
  BY <1>0, <1>1, <1>4 DEF Submit, SubmitLock, SubmitPush, TakeFuture, SubmitThrows,
     SubmitFaults, Collect, Move, At, Counts, promises, queues
<1>5. ASSUME \/ LoopTest \/ WaitBegin \/ Park \/ WakeNotified \/ WakeTimeout \/ StopSeen
             \/ SampleNow \/ DrainFront \/ DrainEnd \/ DispatchEnd \/ LoopCount
      PROVE  HeadsGone'
  BY <1>0, <1>1, <1>5 DEF LoopTest, WaitBegin, Park, WakeNotified, WakeTimeout, StopSeen,
     SampleNow, DrainFront, DispatchFront, DrainEnd, DispatchEnd, LoopCount, CountBatch,
     Move, At, Counts, promises, queues
<1>6. ASSUME LoopDispatch PROVE HeadsGone'
  BY <1>6, DispatchGone DEF LoopDispatch
<1>7. ASSUME NEW w \in Workers, FlushDispatch(w) PROVE HeadsGone'
  BY <1>7, DispatchGone DEF FlushDispatch
<1>8. ASSUME NEW w \in Workers, FlushLock(w) \/ FlushTake(w) \/ FlushCount(w) \/ FlushEnd(w)
      PROVE  HeadsGone'
  BY <1>0, <1>1, <1>8 DEF FlushLock, FlushTake, FlushCount, FlushEnd, CountBatch, Move, At,
     Counts, promises, queues
<1>9. ASSUME NEW r \in Requests, RunThen(r) PROVE HeadsGone'
  <2>1. /\ UNCHANGED <<pc, held>> /\ cont' = [cont EXCEPT ![r] = "idle"]
        /\ promise'[r] \in {"value", "error"}
        /\ \A q \in Requests \ {r} : promise'[q] = promise[q]
    BY <1>0, <1>9 DEF RunThen, queues
  <2> QED
    BY <1>0, <2>1, HeadsKept DEF Dispatched, Counts
<1>10. ASSUME (\E f \in Flushers : FlushCall(f)) \/ StopRunning \/ Stop PROVE HeadsGone'
  BY <1>0, <1>1, <1>10 DEF FlushCall, StopRunning, Stop, StopNotify, StopJoin, Move, At,
     Counts, promises, queues
<1>11. ASSUME Destroy PROVE HeadsGone'
  <2>1. \A r \in Requests : r \in Range(pending) => promise[r] = "unset"
    BY DEF HeldInv, PromiseHeldOnce, HeldSomewhere, Queued
  <2>2. /\ UNCHANGED <<cont, held>> /\ \A w \in Workers : pc'[w] = pc[w]
        /\ \A r \in Requests : promise[r] \in {"value", "error"} => promise'[r] = promise[r]
    BY <1>0, <1>11, <2>1 DEF Destroy, Move, At
  <2> QED
    BY <1>0, <2>2, HeadsKept DEF Dispatched, Counts
<1>12. CASE UNCHANGED vars
  BY <1>1, <1>12 DEF vars, promises, queues, Counts
<1> QED
  BY <1>2, <1>3, <1>4, <1>5, <1>6, <1>7, <1>8, <1>9, <1>10, <1>11, <1>12 DEF Next, Loop, Flush

-------------------------------------------------------------------------------
CountInv == HeldInv /\ HeadsGone

Accounted == IsFiniteSet(Uncounted) /\ EveryQueryCounted

LEMMA UncountedRequests ==
    ASSUME TypeOK
    PROVE  /\ Uncounted \subseteq Requests
           /\ \A r \in Uncounted : Size[r] \in Int
           /\ \A r \in Requests : Size[r] \in Int
<1>1. \A s \in Seq(Requests) : Range(s) \subseteq Requests
  BY DEF Range
<1>2. \A w \in Workers : Range(held[w]) \subseteq Requests
  BY <1>1 DEF TypeOK, QueuesOK
<1>3. Uncounted \subseteq Requests
  BY <1>1, <1>2 DEF Uncounted, Queued, TypeOK, QueuesOK
<1> QED
  BY <1>3, SizeAssumption

LEMMA AccountKept ==
    Accounted /\ Uncounted' = Uncounted /\ UNCHANGED stats => Accounted'
BY DEF Accounted, EveryQueryCounted, TotalSize

(* What a worker takes is in its hands. *)
InHands == UNION {Range(held[w]) : w \in Workers}

LEMMA HandsTake ==
    ASSUME NEW w \in Workers, NEW S, Range(held'[w]) = Range(held[w]) \cup S,
           \A v \in Workers \ {w} : held'[v] = held[v]
    PROVE  InHands' = InHands \cup S
<1> DEFINE others == UNION {Range(held[v]) : v \in Workers \ {w}}
<1>1. InHands = Range(held[w]) \cup others
  BY DEF InHands
<1>2. InHands' = Range(held'[w]) \cup others
  BY DEF InHands
<1> HIDE DEF others
<1> QED
  BY <1>1, <1>2

(* submit() counts what it pushes, and nobody else has it. *)
LEMMA PushAccounted ==
    ASSUME CountInv, Accounted, NEW c \in Clients, SubmitPush(c)
    PROVE  Accounted'
<1> USE Kinds DEF CountInv, HeldInv
<1>1. PICK e \in Requests : e = cur[c]
  BY DEF TypeOK, CallersOK, SubmitPush, Move, At
<1>2. /\ pending' = Append(pending, e) /\ UNCHANGED <<remaining, held, promise>>
      /\ stats' = [stats EXCEPT !.total_queries_submitted = @ + Size[e]]
      /\ pc[c] = "push"
  BY <1>1 DEF SubmitPush, Move, At, promises
<1>3. Range(pending') = Range(pending) \cup {e}
  BY <1>1, <1>2, AppendToQueue DEF TypeOK, QueuesOK
<1>4. Uncounted' = Uncounted \cup {e}
  BY <1>2, <1>3 DEF Uncounted, Queued
<1>5. /\ InSubmit(e) /\ e \notin Queued /\ e \notin Taken
      /\ cont[e] = "idle" /\ promise[e] = "unset"
  BY <1>1, <1>2 DEF InSubmit, Submitting, PromiseHeldOnce, HeldSomewhere, OnePlace
<1>6. \A w \in Workers : e \notin Range(held[w])
  <2> SUFFICES ASSUME NEW w \in Workers, e \in Range(held[w]) PROVE FALSE
    OBVIOUS
  <2>1. e \notin Range(Undispatched(w))
    BY <1>5 DEF Taken
  <2>2. Counts(w) /\ e \notin Range(Tail(held[w]))
    BY <2>1 DEF Undispatched, Counts
  <2>3. held[w] \in Seq(Requests) /\ held[w] # <<>>
    BY <2>2 DEF Counts, TypeOK, QueuesOK
  <2>4. e = Head(held[w])
    BY <2>2, <2>3, TakeFromQueue
  <2> QED
    BY <1>5, <2>2, <2>4 DEF HeadsGone, Dispatched
<1>7. e \notin Uncounted
  BY <1>5, <1>6 DEF Uncounted
<1>8. TotalSize(Uncounted') = TotalSize(Uncounted) + Size[e] /\ IsFiniteSet(Uncounted')
  BY <1>4, <1>7, UncountedRequests, SumAdd, FS_AddElement DEF Accounted, TotalSize
<1>9. TotalSize(Uncounted) \in Int /\ Size[e] \in Int
  BY UncountedRequests, SumType DEF Accounted, TotalSize
<1>10. /\ stats'.total_queries_submitted = stats.total_queries_submitted + Size[e]
       /\ stats'.total_queries_in_batches = stats.total_queries_in_batches
       /\ stats.total_queries_submitted \in Nat /\ stats.total_queries_in_batches \in Nat
  BY <1>2 DEF TypeOK, StatsOK, StatsFields
<1>11. EveryQueryCounted' <=> stats'.total_queries_submitted =
                              stats'.total_queries_in_batches + TotalSize(Uncounted')
  BY DEF EveryQueryCounted, TotalSize
<1> HIDE DEF TotalSize, Uncounted
<1> QED
  BY <1>8, <1>9, <1>10, <1>11 DEF Accounted, EveryQueryCounted

(* What a worker counts is no longer anywhere else. *)
LEMMA BatchAccounted ==
    ASSUME CountInv, Accounted, NEW w \in Workers, Counts(w),
           held' = [held EXCEPT ![w] = Tail(@)], UNCHANGED <<pending, remaining, promise>>,
           stats'.total_queries_submitted = stats.total_queries_submitted,
           stats'.total_queries_in_batches = stats.total_queries_in_batches + Counting(w)
    PROVE  Accounted'
<1> USE DEF CountInv, HeldInv
<1>1. held \in [Workers -> Seq(Requests)] /\ held[w] # <<>> /\ held[w] \in Seq(Requests)
  BY DEF TypeOK, QueuesOK, Counts
<1>2. PICK h \in Requests : h = Head(held[w])
  BY <1>1, HeadTailProperties
<1>3. Dispatched(h) /\ h \notin Queued /\ h \notin Taken /\ promise[h] # "broken"
  BY <1>2 DEF HeadsGone, Dispatched, PromiseHeldOnce, HeldSomewhere, OnePlace
<1>4. /\ Range(held[w]) = Range(Tail(held[w])) \cup {h}
      /\ Undispatched(w) = Tail(held[w]) /\ h \notin Range(Tail(held[w]))
  <2>1. Undispatched(w) = Tail(held[w])
    BY DEF Undispatched, Counts
  <2>2. Range(held[w]) = Range(Tail(held[w])) \cup {h}
    BY <1>1, <1>2, TakeFromQueue
  <2>3. h \notin Range(Undispatched(w))
    BY <1>3 DEF Taken
  <2> QED
    BY <2>1, <2>2, <2>3
<1>5. \A v \in Workers \ {w} : h \notin Range(held[v])
  <2> SUFFICES ASSUME NEW v \in Workers, v # w, h \in Range(held[v]) PROVE FALSE
    OBVIOUS
  <2>1. h \notin Range(Undispatched(v))
    BY <1>3 DEF Taken
  <2>2. Counts(v) /\ h \notin Range(Tail(held[v]))
    BY <2>1 DEF Undispatched, Counts
  <2>3. held[v] \in Seq(Requests) /\ held[v] # <<>>
    BY <2>2 DEF Counts, TypeOK, QueuesOK
  <2>4. h = Head(held[v])
    BY <2>2, <2>3, TakeFromQueue
  <2> QED
    BY <1>2, <2>2, <2>4 DEF HeadsGone
<1>6. /\ held'[w] = Tail(held[w]) /\ \A v \in Workers \ {w} : held'[v] = held[v]
  BY <1>1
<1>7. Uncounted' = Uncounted \ {h} /\ h \in Uncounted
  <2>1. UNION {Range(held[v]) : v \in Workers} =
            Range(held[w]) \cup UNION {Range(held[v]) : v \in Workers \ {w}}
    OBVIOUS
  <2>2. UNION {Range(held'[v]) : v \in Workers} =
            Range(Tail(held[w])) \cup UNION {Range(held[v]) : v \in Workers \ {w}}
    BY <1>6
  <2>3. h \notin UNION {Range(held[v]) : v \in Workers \ {w}}
    BY <1>5
  <2> DEFINE others == UNION {Range(held[v]) : v \in Workers \ {w}}
             broken == {r \in Requests : promise[r] = "broken"}
  <2>4. Uncounted = Queued \cup (Range(held[w]) \cup others) \cup broken
    BY <2>1 DEF Uncounted
  <2>5. Uncounted' = Queued \cup (Range(Tail(held[w])) \cup others) \cup broken
    BY <2>2 DEF Uncounted, Queued
  <2>6. h \notin others /\ h \notin broken
    BY <1>3, <2>3
  <2> HIDE DEF others, broken
  <2> QED
    BY <1>3, <1>4, <2>4, <2>5, <2>6
<1>8. TotalSize(Uncounted) = Size[h] + TotalSize(Uncounted') /\ IsFiniteSet(Uncounted')
  <2>1. IsFiniteSet(Uncounted) /\ \A r \in Uncounted : Size[r] \in Int
    BY UncountedRequests DEF Accounted
  <2> HIDE DEF Uncounted
  <2>2. SumFunctionOnSet(Size, Uncounted) =
           Size[h] + SumFunctionOnSet(Size, Uncounted \ {h})
    BY <1>7, <2>1, SumTake
  <2>3. IsFiniteSet(Uncounted \ {h})
    BY <2>1, FS_RemoveElement
  <2> QED
    BY <1>7, <2>2, <2>3 DEF TotalSize
<1>9. TotalSize(Uncounted) \in Int /\ Size[h] \in Int /\ Counting(w) = Size[h]
      /\ TotalSize(Uncounted') \in Int
  <2>1. \A r \in Uncounted' : Size[r] \in Int
    BY <1>7, UncountedRequests
  <2> QED
    BY <1>2, <1>8, <2>1, UncountedRequests, SumType DEF Accounted, TotalSize, Counting
<1>10. stats.total_queries_submitted \in Nat /\ stats.total_queries_in_batches \in Nat
  BY DEF TypeOK, StatsOK, StatsFields
<1>11. EveryQueryCounted' <=> stats'.total_queries_submitted =
                              stats'.total_queries_in_batches + TotalSize(Uncounted')
  BY DEF EveryQueryCounted, TotalSize
<1> HIDE DEF TotalSize, Uncounted
<1> QED
  BY <1>8, <1>9, <1>10, <1>11 DEF Accounted, EveryQueryCounted

(* Every other step leaves what is uncounted where it is or moves it.        *)
LEMMA NextAccounted == CountInv /\ Accounted /\ [Next]_vars => Accounted'
<1> SUFFICES ASSUME CountInv, Accounted, [Next]_vars PROVE Accounted'
  OBVIOUS
<1> USE Kinds DEF CountInv, HeldInv
<1>0. /\ DOMAIN pc = Threads /\ held \in [Workers -> Seq(Requests)]
      /\ DOMAIN promise = Requests /\ pending \in Seq(Requests)
      /\ remaining \in Seq(Requests)
  BY DEF TypeOK, PcOK, QueuesOK, PromisesOK
<1>1. CASE UNCHANGED <<pending, remaining, held, promise, stats>>
  BY <1>1, AccountKept DEF Uncounted, Queued
<1>2. ASSUME NEW c \in Clients, NEW r \in Requests, SubmitEmpty(c, r) \/ SubmitBegin(c, r)
      PROVE  Accounted'
  <2>1. /\ UNCHANGED <<pending, remaining, held, stats>>
        /\ promise[r] = "none" /\ promise'[r] \in {"value", "unset"}
        /\ \A q \in Requests \ {r} : promise'[q] = promise[q]
    BY <1>0, <1>2 DEF SubmitEmpty, SubmitBegin, queues
  <2>2. Uncounted' = Uncounted
    BY <2>1 DEF Uncounted, Queued
  <2> QED
    BY <2>1, <2>2, AccountKept
<1>3. ASSUME NEW c \in Clients, SubmitPush(c) PROVE Accounted'
  BY <1>3, PushAccounted
<1>4. ASSUME NEW c \in Clients, SubmitLock(c) \/ TakeFuture(c) \/ SubmitThrows(c)
                                \/ SubmitFaults(c) \/ Collect(c)
      PROVE  Accounted'
  BY <1>1, <1>4 DEF SubmitLock, TakeFuture, SubmitThrows, SubmitFaults, Collect, queues,
     promises
<1>5. ASSUME \/ LoopTest \/ WaitBegin \/ Park \/ WakeNotified \/ WakeTimeout \/ StopSeen
             \/ SampleNow \/ DispatchEnd
      PROVE  Accounted'
  BY <1>1, <1>5 DEF LoopTest, WaitBegin, Park, WakeNotified, WakeTimeout, StopSeen,
     SampleNow, DispatchEnd, queues, promises
<1>6. ASSUME DrainFront PROVE Accounted'
  <2> DEFINE h == Head(pending)
  <2>1. /\ pending # <<>> /\ pending' = Tail(pending) /\ UNCHANGED <<promise, stats>>
        /\ \/ /\ held' = [held EXCEPT ![Dispatcher] = Append(@, h)]
              /\ remaining' = remaining
           \/ remaining' = Append(remaining, h) /\ held' = held
    BY <1>6 DEF DrainFront, DispatchFront, KeepFront, promises
  <2>2. Range(pending) = Range(pending') \cup {h} /\ h \in Requests
    BY <1>0, <2>1, TakeFromQueue, HeadTailProperties
  <2> HIDE DEF h
  <2>3. ASSUME held' = [held EXCEPT ![Dispatcher] = Append(@, h)], remaining' = remaining
        PROVE  Uncounted' = Uncounted
    <3>1. /\ Range(held'[Dispatcher]) = Range(held[Dispatcher]) \cup {h}
          /\ \A w \in Workers \ {Dispatcher} : held'[w] = held[w]
      BY <1>0, <2>2, <2>3, AppendToQueue
    <3>2. InHands' = InHands \cup {h}
      BY <3>1, HandsTake
    <3>3. Uncounted' = (Range(pending') \cup Range(remaining)) \cup InHands'
                          \cup {r \in Requests : promise[r] = "broken"}
      BY <2>1, <2>3 DEF Uncounted, Queued, InHands
    <3> QED
      BY <2>2, <3>2, <3>3 DEF Uncounted, Queued, InHands
  <2>4. ASSUME remaining' = Append(remaining, h), held' = held
        PROVE  Uncounted' = Uncounted
    <3>1. Range(remaining') = Range(remaining) \cup {h}
      BY <1>0, <2>2, <2>4, AppendToQueue
    <3> QED
      BY <2>1, <2>2, <2>4, <3>1 DEF Uncounted, Queued
  <2> QED
    BY <2>1, <2>3, <2>4, AccountKept
<1>7. ASSUME DrainEnd PROVE Accounted'
  <2>1. /\ pending = <<>> /\ pending' = remaining /\ remaining' = <<>>
        /\ UNCHANGED <<held, promise, stats>>
    BY <1>7 DEF DrainEnd, promises
  <2>2. Uncounted' = Uncounted
    BY <2>1, EmptyQueue DEF Uncounted, Queued
  <2> QED
    BY <2>1, <2>2, AccountKept
<1>8. ASSUME LoopDispatch PROVE Accounted'
  BY <1>1, <1>8 DEF LoopDispatch, DispatchBatch, queues
<1>9. ASSUME NEW w \in Workers, FlushLock(w) \/ FlushDispatch(w) \/ FlushEnd(w)
      PROVE  Accounted'
  BY <1>1, <1>9 DEF FlushLock, FlushDispatch, FlushEnd, DispatchBatch, queues, promises
<1>10. ASSUME LoopCount PROVE Accounted'
  <2>1. /\ Counts(Dispatcher) /\ held' = [held EXCEPT ![Dispatcher] = Tail(@)]
        /\ UNCHANGED <<pending, remaining, promise>>
        /\ stats' = LoopCounted(Counting(Dispatcher))
    BY <1>10 DEF LoopCount, CountBatch, Move, At, promises, Counts
  <2>2. /\ stats'.total_queries_submitted = stats.total_queries_submitted
        /\ stats'.total_queries_in_batches =
              stats.total_queries_in_batches + Counting(Dispatcher)
    BY <2>1 DEF LoopCounted, TypeOK, StatsOK, StatsFields
  <2> QED
    BY <2>1, <2>2, BatchAccounted
<1>11. ASSUME NEW w \in Workers, FlushCount(w) PROVE Accounted'
  <2>1. /\ Counts(w) /\ held' = [held EXCEPT ![w] = Tail(@)]
        /\ UNCHANGED <<pending, remaining, promise>>
        /\ stats' = FlushCounted(Counting(w))
    BY <1>11 DEF FlushCount, CountBatch, Move, At, promises, Counts
  <2>2. /\ stats'.total_queries_submitted = stats.total_queries_submitted
        /\ stats'.total_queries_in_batches = stats.total_queries_in_batches + Counting(w)
    BY <2>1 DEF FlushCounted, TypeOK, StatsOK, StatsFields
  <2> QED
    BY <2>1, <2>2, BatchAccounted
<1>12. ASSUME NEW w \in Workers, FlushTake(w) PROVE Accounted'
  <2>1. /\ held[w] = <<>> /\ held' = [held EXCEPT ![w] = pending] /\ pending' = <<>>
        /\ UNCHANGED <<remaining, promise, stats>>
    BY <1>12 DEF FlushTake, HandsEmpty, promises, Move, At
  <2>2. /\ Range(held[w]) = {} /\ Range(held'[w]) = Range(pending) /\ Range(pending') = {}
        /\ \A v \in Workers \ {w} : held'[v] = held[v]
    BY <1>0, <2>1, EmptyQueue
  <2>3. InHands' = InHands \cup Range(pending)
    BY <2>2, HandsTake
  <2>4. Uncounted' = Uncounted
    <3>1. Uncounted' = Range(remaining) \cup InHands'
                          \cup {r \in Requests : promise[r] = "broken"}
      BY <2>1, <2>2 DEF Uncounted, Queued, InHands
    <3> QED
      BY <2>3, <3>1 DEF Uncounted, Queued, InHands
  <2> QED
    BY <2>1, <2>4, AccountKept
<1>13. ASSUME NEW r \in Requests, RunThen(r) PROVE Accounted'
  <2>1. /\ UNCHANGED <<pending, remaining, held, stats>> /\ cont[r] # "idle"
        /\ promise'[r] \in {"value", "error"}
        /\ \A q \in Requests \ {r} : promise'[q] = promise[q]
    BY <1>0, <1>13 DEF RunThen, queues
  <2>2. promise[r] = "unset"
    BY <2>1 DEF PromiseHeldOnce, HeldSomewhere
  <2>3. Uncounted' = Uncounted
    BY <2>1, <2>2 DEF Uncounted, Queued
  <2> QED
    BY <2>1, <2>3, AccountKept
<1>14. ASSUME (\E f \in Flushers : FlushCall(f)) \/ StopRunning \/ Stop PROVE Accounted'
  BY <1>1, <1>14 DEF FlushCall, StopRunning, Stop, StopNotify, StopJoin, queues, promises
<1>15. ASSUME Destroy PROVE Accounted'
  <2>1. /\ UNCHANGED <<remaining, held, stats>> /\ pending' = <<>>
        /\ promise' = [r \in Requests |->
                          IF r \in Range(pending) THEN "broken" ELSE promise[r]]
    BY <1>15 DEF Destroy
  <2>2. Range(pending) \subseteq Requests /\ Range(pending') = {}
    BY <1>0, <2>1, EmptyQueue DEF Range
  <2>3. {r \in Requests : promise'[r] = "broken"} =
           {r \in Requests : promise[r] = "broken"} \cup Range(pending)
    BY <2>1, <2>2
  <2>4. Uncounted' = Uncounted
    BY <2>1, <2>2, <2>3 DEF Uncounted, Queued
  <2> QED
    BY <2>1, <2>4, AccountKept
<1>16. CASE UNCHANGED vars
  BY <1>1, <1>16 DEF vars, queues, promises
<1> QED
  BY <1>2, <1>3, <1>4, <1>5, <1>6, <1>7, <1>8, <1>9, <1>10, <1>11, <1>12, <1>13, <1>14,
     <1>15, <1>16
  DEF Next, Submit, Loop, Flush

(* The statistics account for every query that submit() has counted.         *)
THEOREM QueriesAreCounted == Spec => []EveryQueryCounted
<1>1. ASSUME Init PROVE HeadsGone /\ Accounted
  <2>1. /\ pending = <<>> /\ remaining = <<>> /\ held = [w \in Workers |-> <<>>]
        /\ promise = [r \in Requests |-> "none"]
        /\ stats.total_queries_submitted = 0 /\ stats.total_queries_in_batches = 0
        /\ \A w \in Workers : ~Counts(w)
    BY <1>1, Kinds DEF Init, Counts
  <2>2. Uncounted = {}
    BY <2>1, EmptyQueue DEF Uncounted, Queued
  <2>3. TotalSize(Uncounted) = 0 /\ IsFiniteSet(Uncounted)
    BY <2>2, SumEmpty, FS_EmptySet DEF TotalSize
  <2> HIDE DEF TotalSize, Uncounted
  <2> QED
    BY <2>1, <2>3 DEF HeadsGone, Accounted, EveryQueryCounted
<1>2. CountInv /\ [Next]_vars => HeadsGone'
  BY NextHeads DEF CountInv
<1>3. HeldInv /\ HeadsGone => CountInv
  BY DEF CountInv
<1>4. Accounted => EveryQueryCounted
  BY DEF Accounted
<1> QED
  BY <1>1, <1>2, <1>3, <1>4, NextAccounted, AlwaysHeld, PTL DEF Spec

===============================================================================
