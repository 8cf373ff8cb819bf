------------------------- MODULE BatchStatisticsProofs -------------------------
(****************************************************************************)
(* Proofs about BatchStatistics, for any callers of flush(), readers, sizes *)
(* and numbers of batches.                                                  *)
(****************************************************************************)
EXTENDS BatchStatistics, FiniteSetTheorems, SequenceTheorems, TLAPS

-------------------------------------------------------------------------------
(* The places of a worker in the updates for its batch. *)
Toward == <<"in_batches", "sum", "count", "min?", "max?">>
ToSum  == <<"sum", "count", "min?", "max?">>
Summed == <<"count", "min?", "max?">>
ToMin  == <<"min?", "max?">>
Less   == <<"min", "max?">>
ToMax  == <<"max?">>
More   == <<"max">>

LoopStages == {LoopOrder, Toward, ToSum, Summed, ToMin, Less, ToMax, More, <<>>}

ToFlushIn    == <<"in_batches", "count">>
ToFlushCount == <<"count">>

FlushStages == {FlushOrder, ToFlushIn, ToFlushCount, <<>>}

(* The places of a reader in get_stats(). *)
Read6 == <<"dispatched", "in_batches", "count", "sum", "min", "max">>
Read5 == <<"in_batches", "count", "sum", "min", "max">>
Read4 == <<"count", "sum", "min", "max">>
Read3 == <<"sum", "min", "max">>
Read2 == <<"min", "max">>
Read1 == <<"max">>

ReadStages == {ReadOrder, Read6, Read5, Read4, Read3, Read2, Read1, <<>>}

StatsTyped ==
    /\ counters \in [Fields -> Int]
    /\ queue \in Seq(Sizes)
    /\ stopped \in BOOLEAN
    /\ size \in [Workers -> Int]
    /\ todo \in [Workers -> LoopStages \cup FlushStages]
    /\ \A w \in Workers : todo[w] # <<>> => size[w] \in Sizes
    /\ \A w \in Workers : w # Dispatcher \/ stopped = TRUE => todo[w] \in FlushStages
    /\ stopped = FALSE => todo[Dispatcher] \in LoopStages
    /\ reading \in [Readers -> ReadStages]
    /\ snap \in [Readers -> [Fields -> Int]]
    /\ flushed \in Nat
    /\ tested \subseteq Sizes

LEMMA SizesPositive == /\ Sizes \subseteq Int
                       /\ \A n \in Sizes : n >= 1 /\ n < INT64_MAX
                       /\ INT64_MAX \in Int /\ Dispatcher \in Workers
  BY StatisticsAssumption DEF Workers

LEMMA StagesDiffer ==
    /\ LoopOrder # <<>> /\ Toward # <<>> /\ ToSum # <<>> /\ Summed # <<>> /\ ToMin # <<>>
    /\ Less # <<>> /\ ToMax # <<>> /\ More # <<>> /\ FlushOrder # <<>>
    /\ ToFlushIn # <<>> /\ ToFlushCount # <<>>
    /\ \A s \in {LoopOrder, Toward, ToSum, ToMin, Less, ToMax, More, <<>>} \cup FlushStages : s # Summed
    /\ \A s \in {LoopOrder, Toward, ToSum, Summed, Less, ToMax, More, <<>>} \cup FlushStages : s # ToMin
    /\ \A s \in {LoopOrder, Toward, ToSum, Summed, ToMin, ToMax, More, <<>>} \cup FlushStages : s # Less
    /\ \A s \in {LoopOrder, Toward, ToSum, Summed, ToMin, Less, More, <<>>} \cup FlushStages : s # ToMax
    /\ \A s \in {LoopOrder, Toward, ToSum, Summed, ToMin, Less, ToMax, <<>>} \cup FlushStages : s # More
  BY DEF LoopOrder, Toward, ToSum, Summed, ToMin, Less, ToMax, More, FlushOrder, ToFlushIn,
     ToFlushCount, FlushStages

(* The first update of each place and the place after it. *)
LEMMA Updates ==
    /\ Head(LoopOrder) = "dispatched" /\ Tail(LoopOrder) = Toward
    /\ Head(Toward) = "in_batches" /\ Tail(Toward) = ToSum
    /\ Head(ToSum) = "sum" /\ Tail(ToSum) = Summed
    /\ Head(Summed) = "count" /\ Tail(Summed) = ToMin
    /\ Head(ToMin) = "min?" /\ Tail(ToMin) = ToMax
    /\ Head(Less) = "min" /\ Tail(Less) = ToMax
    /\ Head(ToMax) = "max?" /\ Tail(ToMax) = <<>>
    /\ Head(More) = "max" /\ Tail(More) = <<>>
    /\ Head(FlushOrder) = "dispatched" /\ Tail(FlushOrder) = ToFlushIn
    /\ Head(ToFlushIn) = "in_batches" /\ Tail(ToFlushIn) = ToFlushCount
    /\ Head(ToFlushCount) = "count" /\ Tail(ToFlushCount) = <<>>
<1>1. /\ Head(LoopOrder) = "dispatched" /\ Tail(LoopOrder) = Toward
      /\ Head(Toward) = "in_batches" /\ Tail(Toward) = ToSum
  BY DEF LoopOrder, Toward, ToSum
<1>2. /\ Head(ToSum) = "sum" /\ Tail(ToSum) = Summed
      /\ Head(Summed) = "count" /\ Tail(Summed) = ToMin
  BY DEF ToSum, Summed, ToMin
<1>3. /\ Head(ToMin) = "min?" /\ Tail(ToMin) = ToMax
      /\ Head(Less) = "min" /\ Tail(Less) = ToMax
      /\ Head(ToMax) = "max?" /\ Tail(ToMax) = <<>>
      /\ Head(More) = "max" /\ Tail(More) = <<>>
  BY DEF ToMin, Less, ToMax, More
<1>4. /\ Head(FlushOrder) = "dispatched" /\ Tail(FlushOrder) = ToFlushIn
      /\ Head(ToFlushIn) = "in_batches" /\ Tail(ToFlushIn) = ToFlushCount
      /\ Head(ToFlushCount) = "count" /\ Tail(ToFlushCount) = <<>>
  BY DEF FlushOrder, ToFlushIn, ToFlushCount
<1> QED
  BY <1>1, <1>2, <1>3, <1>4

LEMMA ReadOnwards ==
    /\ Head(ReadOrder) = "submitted" /\ Tail(ReadOrder) = Read6
    /\ Head(Read6) = "dispatched" /\ Tail(Read6) = Read5
    /\ Head(Read5) = "in_batches" /\ Tail(Read5) = Read4
    /\ Head(Read4) = "count" /\ Tail(Read4) = Read3
    /\ Head(Read3) = "sum" /\ Tail(Read3) = Read2
    /\ Head(Read2) = "min" /\ Tail(Read2) = Read1
    /\ Head(Read1) = "max" /\ Tail(Read1) = <<>>
<1>1. Head(ReadOrder) = "submitted" /\ Tail(ReadOrder) = Read6
  BY DEF ReadOrder, Read6
<1>2. Head(Read6) = "dispatched" /\ Tail(Read6) = Read5
  BY DEF Read5, Read6
<1>3. Head(Read5) = "in_batches" /\ Tail(Read5) = Read4
  BY DEF Read5, Read4
<1>4. /\ Head(Read4) = "count" /\ Tail(Read4) = Read3
      /\ Head(Read3) = "sum" /\ Tail(Read3) = Read2
  BY DEF Read4, Read3, Read2
<1>5. /\ Head(Read2) = "min" /\ Tail(Read2) = Read1
      /\ Head(Read1) = "max" /\ Tail(Read1) = <<>>
  BY DEF Read2, Read1
<1> QED
  BY <1>1, <1>2, <1>3, <1>4, <1>5

(* One update done. *)
Adds(w, from, to, f) ==
    /\ todo[w] = from
    /\ todo' = [todo EXCEPT ![w] = to]
    /\ counters' = [counters EXCEPT ![f] = counters[f] + Amount(w, f)]

LEMMA AddMoves ==
    ASSUME StatsTyped, NEW w \in Workers, Add(w)
    PROVE  \/ /\ w = Dispatcher /\ stopped = FALSE /\ flushed' = flushed
              /\ \/ Adds(w, LoopOrder, Toward, "dispatched")
                 \/ Adds(w, Toward, ToSum, "in_batches")
                 \/ Adds(w, ToSum, Summed, "sum")
                 \/ Adds(w, Summed, ToMin, "count")
           \/ /\ w # Dispatcher \/ stopped = TRUE
              /\ \/ Adds(w, FlushOrder, ToFlushIn, "dispatched") /\ flushed' = flushed
                 \/ Adds(w, ToFlushIn, ToFlushCount, "in_batches") /\ flushed' = flushed
                 \/ Adds(w, ToFlushCount, <<>>, "count") /\ flushed' = flushed + 1
<1> DEFINE f == Head(todo[w])
<1>1. /\ todo[w] # <<>> /\ f \in {"dispatched", "in_batches", "sum", "count"}
      /\ counters' = [counters EXCEPT ![f] = counters[f] + Amount(w, f)]
      /\ flushed' = IF f = "count" /\ (w # Dispatcher \/ stopped) THEN flushed + 1 ELSE flushed
      /\ todo' = [todo EXCEPT ![w] = Tail(todo[w])]
  BY DEF Add
<1>2. CASE w = Dispatcher /\ stopped = FALSE
  <2>1. todo[w] \in LoopStages \ {<<>>}
    BY <1>1, <1>2 DEF StatsTyped
  <2>2. \/ todo[w] = LoopOrder /\ f = "dispatched" /\ Tail(todo[w]) = Toward
        \/ todo[w] = Toward /\ f = "in_batches" /\ Tail(todo[w]) = ToSum
        \/ todo[w] = ToSum /\ f = "sum" /\ Tail(todo[w]) = Summed
        \/ todo[w] = Summed /\ f = "count" /\ Tail(todo[w]) = ToMin
    BY <1>1, <2>1, Updates DEF LoopStages
  <2> HIDE DEF f
  <2> QED
    BY <1>1, <1>2, <2>2 DEF Adds
<1>3. CASE w # Dispatcher \/ stopped = TRUE
  <2>1. todo[w] \in FlushStages \ {<<>>}
    BY <1>1, <1>3 DEF StatsTyped
  <2>2. \/ todo[w] = FlushOrder /\ f = "dispatched" /\ Tail(todo[w]) = ToFlushIn
        \/ todo[w] = ToFlushIn /\ f = "in_batches" /\ Tail(todo[w]) = ToFlushCount
        \/ todo[w] = ToFlushCount /\ f = "count" /\ Tail(todo[w]) = <<>>
    BY <2>1, Updates DEF FlushStages
  <2> HIDE DEF f
  <2> QED
    BY <1>1, <1>3, <2>2 DEF Adds
<1> QED
  BY <1>2, <1>3 DEF StatsTyped

LEMMA CompareMoves ==
    ASSUME StatsTyped, NEW w \in Workers, Compare(w)
    PROVE  /\ w = Dispatcher /\ stopped = FALSE
           /\ \/ /\ todo[w] = ToMin /\ tested' = tested
                 /\ todo' = [todo EXCEPT ![w] = IF size[w] < counters.min THEN Less ELSE ToMax]
              \/ /\ todo[w] = ToMax /\ tested' = tested \cup {size[w]}
                 /\ todo' = [todo EXCEPT ![w] = IF size[w] > counters.max THEN More ELSE <<>>]
<1>1. /\ todo[w] # <<>>
      /\ \/ /\ Head(todo[w]) = "min?" /\ tested' = tested
            /\ todo' = [todo EXCEPT ![w] = IF size[w] < counters.min
                                           THEN <<"min">> \o Tail(todo[w]) ELSE Tail(todo[w])]
         \/ /\ Head(todo[w]) = "max?" /\ tested' = tested \cup {size[w]}
            /\ todo' = [todo EXCEPT ![w] = IF size[w] > counters.max
                                           THEN <<"max">> \o Tail(todo[w]) ELSE Tail(todo[w])]
  BY DEF Compare
<1>2. ASSUME todo[w] \in FlushStages PROVE FALSE
  BY <1>1, <1>2, Updates DEF FlushStages
<1>3. w = Dispatcher /\ stopped = FALSE /\ todo[w] \in LoopStages \ {<<>>}
  BY <1>1, <1>2 DEF StatsTyped
<1>4. CASE Head(todo[w]) = "min?"
  <2>1. todo[w] = ToMin
    BY <1>3, <1>4, Updates DEF LoopStages
  <2>2. Tail(todo[w]) = ToMax
    BY <2>1, Updates
  <2>3. <<"min">> \o ToMax = Less
    <3>1. /\ <<"min">> \in Seq({"min", "max?"}) /\ ToMax \in Seq({"min", "max?"})
          /\ Len(<<"min">>) = 1 /\ Len(ToMax) = 1 /\ ToMax[1] = "max?"
      BY DEF ToMax
    <3>2. /\ <<"min">> \o ToMax \in Seq({"min", "max?"})
          /\ Len(<<"min">> \o ToMax) = 2
          /\ \A i \in 1..2 : (<<"min">> \o ToMax)[i] = IF i <= 1 THEN "min" ELSE ToMax[i - 1]
      BY <3>1, ConcatProperties
    <3>3. /\ Less \in Seq({"min", "max?"}) /\ Len(Less) = 2
          /\ Less[1] = "min" /\ Less[2] = "max?"
      BY DEF Less
    <3>4. \A i \in 1..2 : (<<"min">> \o ToMax)[i] = Less[i]
      BY <3>1, <3>2, <3>3
    <3> QED
      BY <3>2, <3>3, <3>4, SeqEqual
  <2> QED
    BY <1>1, <1>3, <1>4, <2>1, <2>2, <2>3
<1>5. CASE Head(todo[w]) = "max?"
  <2>1. todo[w] = ToMax
    BY <1>3, <1>5, Updates DEF LoopStages
  <2>2. Tail(todo[w]) = <<>> /\ <<"max">> \o Tail(todo[w]) = More
    BY <2>1 DEF ToMax, More
  <2> QED
    BY <1>1, <1>3, <1>5, <2>1, <2>2
<1> QED
  BY <1>1, <1>4, <1>5

LEMMA AssignMoves ==
    ASSUME StatsTyped, NEW w \in Workers, Assign(w)
    PROVE  /\ w = Dispatcher /\ stopped = FALSE
           /\ \/ /\ todo[w] = Less /\ todo' = [todo EXCEPT ![w] = ToMax]
                 /\ counters' = [counters EXCEPT !["min"] = size[w]]
              \/ /\ todo[w] = More /\ todo' = [todo EXCEPT ![w] = <<>>]
                 /\ counters' = [counters EXCEPT !["max"] = size[w]]
<1>1. /\ todo[w] # <<>> /\ Head(todo[w]) \in {"min", "max"}
      /\ counters' = [counters EXCEPT ![Head(todo[w])] = size[w]]
      /\ todo' = [todo EXCEPT ![w] = Tail(todo[w])]
  BY DEF Assign
<1>2. ASSUME todo[w] \in FlushStages PROVE FALSE
  BY <1>1, <1>2, Updates DEF FlushStages
<1>3. w = Dispatcher /\ stopped = FALSE /\ todo[w] \in LoopStages \ {<<>>}
  BY <1>1, <1>2 DEF StatsTyped
<1>4. \/ todo[w] = Less /\ Head(todo[w]) = "min" /\ Tail(todo[w]) = ToMax
      \/ todo[w] = More /\ Head(todo[w]) = "max" /\ Tail(todo[w]) = <<>>
  BY <1>1, <1>3, Updates DEF LoopStages
<1> QED
  BY <1>1, <1>3, <1>4

(* A batch is taken, at the first of the updates. *)
LEMMA TakeMoves ==
    ASSUME StatsTyped, NEW w \in Workers, Take(w)
    PROVE  /\ todo[w] = <<>> /\ Head(queue) \in Sizes /\ Tail(queue) \in Seq(Sizes)
           /\ size' = [size EXCEPT ![w] = Head(queue)] /\ queue' = Tail(queue)
           /\ \/ /\ w = Dispatcher /\ stopped = FALSE
                 /\ todo' = [todo EXCEPT ![w] = LoopOrder]
              \/ /\ w # Dispatcher \/ stopped = TRUE
                 /\ todo' = [todo EXCEPT ![w] = FlushOrder]
<1>1. /\ todo[w] = <<>> /\ queue # <<>>
      /\ size' = [size EXCEPT ![w] = Head(queue)] /\ queue' = Tail(queue)
      /\ todo' = [todo EXCEPT ![w] =
                     IF w = Dispatcher /\ ~stopped THEN LoopOrder ELSE FlushOrder]
  BY DEF Take
<1>2. Head(queue) \in Sizes /\ Tail(queue) \in Seq(Sizes)
  BY <1>1 DEF StatsTyped
<1>3. stopped = FALSE \/ stopped = TRUE
  BY DEF StatsTyped
<1> QED
  BY <1>1, <1>2, <1>3

(* One field read, or passed over. *)
LEMMA ReadMoves ==
    ASSUME StatsTyped, NEW r \in Readers, ReadField(r)
    PROVE  \E m \in {<<ReadOrder, Read6, "submitted">>, <<Read6, Read5, "dispatched">>,
                     <<Read5, Read4, "in_batches">>, <<Read4, Read3, "count">>,
                     <<Read3, Read2, "sum">>, <<Read2, Read1, "min">>, <<Read1, <<>>, "max">>} :
              /\ reading[r] = m[1] /\ reading' = [reading EXCEPT ![r] = m[2]]
              /\ IF m[3] = "sum" /\ snap[r].count = 0 THEN snap' = snap
                 ELSE snap' = [snap EXCEPT ![r][m[3]] = counters[m[3]]]
<1>1. /\ reading[r] # <<>> /\ reading' = [reading EXCEPT ![r] = Tail(reading[r])]
      /\ snap' = IF Head(reading[r]) = "sum" /\ snap[r].count = 0 THEN snap
                 ELSE [snap EXCEPT ![r][Head(reading[r])] = counters[Head(reading[r])]]
  BY DEF ReadField, Skips
<1>2. reading[r] \in ReadStages \ {<<>>}
  BY <1>1 DEF StatsTyped
<1>3. \/ reading[r] = ReadOrder /\ Tail(reading[r]) = Read6 /\ Head(reading[r]) = "submitted"
      \/ reading[r] = Read6 /\ Tail(reading[r]) = Read5 /\ Head(reading[r]) = "dispatched"
      \/ reading[r] = Read5 /\ Tail(reading[r]) = Read4 /\ Head(reading[r]) = "in_batches"
      \/ reading[r] = Read4 /\ Tail(reading[r]) = Read3 /\ Head(reading[r]) = "count"
      \/ reading[r] = Read3 /\ Tail(reading[r]) = Read2 /\ Head(reading[r]) = "sum"
      \/ reading[r] = Read2 /\ Tail(reading[r]) = Read1 /\ Head(reading[r]) = "min"
      \/ reading[r] = Read1 /\ Tail(reading[r]) = <<>> /\ Head(reading[r]) = "max"
  BY <1>2, ReadOnwards DEF ReadStages
<1> QED
  BY <1>1, <1>3

-------------------------------------------------------------------------------
(* Types *)
LEMMA WorkerTyped ==
    ASSUME StatsTyped, NEW w \in Workers, stopped' = stopped,
           NEW to \in LoopStages \cup FlushStages, todo' = [todo EXCEPT ![w] = to],
           to \in FlushStages \/ (w = Dispatcher /\ stopped = FALSE),
           to \in LoopStages \/ w # Dispatcher \/ stopped = TRUE
    PROVE  /\ todo' \in [Workers -> LoopStages \cup FlushStages]
           /\ \A v \in Workers : v # Dispatcher \/ stopped' = TRUE => todo'[v] \in FlushStages
           /\ stopped' = FALSE => todo'[Dispatcher] \in LoopStages
<1>1. todo \in [Workers -> LoopStages \cup FlushStages] /\ Dispatcher \in Workers
  BY SizesPositive DEF StatsTyped
<1>2. todo' \in [Workers -> LoopStages \cup FlushStages] /\ todo'[w] = to
      /\ \A v \in Workers \ {w} : todo'[v] = todo[v]
  BY <1>1
<1>3. ASSUME NEW v \in Workers, v # Dispatcher \/ stopped' = TRUE PROVE todo'[v] \in FlushStages
  <2>1. CASE v = w
    BY <1>2, <1>3, <2>1
  <2>2. CASE v # w
    BY <1>2, <1>3, <2>2 DEF StatsTyped
  <2> QED
    BY <2>1, <2>2
<1>4. ASSUME stopped' = FALSE PROVE todo'[Dispatcher] \in LoopStages
  <2>1. CASE w = Dispatcher
    BY <1>2, <1>4, <2>1
  <2>2. CASE w # Dispatcher
    BY <1>1, <1>2, <1>4, <2>2 DEF StatsTyped
  <2> QED
    BY <2>1, <2>2
<1> QED
  BY <1>2, <1>3, <1>4

LEMMA AddTyped == ASSUME StatsTyped, NEW w \in Workers, Add(w) PROVE StatsTyped'
<1>1. PICK from \in (LoopStages \cup FlushStages) \ {<<>>},
           to \in LoopStages \cup FlushStages, f \in Fields :
        /\ Adds(w, from, to, f)
        /\ to \in FlushStages \/ (w = Dispatcher /\ stopped = FALSE)
        /\ to \in LoopStages \/ w # Dispatcher \/ stopped = TRUE
  BY AddMoves, StagesDiffer DEF LoopStages, FlushStages, Fields
<1>2. flushed' \in Nat
  <2>1. flushed' \in {flushed, flushed + 1} /\ flushed \in Nat
    BY DEF Add, StatsTyped
  <2> QED
    BY <2>1
<1>3. UNCHANGED <<queue, stopped, size, reading, snap, tested>>
  BY DEF Add
<1>4. Amount(w, f) \in Int
  BY <1>1 DEF Amount, StatsTyped
<1>5. counters' \in [Fields -> Int]
  BY <1>1, <1>4 DEF Adds, StatsTyped
<1>6. todo' = [todo EXCEPT ![w] = to] /\ todo[w] # <<>>
  BY <1>1 DEF Adds
<1>7. \A v \in Workers : todo'[v] # <<>> => todo[v] # <<>>
  BY <1>6 DEF StatsTyped
<1>8. /\ todo' \in [Workers -> LoopStages \cup FlushStages]
      /\ \A v \in Workers : v # Dispatcher \/ stopped' = TRUE => todo'[v] \in FlushStages
      /\ stopped' = FALSE => todo'[Dispatcher] \in LoopStages
  BY <1>1, <1>3, <1>6, WorkerTyped
<1> QED
  BY <1>2, <1>3, <1>5, <1>7, <1>8 DEF StatsTyped

LEMMA DispatcherTyped ==
    ASSUME StatsTyped, Compare(Dispatcher) \/ Assign(Dispatcher), stopped = FALSE
    PROVE  StatsTyped'
<1>0. Dispatcher \in Workers
  BY SizesPositive
<1>1. PICK to \in LoopStages : /\ todo' = [todo EXCEPT ![Dispatcher] = to]
                              /\ todo[Dispatcher] # <<>>
  BY <1>0, CompareMoves, AssignMoves, StagesDiffer DEF LoopStages
<1>2. UNCHANGED <<queue, stopped, size, reading, snap, flushed>>
  BY DEF Compare, Assign
<1>3. size[Dispatcher] \in Sizes /\ size[Dispatcher] \in Int
  BY <1>0, <1>1 DEF StatsTyped
<1>4. counters' \in [Fields -> Int]
  <2>1. CASE Compare(Dispatcher)
    BY <2>1 DEF Compare, StatsTyped
  <2>2. CASE Assign(Dispatcher)
    BY <1>0, <1>3, <2>2, AssignMoves DEF StatsTyped
  <2> QED
    BY <2>1, <2>2
<1>5. tested' \subseteq Sizes
  <2>1. CASE Compare(Dispatcher)
    BY <1>0, <1>3, <2>1, CompareMoves DEF StatsTyped
  <2>2. CASE Assign(Dispatcher)
    BY <2>2 DEF Assign, StatsTyped
  <2> QED
    BY <2>1, <2>2
<1>6. \A v \in Workers : todo'[v] # <<>> => todo[v] # <<>>
  BY <1>1 DEF StatsTyped
<1>7. /\ todo' \in [Workers -> LoopStages \cup FlushStages]
      /\ \A v \in Workers : v # Dispatcher \/ stopped' = TRUE => todo'[v] \in FlushStages
      /\ stopped' = FALSE => todo'[Dispatcher] \in LoopStages
  BY <1>0, <1>1, <1>2, WorkerTyped
<1> QED
  BY <1>2, <1>4, <1>5, <1>6, <1>7 DEF StatsTyped

LEMMA TakeTyped == ASSUME StatsTyped, NEW w \in Workers, Take(w) PROVE StatsTyped'
<1>1. UNCHANGED <<counters, stopped, reading, snap, flushed, tested>>
  BY DEF Take
<1>2. PICK to \in {LoopOrder, FlushOrder} :
        /\ todo' = [todo EXCEPT ![w] = to]
        /\ to \in FlushStages \/ (w = Dispatcher /\ stopped = FALSE)
        /\ to \in LoopStages \/ w # Dispatcher \/ stopped = TRUE
  BY TakeMoves DEF LoopStages, FlushStages
<1>3. /\ todo' \in [Workers -> LoopStages \cup FlushStages]
      /\ \A v \in Workers : v # Dispatcher \/ stopped' = TRUE => todo'[v] \in FlushStages
      /\ stopped' = FALSE => todo'[Dispatcher] \in LoopStages
  BY <1>1, <1>2, WorkerTyped DEF LoopStages, FlushStages
<1>4. /\ Head(queue) \in Sizes /\ Head(queue) \in Int /\ queue' \in Seq(Sizes)
      /\ size' = [size EXCEPT ![w] = Head(queue)]
  BY TakeMoves, SizesPositive
<1>5. size' \in [Workers -> Int] /\ \A v \in Workers : todo'[v] # <<>> => size'[v] \in Sizes
  BY <1>2, <1>4 DEF StatsTyped
<1> QED
  BY <1>1, <1>3, <1>4, <1>5 DEF StatsTyped

LEMMA ReadTyped == ASSUME StatsTyped, NEW r \in Readers, ReadField(r) PROVE StatsTyped'
<1>1. PICK to \in ReadStages, f \in Fields :
        /\ reading' = [reading EXCEPT ![r] = to]
        /\ snap' = snap \/ snap' = [snap EXCEPT ![r][f] = counters[f]]
  BY ReadMoves DEF ReadStages, Fields
<1>2. counters[f] \in Int
  BY DEF StatsTyped
<1>3. snap' \in [Readers -> [Fields -> Int]] /\ reading' \in [Readers -> ReadStages]
  <2>1. [snap[r] EXCEPT ![f] = counters[f]] \in [Fields -> Int]
    BY <1>2 DEF StatsTyped
  <2>2. snap' = snap \/ snap' = [snap EXCEPT ![r] = [snap[r] EXCEPT ![f] = counters[f]]]
    BY <1>1
  <2> QED
    BY <1>1, <2>1, <2>2 DEF StatsTyped
<1>4. UNCHANGED <<counters, queue, stopped, size, todo, flushed, tested>>
  BY DEF ReadField
<1> QED
  BY <1>3, <1>4 DEF StatsTyped

LEMMA StatsTypedNext == StatsTyped /\ [Next]_svars => StatsTyped'
<1> SUFFICES ASSUME StatsTyped, [Next]_svars PROVE StatsTyped'
  OBVIOUS
<1>1. ASSUME NEW n \in Sizes, Submit(n) PROVE StatsTyped'
  <2>1. UNCHANGED <<stopped, size, todo, reading, snap, flushed, tested>>
    BY <1>1 DEF Submit
  <2>2. queue' \in Seq(Sizes)
    BY <1>1 DEF Submit, StatsTyped
  <2>3. counters' \in [Fields -> Int]
    <3>1. counters["submitted"] + n \in Int
      BY SizesPositive DEF StatsTyped, Fields
    <3>2. counters' = [counters EXCEPT !["submitted"] = counters["submitted"] + n]
      BY <1>1 DEF Submit
    <3> QED
      BY <3>1, <3>2 DEF StatsTyped
  <2> QED
    BY <2>1, <2>2, <2>3 DEF StatsTyped
<1>2. ASSUME NEW w \in Workers, Take(w) \/ Add(w) \/ Compare(w) \/ Assign(w)
      PROVE  StatsTyped'
  <2>1. Compare(w) \/ Assign(w) => w = Dispatcher /\ stopped = FALSE
    BY CompareMoves, AssignMoves
  <2> QED
    BY <1>2, <2>1, TakeTyped, AddTyped, DispatcherTyped
<1>3. CASE StopLoop
  <2>1. /\ stopped' = TRUE /\ todo[Dispatcher] = <<>>
        /\ UNCHANGED <<counters, queue, size, todo, reading, snap, flushed, tested>>
    BY <1>3 DEF StopLoop
  <2>2. \A w \in Workers : todo[w] \in FlushStages
    BY <2>1 DEF StatsTyped, FlushStages
  <2> QED
    BY <2>1, <2>2 DEF StatsTyped
<1>4. ASSUME NEW r \in Readers, GetStats(r) PROVE StatsTyped'
  <2>1. UNCHANGED <<counters, queue, stopped, size, todo, flushed, tested>>
    BY <1>4 DEF GetStats
  <2>2. ReadOrder \in ReadStages /\ Blank \in [Fields -> Int]
    BY DEF ReadStages, Blank
  <2>3. reading' \in [Readers -> ReadStages] /\ snap' \in [Readers -> [Fields -> Int]]
    BY <1>4, <2>2 DEF GetStats, StatsTyped
  <2> QED
    BY <2>1, <2>3 DEF StatsTyped
<1>5. CASE UNCHANGED svars
  BY <1>5 DEF svars, StatsTyped
<1> QED
  BY <1>1, <1>2, <1>3, <1>4, <1>5, ReadTyped DEF Next

LEMMA StatsTypedInit == Init => StatsTyped
<1> SUFFICES ASSUME Init PROVE StatsTyped
  OBVIOUS
<1>1. counters \in [Fields -> Int] /\ snap \in [Readers -> [Fields -> Int]]
  BY StatisticsAssumption DEF Init, Fresh, Blank
<1>2. <<>> \in LoopStages /\ <<>> \in FlushStages /\ <<>> \in ReadStages /\ <<>> \in Seq(Sizes)
  BY DEF LoopStages, FlushStages, ReadStages
<1>3. Dispatcher \in Workers
  BY SizesPositive
<1>4. /\ size \in [Workers -> Int] /\ todo \in [Workers -> LoopStages \cup FlushStages]
      /\ reading \in [Readers -> ReadStages]
      /\ \A w \in Workers : todo[w] = <<>>
  BY <1>2 DEF Init
<1> QED
  BY <1>1, <1>2, <1>3, <1>4 DEF Init, StatsTyped

-------------------------------------------------------------------------------
(* What the workers do to the four counters behind the averages and the      *)
(* extremes: the dispatcher goes through the phases of its loop for the      *)
(* batch in hand, and all that flush() does is to count a batch.             *)
Place == todo[Dispatcher]
Hand  == size[Dispatcher]

Phase ==
    IF Place = Summed THEN "summed" ELSE IF Place = ToMin THEN "counted"
    ELSE IF Place = Less THEN "less" ELSE IF Place = ToMax THEN "tested"
    ELSE IF Place = More THEN "more" ELSE "out"

Kept(fields) == \A f \in fields : counters'[f] = counters[f]

From(phase, next) == Phase = phase /\ Phase' = next /\ Hand' = Hand /\ Hand \in Sizes

KeepsPhase == Phase' = Phase /\ (Phase # "out" => Hand' = Hand)

Unconcerned ==
    KeepsPhase /\ Kept({"sum", "count", "min", "max"}) /\ tested' = tested /\ flushed' = flushed

FlushCounts ==
    /\ KeepsPhase /\ Kept({"sum", "min", "max"}) /\ tested' = tested
    /\ counters'.count = counters.count + 1 /\ flushed' = flushed + 1

LoopSums ==
    /\ From("out", "summed") /\ Kept({"count", "min", "max"}) /\ tested' = tested
    /\ counters'.sum = counters.sum + Hand /\ flushed' = flushed

LoopCounts ==
    /\ From("summed", "counted") /\ Kept({"sum", "min", "max"}) /\ tested' = tested
    /\ counters'.count = counters.count + 1 /\ flushed' = flushed

LoopTestsMin ==
    /\ From("counted", IF Hand < counters.min THEN "less" ELSE "tested")
    /\ Kept({"sum", "count", "min", "max"}) /\ tested' = tested /\ flushed' = flushed

LoopSetsMin ==
    /\ From("less", "tested") /\ Kept({"sum", "count", "max"}) /\ tested' = tested
    /\ counters'.min = Hand /\ flushed' = flushed

LoopTestsMax ==
    /\ From("tested", IF Hand > counters.max THEN "more" ELSE "out")
    /\ Kept({"sum", "count", "min", "max"}) /\ tested' = tested \cup {Hand}
    /\ flushed' = flushed

LoopSetsMax ==
    /\ From("more", "out") /\ Kept({"sum", "count", "min"}) /\ tested' = tested
    /\ counters'.max = Hand /\ flushed' = flushed

CoreStep ==
    \/ Unconcerned \/ FlushCounts \/ LoopSums \/ LoopCounts
    \/ LoopTestsMin \/ LoopSetsMin \/ LoopTestsMax \/ LoopSetsMax

LEMMA PhaseOf ==
    /\ Place = Summed => Phase = "summed"
    /\ Place = ToMin => Phase = "counted"
    /\ Place = Less => Phase = "less"
    /\ Place = ToMax => Phase = "tested"
    /\ Place = More => Phase = "more"
    /\ Place \in {LoopOrder, Toward, ToSum, <<>>} \cup FlushStages => Phase = "out"
<1>1. /\ ToMin # Summed /\ Less # Summed /\ Less # ToMin /\ ToMax # Summed /\ ToMax # ToMin
      /\ ToMax # Less /\ More # Summed /\ More # ToMin /\ More # Less /\ More # ToMax
  BY StagesDiffer DEF FlushStages
<1>2. \A s \in {LoopOrder, Toward, ToSum, <<>>} \cup FlushStages :
         s # Summed /\ s # ToMin /\ s # Less /\ s # ToMax /\ s # More
  BY StagesDiffer
<1> QED
  BY <1>1, <1>2 DEF Phase

LEMMA PhaseOfNext ==
    /\ Place' = Summed => Phase' = "summed"
    /\ Place' = ToMin => Phase' = "counted"
    /\ Place' = Less => Phase' = "less"
    /\ Place' = ToMax => Phase' = "tested"
    /\ Place' = More => Phase' = "more"
    /\ Place' \in {LoopOrder, Toward, ToSum, <<>>} \cup FlushStages => Phase' = "out"
<1>1. /\ ToMin # Summed /\ Less # Summed /\ Less # ToMin /\ ToMax # Summed /\ ToMax # ToMin
      /\ ToMax # Less /\ More # Summed /\ More # ToMin /\ More # Less /\ More # ToMax
  BY StagesDiffer DEF FlushStages
<1>2. \A s \in {LoopOrder, Toward, ToSum, <<>>} \cup FlushStages :
         s # Summed /\ s # ToMin /\ s # Less /\ s # ToMax /\ s # More
  BY StagesDiffer
<1> QED
  BY <1>1, <1>2 DEF Phase

(* A step of another worker than the dispatcher leaves the phase alone.      *)
LEMMA OthersKeepPhase ==
    ASSUME StatsTyped, NEW w \in Workers \ {Dispatcher}, NEW to,
           todo' = [todo EXCEPT ![w] = to],
           size' = size \/ \E n : size' = [size EXCEPT ![w] = n]
    PROVE  KeepsPhase
<1>1. Place' = Place /\ Hand' = Hand
  BY SizesPositive DEF StatsTyped, Place, Hand
<1> QED
  BY <1>1 DEF KeepsPhase, Phase

LEMMA AddCore == ASSUME StatsTyped, NEW w \in Workers, Add(w) PROVE CoreStep
<1>0. tested' = tested /\ size' = size
  BY DEF Add
<1>1. counters \in [Fields -> Int] /\ Dispatcher \in Workers /\ todo \in [Workers -> LoopStages \cup FlushStages]
  BY SizesPositive DEF StatsTyped
<1>2. ASSUME NEW from, NEW to, NEW f \in {"dispatched", "in_batches"}, Adds(w, from, to, f),
             flushed' = flushed,
             w # Dispatcher \/ (/\ from \in {LoopOrder, Toward, ToSum, <<>>} \cup FlushStages
                               /\ to \in {LoopOrder, Toward, ToSum, <<>>} \cup FlushStages)
      PROVE  CoreStep
  <2>1. Kept({"sum", "count", "min", "max"})
    BY <1>1, <1>2 DEF Adds, Kept, Fields
  <2>2. KeepsPhase
    <3>1. CASE w # Dispatcher
      BY <1>0, <1>2, <3>1, OthersKeepPhase DEF Adds
    <3>2. CASE w = Dispatcher
      <4>1. Place = from /\ Place' = to
        BY <1>1, <1>2, <3>2 DEF Adds, Place
      <4> QED
        BY <1>2, <3>2, <4>1, PhaseOf, PhaseOfNext DEF KeepsPhase
    <3> QED
      BY <3>1, <3>2
  <2> QED
    BY <1>0, <1>2, <2>1, <2>2 DEF CoreStep, Unconcerned
<1>3. CASE w = Dispatcher /\ Adds(w, ToSum, Summed, "sum") /\ flushed' = flushed
  <2>1. Place = ToSum /\ Place' = Summed /\ Hand \in Sizes /\ Hand' = Hand
    BY <1>0, <1>1, <1>3, StagesDiffer DEF Adds, Place, Hand, StatsTyped
  <2>2. Phase = "out" /\ Phase' = "summed"
    BY <2>1, PhaseOf, PhaseOfNext
  <2>3. counters'.sum = counters.sum + Hand /\ Kept({"count", "min", "max"})
    BY <1>1, <1>3 DEF Adds, Kept, Fields, Amount, Hand
  <2> QED
    BY <1>0, <1>3, <2>1, <2>2, <2>3 DEF CoreStep, LoopSums, From
<1>4. CASE w = Dispatcher /\ Adds(w, Summed, ToMin, "count") /\ flushed' = flushed
  <2>1. Place = Summed /\ Place' = ToMin /\ Hand \in Sizes /\ Hand' = Hand
    BY <1>0, <1>1, <1>4, StagesDiffer DEF Adds, Place, Hand, StatsTyped
  <2>2. Phase = "summed" /\ Phase' = "counted"
    BY <2>1, PhaseOf, PhaseOfNext
  <2>3. counters'.count = counters.count + 1 /\ Kept({"sum", "min", "max"})
    BY <1>1, <1>4 DEF Adds, Kept, Fields, Amount
  <2> QED
    BY <1>0, <1>4, <2>1, <2>2, <2>3 DEF CoreStep, LoopCounts, From
<1>5. CASE Adds(w, ToFlushCount, <<>>, "count") /\ flushed' = flushed + 1
  <2>1. KeepsPhase
    <3>1. CASE w # Dispatcher
      BY <1>0, <1>5, <3>1, OthersKeepPhase DEF Adds
    <3>2. CASE w = Dispatcher
      <4>1. Place = ToFlushCount /\ Place' = <<>>
        BY <1>1, <1>5, <3>2 DEF Adds, Place
      <4> QED
        BY <4>1, PhaseOf, PhaseOfNext DEF KeepsPhase, FlushStages
    <3> QED
      BY <3>1, <3>2
  <2>2. counters'.count = counters.count + 1 /\ Kept({"sum", "min", "max"})
    BY <1>1, <1>5 DEF Adds, Kept, Fields, Amount
  <2> QED
    BY <1>0, <1>5, <2>1, <2>2 DEF CoreStep, FlushCounts
<1>6. CASE /\ w = Dispatcher /\ flushed' = flushed
           /\ Adds(w, LoopOrder, Toward, "dispatched") \/ Adds(w, Toward, ToSum, "in_batches")
  BY <1>2, <1>6
<1>7. CASE /\ Adds(w, FlushOrder, ToFlushIn, "dispatched") \/ Adds(w, ToFlushIn, ToFlushCount, "in_batches")
           /\ flushed' = flushed
  BY <1>2, <1>7 DEF FlushStages
<1> QED
  BY <1>3, <1>4, <1>5, <1>6, <1>7, AddMoves

LEMMA TestCore == ASSUME StatsTyped, NEW w \in Workers, Compare(w) \/ Assign(w) PROVE CoreStep
<1>0. /\ w = Dispatcher /\ size' = size /\ flushed' = flushed
      /\ counters \in [Fields -> Int] /\ todo \in [Workers -> LoopStages \cup FlushStages]
      /\ Dispatcher \in Workers
  BY CompareMoves, AssignMoves, SizesPositive DEF Compare, Assign, StatsTyped
<1>1. Hand' = Hand /\ size[w] = Hand /\ todo[w] = Place
  BY <1>0 DEF Hand, Place
<1>2. todo[w] # <<>> => Hand \in Sizes
  BY <1>0, <1>1 DEF StatsTyped
<1>3. ASSUME NEW to, todo' = [todo EXCEPT ![w] = to] PROVE Place' = to
  BY <1>0, <1>3 DEF Place
<1>4. CASE Compare(w)
  <2>1. Kept({"sum", "count", "min", "max"})
    BY <1>4 DEF Compare, Kept
  <2>2. CASE /\ todo[w] = ToMin /\ tested' = tested
             /\ todo' = [todo EXCEPT ![w] = IF size[w] < counters.min THEN Less ELSE ToMax]
    <3>1. Place = ToMin /\ Place' = (IF Hand < counters.min THEN Less ELSE ToMax) /\ Hand \in Sizes
      BY <1>1, <1>2, <1>3, <2>2, StagesDiffer
    <3>2. Phase = "counted" /\ Phase' = IF Hand < counters.min THEN "less" ELSE "tested"
      BY <3>1, PhaseOf, PhaseOfNext
    <3> QED
      BY <1>0, <1>1, <2>1, <2>2, <3>1, <3>2 DEF CoreStep, LoopTestsMin, From
  <2>3. CASE /\ todo[w] = ToMax /\ tested' = tested \cup {size[w]}
             /\ todo' = [todo EXCEPT ![w] = IF size[w] > counters.max THEN More ELSE <<>>]
    <3>1. Place = ToMax /\ Place' = (IF Hand > counters.max THEN More ELSE <<>>) /\ Hand \in Sizes
      BY <1>1, <1>2, <1>3, <2>3, StagesDiffer
    <3>2. Phase = "tested" /\ Phase' = IF Hand > counters.max THEN "more" ELSE "out"
      BY <3>1, PhaseOf, PhaseOfNext
    <3> QED
      BY <1>0, <1>1, <2>1, <2>3, <3>1, <3>2 DEF CoreStep, LoopTestsMax, From
  <2> QED
    BY <1>4, <2>2, <2>3, CompareMoves
<1>5. CASE Assign(w)
  <2>1. tested' = tested
    BY <1>5 DEF Assign
  <2>2. CASE /\ todo[w] = Less /\ todo' = [todo EXCEPT ![w] = ToMax]
             /\ counters' = [counters EXCEPT !["min"] = size[w]]
    <3>1. Place = Less /\ Place' = ToMax /\ Hand \in Sizes
      BY <1>1, <1>2, <1>3, <2>2, StagesDiffer
    <3>2. Phase = "less" /\ Phase' = "tested"
      BY <3>1, PhaseOf, PhaseOfNext
    <3>3. counters'.min = Hand /\ Kept({"sum", "count", "max"})
      BY <1>0, <1>1, <2>2 DEF Kept, Fields
    <3> QED
      BY <1>0, <1>1, <2>1, <3>1, <3>2, <3>3 DEF CoreStep, LoopSetsMin, From
  <2>3. CASE /\ todo[w] = More /\ todo' = [todo EXCEPT ![w] = <<>>]
             /\ counters' = [counters EXCEPT !["max"] = size[w]]
    <3>1. Place = More /\ Place' = <<>> /\ Hand \in Sizes
      BY <1>1, <1>2, <1>3, <2>3, StagesDiffer
    <3>2. Phase = "more" /\ Phase' = "out"
      BY <3>1, PhaseOf, PhaseOfNext
    <3>3. counters'.max = Hand /\ Kept({"sum", "count", "min"})
      BY <1>0, <1>1, <2>3 DEF Kept, Fields
    <3> QED
      BY <1>0, <1>1, <2>1, <3>1, <3>2, <3>3 DEF CoreStep, LoopSetsMax, From
  <2> QED
    BY <1>5, <2>2, <2>3, AssignMoves
<1> QED
  BY <1>4, <1>5

LEMMA CoreSteps == StatsTyped /\ [Next]_svars => CoreStep
<1> SUFFICES ASSUME StatsTyped, [Next]_svars PROVE CoreStep
  OBVIOUS
<1>1. ASSUME UNCHANGED <<todo, size, tested, flushed>>, Kept({"sum", "count", "min", "max"})
      PROVE  CoreStep
  BY <1>1 DEF CoreStep, Unconcerned, KeepsPhase, Phase, Place, Hand
<1>2. ASSUME NEW n \in Sizes, Submit(n) PROVE CoreStep
  <2>1. Kept({"sum", "count", "min", "max"})
    BY <1>2 DEF Submit, Kept, StatsTyped, Fields
  <2> QED
    BY <1>1, <1>2, <2>1 DEF Submit
<1>3. ASSUME NEW w \in Workers, Take(w) PROVE CoreStep
  <2>1. Kept({"sum", "count", "min", "max"}) /\ tested' = tested /\ flushed' = flushed
    BY <1>3 DEF Take, Kept
  <2>2. PICK to \in {LoopOrder, FlushOrder} :
          /\ todo[w] = <<>> /\ todo' = [todo EXCEPT ![w] = to]
          /\ size' = [size EXCEPT ![w] = Head(queue)]
    BY <1>3, TakeMoves
  <2>3. KeepsPhase
    <3>1. CASE w # Dispatcher
      BY <2>2, <3>1, OthersKeepPhase
    <3>2. CASE w = Dispatcher
      <4>1. Place = <<>> /\ Place' = to
        BY <2>2, <3>2, SizesPositive DEF StatsTyped, Place
      <4>2. Phase = "out" /\ Phase' = "out"
        BY <2>2, <4>1, PhaseOf, PhaseOfNext DEF FlushStages
      <4> QED
        BY <4>2 DEF KeepsPhase
    <3> QED
      BY <3>1, <3>2
  <2> QED
    BY <2>1, <2>3 DEF CoreStep, Unconcerned
<1>4. CASE \/ StopLoop \/ UNCHANGED svars
           \/ \E r \in Readers : GetStats(r) \/ ReadField(r)
  BY <1>1, <1>4 DEF StopLoop, svars, GetStats, ReadField, Kept
<1> QED
  BY <1>2, <1>3, <1>4, AddCore, TestCore DEF Next

-------------------------------------------------------------------------------
(* Arithmetic *)
LEMMA OneMore == ASSUME NEW a \in Int, NEW b \in Int
                 PROVE  a * (b + 1) = a * b + a /\ a * b \in Int /\ (b + 1) * a = b * a + a
  OBVIOUS

LEMMA TimesMonotone ==
    ASSUME NEW a \in Int, NEW b \in Int, NEW n \in Nat, a <= b
    PROVE  a * n <= b * n /\ n * a <= n * b
  OBVIOUS

LEMMA SmallestOK == Smallest \in Sizes /\ Smallest \in Nat /\ \A n \in Sizes : Smallest <= n
<1>1. Sizes \subseteq Nat /\ Sizes # {}
  BY StatisticsAssumption
<1>2. PICK n \in Sizes : \A m \in Sizes : ~(<<m, n>> \in OpToRel(<, Nat))
  BY <1>1, NatLessThanWellFounded, WFMin
<1>3. \A m \in Sizes : ~(m < n)
  BY <1>1, <1>2 DEF OpToRel
<1>4. \E k \in Sizes : \A m \in Sizes : k <= m
  BY <1>1, <1>3
<1> QED
  BY <1>1, <1>4 DEF Smallest

-------------------------------------------------------------------------------
(* The extremes: what the dispatcher has still to do for its batch.          *)
ExtremesInv ==
    /\ \/ counters.min \in tested \cup {INT64_MAX}
       \/ Phase \in {"tested", "more"} /\ counters.min = Hand
    /\ counters.max \in tested \cup {0}
    /\ \A n \in tested :
          counters.min <= n /\ (n <= counters.max \/ (Phase = "more" /\ n = Hand))
    /\ Phase \in {"tested", "more"} => counters.min <= Hand
    /\ Phase = "less" => Hand < counters.min
    /\ Phase = "more" => Hand \in tested /\ counters.max < Hand

(* The counters in step, as long as flush() has counted nothing: what is in  *)
(* the sum and what is in the count of the batch in hand.                    *)
InSum   == IF Phase = "out" THEN 0 ELSE Hand
InCount == IF Phase \in {"out", "summed"} THEN 0 ELSE 1

AverageInv ==
    flushed = 0 =>
        /\ counters.count >= InCount
        /\ counters.min * (counters.count - InCount) <= counters.sum - InSum
        /\ counters.sum - InSum <= counters.max * (counters.count - InCount)

(* The sum has at least the smallest size for every batch the loop counted.  *)
SumInv ==
    counters.sum >= Smallest * (counters.count - flushed + IF Phase = "summed" THEN 1 ELSE 0)

CoreInv == StatsTyped /\ ExtremesInv /\ AverageInv /\ SumInv

LEMMA CoreTyped ==
    ASSUME StatsTyped
    PROVE  /\ counters.sum \in Int /\ counters.count \in Int /\ counters.min \in Int
           /\ counters.max \in Int /\ Hand \in Int /\ flushed \in Int /\ flushed >= 0
           /\ tested \subseteq Int
  BY SizesPositive DEF StatsTyped, Fields, Hand

LEMMA ExtremesNext ==
    ASSUME StatsTyped, StatsTyped', ExtremesInv, CoreStep
    PROVE  ExtremesInv'
<1> USE CoreTyped, SizesPositive
<1>1. CASE Unconcerned \/ FlushCounts
  BY <1>1 DEF Unconcerned, FlushCounts, KeepsPhase, Kept, ExtremesInv
<1>2. CASE LoopSums \/ LoopCounts
  BY <1>2 DEF LoopSums, LoopCounts, From, Kept, ExtremesInv
<1>3. CASE LoopTestsMin
  BY <1>3 DEF LoopTestsMin, From, Kept, ExtremesInv
<1>4. CASE LoopSetsMin
  BY <1>4 DEF LoopSetsMin, From, Kept, ExtremesInv
<1>5. CASE LoopTestsMax
  BY <1>5 DEF LoopTestsMax, From, Kept, ExtremesInv
<1>6. CASE LoopSetsMax
  BY <1>6 DEF LoopSetsMax, From, Kept, ExtremesInv
<1> QED
  BY <1>1, <1>2, <1>3, <1>4, <1>5, <1>6 DEF CoreStep

LEMMA SumNext ==
    ASSUME StatsTyped, StatsTyped', SumInv, CoreStep
    PROVE  SumInv'
<1> USE CoreTyped, SmallestOK
<1> DEFINE c == counters.count - flushed
<1>1. CASE LoopSums
  <2>1. /\ counters'.sum = counters.sum + Hand /\ Hand >= Smallest
        /\ counters'.count = counters.count /\ flushed' = flushed
        /\ Phase = "out" /\ Phase' = "summed"
    BY <1>1 DEF LoopSums, From, Kept
  <2>2. counters.sum >= Smallest * (c + 0)
    BY <2>1 DEF SumInv
  <2>3. c \in Int /\ c + 0 = c /\ Smallest * (c + 1) = Smallest * c + Smallest /\ Smallest * c \in Int
    BY OneMore
  <2> QED
    BY <2>1, <2>2, <2>3 DEF SumInv
<1>2. CASE LoopCounts
  <2>1. /\ counters'.sum = counters.sum /\ counters'.count = counters.count + 1
        /\ flushed' = flushed /\ Phase = "summed" /\ Phase' = "counted"
    BY <1>2 DEF LoopCounts, From, Kept
  <2>2. counters'.count - flushed' + 0 = counters.count - flushed + 1
    BY <2>1
  <2> QED
    BY <2>1, <2>2 DEF SumInv
<1>3. CASE FlushCounts
  <2>1. /\ counters'.sum = counters.sum /\ counters'.count = counters.count + 1
        /\ flushed' = flushed + 1 /\ Phase' = Phase
    BY <1>3 DEF FlushCounts, KeepsPhase, Kept
  <2>2. counters'.count - flushed' = counters.count - flushed
    BY <2>1
  <2> QED
    BY <2>1, <2>2 DEF SumInv
<1>4. CASE Unconcerned \/ LoopTestsMin \/ LoopSetsMin \/ LoopTestsMax \/ LoopSetsMax
  <2>1. /\ counters'.sum = counters.sum /\ counters'.count = counters.count
        /\ flushed' = flushed /\ (Phase' = "summed" <=> Phase = "summed")
    BY <1>4 DEF Unconcerned, LoopTestsMin, LoopSetsMin, LoopTestsMax, LoopSetsMax,
       KeepsPhase, From, Kept
  <2> QED
    BY <2>1 DEF SumInv
<1> QED
  BY <1>1, <1>2, <1>3, <1>4 DEF CoreStep

LEMMA AverageNext ==
    ASSUME StatsTyped, StatsTyped', ExtremesInv, AverageInv, CoreStep
    PROVE  AverageInv'
<1> SUFFICES ASSUME flushed' = 0
             PROVE  /\ counters'.count >= InCount'
                    /\ counters'.min * (counters'.count - InCount') <= counters'.sum - InSum'
                    /\ counters'.sum - InSum' <= counters'.max * (counters'.count - InCount')
  BY DEF AverageInv
<1>0. /\ counters.sum \in Int /\ counters.count \in Int /\ counters.min \in Int
      /\ counters.max \in Int /\ Hand \in Int /\ flushed \in Int /\ flushed >= 0
  BY CoreTyped
<1>1. ~FlushCounts
  BY <1>0 DEF FlushCounts
<1>2. flushed = 0
  BY <1>1 DEF CoreStep, Unconcerned, LoopSums, LoopCounts, LoopTestsMin, LoopSetsMin,
     LoopTestsMax, LoopSetsMax
<1>3. /\ counters.count >= InCount
      /\ counters.min * (counters.count - InCount) <= counters.sum - InSum
      /\ counters.sum - InSum <= counters.max * (counters.count - InCount)
  BY <1>2 DEF AverageInv
<1>4. CASE Unconcerned
  <2>1. InSum' = InSum /\ InCount' = InCount
    BY <1>4 DEF Unconcerned, KeepsPhase, InSum, InCount
  <2> QED
    BY <1>3, <1>4, <2>1 DEF Unconcerned, Kept
<1>5. CASE LoopSums
  <2>1. InSum = 0 /\ InCount = 0 /\ InSum' = Hand /\ InCount' = 0
    BY <1>5 DEF LoopSums, From, InSum, InCount
  <2>2. /\ counters'.sum = counters.sum + Hand /\ counters'.count = counters.count
        /\ counters'.min = counters.min /\ counters'.max = counters.max
    BY <1>5 DEF LoopSums, Kept
  <2>3. counters'.sum - InSum' = counters.sum - InSum
    BY <1>0, <2>1, <2>2
  <2> QED
    BY <1>3, <2>1, <2>2, <2>3
<1>6. CASE LoopCounts
  <2>1. InSum = Hand /\ InCount = 0 /\ InSum' = Hand /\ InCount' = 1
    BY <1>6 DEF LoopCounts, From, InSum, InCount
  <2>2. /\ counters'.sum = counters.sum /\ counters'.count = counters.count + 1
        /\ counters'.min = counters.min /\ counters'.max = counters.max
    BY <1>6 DEF LoopCounts, Kept
  <2>3. counters'.count - InCount' = counters.count - InCount /\ counters'.count >= 1
    BY <1>0, <1>3, <2>1, <2>2
  <2> QED
    BY <1>3, <2>1, <2>2, <2>3
<1>7. CASE LoopTestsMin
  <2>1. InSum' = InSum /\ InCount' = InCount
    BY <1>7 DEF LoopTestsMin, From, InSum, InCount
  <2> QED
    BY <1>3, <1>7, <2>1 DEF LoopTestsMin, Kept
<1> DEFINE n == counters.count - 1
<1>8. CASE LoopSetsMin
  <2>1. InSum = Hand /\ InCount = 1 /\ InSum' = Hand /\ InCount' = 1 /\ Hand < counters.min
    BY <1>8 DEF LoopSetsMin, From, InSum, InCount, ExtremesInv
  <2>2. /\ counters'.sum = counters.sum /\ counters'.count = counters.count
        /\ counters'.min = Hand /\ counters'.max = counters.max
    BY <1>8 DEF LoopSetsMin, Kept
  <2>3. n \in Nat /\ Hand <= counters.min
    BY <1>0, <1>3, <2>1
  <2>4. Hand * n <= counters.min * n /\ Hand * n \in Int /\ counters.min * n \in Int
    BY <1>0, <2>3, TimesMonotone
  <2> QED
    BY <1>0, <1>3, <2>1, <2>2, <2>4
<1>9. CASE LoopTestsMax
  <2>1. InSum = Hand /\ InCount = 1 /\ Phase = "tested" /\ counters.min <= Hand
    BY <1>9 DEF LoopTestsMax, From, InSum, InCount, ExtremesInv
  <2>2. /\ counters'.sum = counters.sum /\ counters'.count = counters.count
        /\ counters'.min = counters.min /\ counters'.max = counters.max
    BY <1>9 DEF LoopTestsMax, Kept
  <2>3. CASE Hand > counters.max
    <3>1. InSum' = Hand /\ InCount' = 1
      BY <1>9, <2>3 DEF LoopTestsMax, From, InSum, InCount
    <3> QED
      BY <1>3, <2>1, <2>2, <3>1
  <2>4. CASE ~(Hand > counters.max)
    <3>1. InSum' = 0 /\ InCount' = 0
      BY <1>9, <2>4 DEF LoopTestsMax, From, InSum, InCount
    <3>2. n \in Int /\ n + 1 = counters.count
      BY <1>0
    <3>3. /\ counters.min * (n + 1) = counters.min * n + counters.min
          /\ counters.max * (n + 1) = counters.max * n + counters.max
          /\ counters.min * n \in Int /\ counters.max * n \in Int
      BY <1>0, <3>2, OneMore
    <3>4. /\ counters.min * n <= counters.sum - Hand
          /\ counters.sum - Hand <= counters.max * n
      BY <1>3, <2>1
    <3>5. /\ counters.min * n + counters.min <= counters.sum
          /\ counters.sum <= counters.max * n + counters.max
      BY <1>0, <2>1, <2>4, <3>3, <3>4
    <3> QED
      BY <1>0, <1>3, <2>1, <2>2, <3>1, <3>2, <3>3, <3>5
  <2> QED
    BY <2>3, <2>4
<1>10. CASE LoopSetsMax
  <2>1. /\ InSum = Hand /\ InCount = 1 /\ InSum' = 0 /\ InCount' = 0
        /\ counters.min <= Hand /\ counters.max < Hand
    BY <1>10 DEF LoopSetsMax, From, InSum, InCount, ExtremesInv
  <2>2. /\ counters'.sum = counters.sum /\ counters'.count = counters.count
        /\ counters'.min = counters.min /\ counters'.max = Hand
    BY <1>10 DEF LoopSetsMax, Kept
  <2>3. n \in Nat /\ n + 1 = counters.count /\ counters.max <= Hand
    BY <1>0, <1>3, <2>1
  <2>i. n \in Int /\ counters.min \in Int /\ counters.max \in Int /\ Hand \in Int
    BY <1>0, <2>3
  <2>j. counters.min * (n + 1) = counters.min * n + counters.min /\ counters.min * n \in Int
    BY <2>i, OneMore
  <2>k. Hand * (n + 1) = Hand * n + Hand /\ Hand * n \in Int
    BY <2>i, OneMore
  <2>l. counters.max * n \in Int
    BY <2>i, OneMore
  <2>4. /\ counters.min * (n + 1) = counters.min * n + counters.min
        /\ Hand * (n + 1) = Hand * n + Hand
        /\ counters.min * n \in Int /\ Hand * n \in Int /\ counters.max * n \in Int
    BY <2>j, <2>k, <2>l
  <2>5. counters.max * n <= Hand * n
    BY <1>0, <2>3, TimesMonotone
  <2>6. counters.min * n <= counters.sum - Hand /\ counters.sum - Hand <= counters.max * n
    BY <1>3, <2>1
  <2>7. /\ counters.min * n + counters.min <= counters.sum
        /\ counters.sum <= Hand * n + Hand
    BY <1>0, <2>1, <2>4, <2>5, <2>6
  <2> QED
    BY <1>0, <1>3, <2>1, <2>2, <2>3, <2>4, <2>7
<1> QED
  BY <1>1, <1>4, <1>5, <1>6, <1>7, <1>8, <1>9, <1>10 DEF CoreStep

LEMMA CoreInvInit == Init => CoreInv
<1> SUFFICES ASSUME Init PROVE CoreInv
  OBVIOUS
<1>1. /\ counters.sum = 0 /\ counters.count = 0 /\ counters.min = INT64_MAX
      /\ counters.max = 0 /\ flushed = 0 /\ tested = {}
  BY DEF Init, Fresh, Fields
<1>2. Phase = "out"
  BY PhaseOf, SizesPositive DEF Init, Place
<1>3. ExtremesInv
  BY <1>1, <1>2 DEF ExtremesInv
<1>4. AverageInv
  BY <1>1, <1>2, SizesPositive DEF AverageInv, InSum, InCount
<1>5. SumInv
  BY <1>1, <1>2, SmallestOK DEF SumInv
<1> QED
  BY <1>3, <1>4, <1>5, StatsTypedInit DEF CoreInv

LEMMA CoreInvNext == CoreInv /\ [Next]_svars => CoreInv'
  BY StatsTypedNext, CoreSteps, ExtremesNext, SumNext, AverageNext DEF CoreInv

LEMMA CoreInvariant == Spec => []CoreInv
  BY CoreInvInit, CoreInvNext, PTL DEF Spec

(* The extremes are exact whenever nobody is between testing and setting     *)
(* them: only the dispatcher sets them.                                      *)
THEOREM ExtremesAreExact == Spec => []ExtremaExact
<1>1. CoreInv => ExtremaExact
  <2> SUFFICES ASSUME CoreInv, Quiet PROVE ExtremaExact
    BY DEF ExtremaExact
  <2>1. Phase = "out"
    BY PhaseOf, SizesPositive DEF Quiet, Place
  <2> QED
    BY <2>1 DEF ExtremaExact, CoreInv, ExtremesInv
<1> QED
  BY <1>1, CoreInvariant, PTL

(* The average lies between the smallest and the largest batch whenever no   *)
(* batch is being counted, as long as flush() has counted none.              *)
THEOREM AverageIsInRange == Spec => []AverageInRange
<1>1. CoreInv => AverageInRange
  <2> SUFFICES ASSUME CoreInv, Quiet, flushed = 0
               PROVE  /\ counters.min * counters.count <= counters.sum
                      /\ counters.sum <= counters.max * counters.count
    BY DEF AverageInRange
  <2>1. InSum = 0 /\ InCount = 0
    BY PhaseOf, SizesPositive DEF Quiet, Place, InSum, InCount
  <2>2. counters.count - 0 = counters.count /\ counters.sum - 0 = counters.sum
    BY CoreTyped DEF CoreInv
  <2> QED
    BY <2>1, <2>2 DEF CoreInv, AverageInv
<1> QED
  BY <1>1, CoreInvariant, PTL

-------------------------------------------------------------------------------
(* What a step is for one reader. *)
Leaves(r) == reading'[r] = reading[r] /\ snap'[r] = snap[r]

Begins(r) == reading'[r] = ReadOrder /\ snap'[r] = Blank

Fetches(r, from, to, f) ==
    /\ reading[r] = from /\ reading'[r] = to
    /\ counters' = counters /\ todo' = todo /\ flushed' = flushed
    /\ snap'[r] = IF f = "sum" /\ snap[r].count = 0 THEN snap[r]
                  ELSE [snap[r] EXCEPT ![f] = counters[f]]

Reads(r) ==
    \/ Fetches(r, ReadOrder, Read6, "submitted") \/ Fetches(r, Read6, Read5, "dispatched")
    \/ Fetches(r, Read5, Read4, "in_batches") \/ Fetches(r, Read4, Read3, "count")
    \/ Fetches(r, Read3, Read2, "sum") \/ Fetches(r, Read2, Read1, "min")
    \/ Fetches(r, Read1, <<>>, "max")

LEMMA ReaderSteps ==
    ASSUME StatsTyped, [Next]_svars, NEW r \in Readers
    PROVE  Leaves(r) \/ Begins(r) \/ Reads(r)
<1>0. reading \in [Readers -> ReadStages] /\ snap \in [Readers -> [Fields -> Int]]
  BY DEF StatsTyped
<1>1. CASE reading' = reading /\ snap' = snap
  BY <1>1 DEF Leaves
<1>2. ASSUME NEW q \in Readers, GetStats(q) PROVE Leaves(r) \/ Begins(r)
  BY <1>0, <1>2 DEF GetStats, Leaves, Begins
<1>3. ASSUME NEW q \in Readers, ReadField(q), q # r PROVE Leaves(r)
  BY <1>0, <1>3 DEF ReadField, Leaves
<1>4. ASSUME ReadField(r) PROVE Reads(r)
  <2>1. counters' = counters /\ todo' = todo /\ flushed' = flushed
    BY <1>4 DEF ReadField
  <2>2. ASSUME NEW from, NEW to, NEW f,
               reading[r] = from, reading' = [reading EXCEPT ![r] = to],
               IF f = "sum" /\ snap[r].count = 0 THEN snap' = snap
               ELSE snap' = [snap EXCEPT ![r][f] = counters[f]]
        PROVE  Fetches(r, from, to, f)
    BY <1>0, <2>1, <2>2 DEF Fetches
  <2>3. PICK m \in {<<ReadOrder, Read6, "submitted">>, <<Read6, Read5, "dispatched">>,
                    <<Read5, Read4, "in_batches">>, <<Read4, Read3, "count">>,
                    <<Read3, Read2, "sum">>, <<Read2, Read1, "min">>, <<Read1, <<>>, "max">>} :
              /\ reading[r] = m[1] /\ reading' = [reading EXCEPT ![r] = m[2]]
              /\ IF m[3] = "sum" /\ snap[r].count = 0 THEN snap' = snap
                 ELSE snap' = [snap EXCEPT ![r][m[3]] = counters[m[3]]]
    BY <1>4, ReadMoves
  <2>4. Fetches(r, m[1], m[2], m[3])
    BY <2>2, <2>3
  <2> QED
    BY <2>4 DEF Reads
<1>5. CASE UNCHANGED svars \/ StopLoop \/ \E n \in Sizes : Submit(n)
  BY <1>1, <1>5 DEF svars, StopLoop, Submit
<1>6. CASE \E w \in Workers : Take(w) \/ Add(w) \/ Compare(w) \/ Assign(w)
  BY <1>1, <1>6 DEF Take, Add, Compare, Assign
<1> QED
  BY <1>2, <1>3, <1>4, <1>5, <1>6 DEF Next

LEMMA ReadPlacesDiffer ==
    /\ Read3 \notin {ReadOrder, Read6, Read5, Read4, Read2, Read1, <<>>}
    /\ Read2 \notin {ReadOrder, Read6, Read5, Read4}
    /\ Read1 \notin {ReadOrder, Read6, Read5, Read4}
    /\ <<>> \notin {ReadOrder, Read6, Read5, Read4}
    /\ Read4 \notin {ReadOrder, Read6, Read5}
    /\ Read5 \notin {ReadOrder, Read6}
  BY DEF ReadOrder, Read6, Read5, Read4, Read3, Read2, Read1

(* Nothing that the average needs is ever taken back. *)
LEMMA CoreGrows ==
    ASSUME StatsTyped, CoreStep
    PROVE  /\ counters'.sum >= counters.sum /\ counters'.count >= counters.count
           /\ flushed' >= flushed
<1>1. CASE LoopSums
  BY <1>1, CoreTyped, SizesPositive DEF LoopSums, From, Kept
<1>2. CASE ~LoopSums
  BY <1>2, CoreTyped DEF CoreStep, Unconcerned, FlushCounts, LoopCounts, LoopTestsMin,
     LoopSetsMin, LoopTestsMax, LoopSetsMax, Kept
<1> QED
  BY <1>1, <1>2

-------------------------------------------------------------------------------
(* The average a reader returns.  What it has read, and the sum it has still *)
(* to read, has the smallest size for every batch that it counted and flush()*)
(* did not.                                                                  *)
Enough(total, r) == total >= Smallest * (snap[r].count - flushed)

ReadSumInv(r) ==
    /\ reading[r] \in {ReadOrder, Read6, Read5, Read4, Read3} => snap[r].sum = 0
    /\ reading[r] = Read3 => Enough(counters.sum, r)
    /\ reading[r] \in {Read2, Read1, <<>>} => Enough(snap[r].sum, r)

AllReadSums == \A r \in Readers : ReadSumInv(r)

LEMMA SnapTyped ==
    ASSUME StatsTyped, NEW r \in Readers
    PROVE  /\ snap[r] \in [Fields -> Int] /\ counters \in [Fields -> Int]
           /\ snap[r].count \in Int /\ snap[r].sum \in Int /\ snap[r].dispatched \in Int
           /\ counters.count \in Int /\ counters.sum \in Int /\ counters.dispatched \in Int
           /\ flushed \in Int /\ flushed >= 0 /\ reading[r] \in ReadStages
  BY DEF StatsTyped, Fields

(* Fewer batches, counted or not by flush(), need no more. *)
LEMMA EnoughKept ==
    ASSUME NEW total \in Int, NEW more \in Int, more >= total,
           NEW c \in Int, NEW d \in Int, d <= c, total >= Smallest * c
    PROVE  more >= Smallest * d
<1>1. PICK k \in Nat : c = d + k
  BY c - d \in Nat /\ c = d + (c - d)
<1>2. Smallest \in Nat
  BY SmallestOK
<1>3. Smallest * (d + k) = Smallest * d + Smallest * k /\ Smallest * d \in Int
  BY <1>1, <1>2
<1>4. Smallest * k \in Int /\ Smallest * k >= 0
  BY <1>1, <1>2
<1> QED
  BY <1>1, <1>3, <1>4

LEMMA ReadSumNext ==
    ASSUME CoreInv, StatsTyped', CoreStep, [Next]_svars, NEW r \in Readers, ReadSumInv(r)
    PROVE  ReadSumInv(r)'
<1>0. /\ StatsTyped
      /\ counters'.sum >= counters.sum /\ flushed' >= flushed
      /\ counters'.sum \in Int /\ flushed' \in Int
  <2>1. StatsTyped
    BY DEF CoreInv
  <2>2. counters'.sum \in Int /\ flushed' \in Int
    BY DEF StatsTyped, Fields
  <2> QED
    BY <2>1, <2>2, CoreGrows
<1>1. CASE Leaves(r)
  <2>1. reading'[r] = reading[r] /\ snap'[r] = snap[r]
    BY <1>1 DEF Leaves
  <2>2. snap[r].count - flushed' <= snap[r].count - flushed
        /\ snap[r].count - flushed' \in Int /\ snap[r].count - flushed \in Int
    BY <1>0, SnapTyped
  <2>3. ASSUME reading[r] = Read3 PROVE counters'.sum >= Smallest * (snap[r].count - flushed')
    BY <1>0, <2>2, <2>3, EnoughKept, SnapTyped DEF ReadSumInv, Enough
  <2>4. ASSUME reading[r] \in {Read2, Read1, <<>>}
        PROVE  snap[r].sum >= Smallest * (snap[r].count - flushed')
    BY <1>0, <2>2, <2>4, EnoughKept, SnapTyped DEF ReadSumInv, Enough
  <2> QED
    BY <2>1, <2>3, <2>4 DEF ReadSumInv, Enough
<1>2. CASE Begins(r)
  BY <1>2, ReadPlacesDiffer DEF Begins, Blank, Fields, ReadSumInv
<1>3. CASE Fetches(r, ReadOrder, Read6, "submitted") \/ Fetches(r, Read6, Read5, "dispatched")
           \/ Fetches(r, Read5, Read4, "in_batches")
  <2>1. reading[r] \in {ReadOrder, Read6, Read5} /\ reading'[r] \in {Read6, Read5, Read4}
        /\ snap'[r].sum = snap[r].sum
    BY <1>0, <1>3, SnapTyped DEF Fetches, Fields
  <2>2. snap[r].sum = 0
    BY <2>1 DEF ReadSumInv
  <2> QED
    BY <2>1, <2>2, ReadPlacesDiffer DEF ReadSumInv
<1>4. CASE Fetches(r, Read4, Read3, "count")
  <2>1. /\ reading[r] = Read4 /\ reading'[r] = Read3 /\ snap'[r].sum = snap[r].sum
        /\ snap'[r].count = counters.count /\ counters' = counters /\ flushed' = flushed
    BY <1>0, <1>4, SnapTyped DEF Fetches, Fields
  <2>2. counters.sum >= Smallest * (counters.count - flushed)
    <3> DEFINE c == counters.count - flushed + IF Phase = "summed" THEN 1 ELSE 0
    <3>1. counters.sum >= Smallest * c
      BY DEF CoreInv, SumInv
    <3>2. c \in Int /\ counters.count - flushed \in Int /\ counters.count - flushed <= c
      BY <1>0, SnapTyped
    <3> HIDE DEF c
    <3> QED
      BY <1>0, <3>1, <3>2, EnoughKept, SnapTyped
  <2> QED
    BY <2>1, <2>2, ReadPlacesDiffer DEF ReadSumInv, Enough
<1>5. CASE Fetches(r, Read3, Read2, "sum")
  <2>1. /\ reading[r] = Read3 /\ reading'[r] = Read2 /\ flushed' = flushed
        /\ snap'[r].count = snap[r].count
        /\ snap'[r].sum = IF snap[r].count = 0 THEN snap[r].sum ELSE counters.sum
    BY <1>0, <1>5, SnapTyped DEF Fetches, Fields
  <2>2. CASE snap[r].count = 0
    <3>1. snap'[r].sum = 0 /\ 0 - flushed <= 0 /\ 0 - flushed \in Int /\ 0 >= Smallest * 0
      BY <1>0, <2>1, <2>2, SnapTyped, SmallestOK DEF ReadSumInv
    <3>2. 0 >= Smallest * (0 - flushed)
      BY <3>1, EnoughKept
    <3> QED
      BY <2>1, <2>2, <3>1, <3>2, ReadPlacesDiffer DEF ReadSumInv, Enough
  <2>3. CASE snap[r].count # 0
    BY <2>1, <2>3, ReadPlacesDiffer DEF ReadSumInv, Enough
  <2> QED
    BY <2>2, <2>3
<1>6. CASE Fetches(r, Read2, Read1, "min") \/ Fetches(r, Read1, <<>>, "max")
  <2>1. /\ reading[r] \in {Read2, Read1} /\ reading'[r] \in {Read1, <<>>}
        /\ flushed' = flushed /\ snap'[r].count = snap[r].count /\ snap'[r].sum = snap[r].sum
    BY <1>0, <1>6, SnapTyped DEF Fetches, Fields
  <2> QED
    BY <2>1, ReadPlacesDiffer DEF ReadSumInv, Enough
<1> QED
  BY <1>0, <1>1, <1>2, <1>3, <1>4, <1>5, <1>6, ReaderSteps DEF Reads

(* The average a reader returns is never below the smallest batch on account *)
(* of a batch that is being counted.                                         *)
THEOREM AverageIsNotLow == Spec => []AverageNotLow
<1>1. Init => AllReadSums
  <2> SUFFICES ASSUME Init, NEW r \in Readers PROVE ReadSumInv(r)
    BY DEF AllReadSums
  <2>1. reading[r] = <<>> /\ snap[r].sum = 0 /\ snap[r].count = 0 /\ flushed = 0
    BY DEF Init, Blank, Fields
  <2>2. 0 - 0 = 0 /\ 0 >= Smallest * 0
    BY SmallestOK
  <2>3. reading[r] # Read3
    BY <2>1, ReadPlacesDiffer
  <2> QED
    BY <2>1, <2>2, <2>3 DEF ReadSumInv, Enough
<1>2. CoreInv /\ CoreInv' /\ AllReadSums /\ [Next]_svars => AllReadSums'
  BY CoreSteps, ReadSumNext DEF CoreInv, AllReadSums
<1>3. AllReadSums => AverageNotLow
  BY DEF AllReadSums, ReadSumInv, Enough, AverageNotLow, Returned
<1> QED
  BY <1>1, <1>2, <1>3, CoreInvariant, PTL DEF Spec

-------------------------------------------------------------------------------
(* The batches dispatched that are not counted yet: one in the hand of each  *)
(* of these workers.                                                         *)
Handling == {Toward, ToSum, Summed, ToFlushIn, ToFlushCount}

InHand == {w \in Workers : todo[w] \in Handling}

LagInv == counters.dispatched = counters.count + Cardinality(InHand)

ReadLag(r) ==
    /\ reading[r] \in {Read3, Read2, Read1, <<>>} =>
          snap[r].dispatched - snap[r].count <= Cardinality(Workers)
    /\ reading[r] \in {Read5, Read4} =>
          snap[r].dispatched - counters.count <= Cardinality(Workers)

AllReadLags == \A r \in Readers : ReadLag(r)

LEMMA HandlingPlaces ==
    /\ LoopOrder \notin Handling /\ FlushOrder \notin Handling /\ ToMin \notin Handling
    /\ Less \notin Handling /\ ToMax \notin Handling /\ More \notin Handling
    /\ <<>> \notin Handling
  BY DEF Handling, LoopOrder, FlushOrder, Toward, ToSum, Summed, ToMin, Less, ToMax, More,
     ToFlushIn, ToFlushCount

LEMMA InHandFinite ==
    /\ IsFiniteSet(Workers) /\ Cardinality(Workers) \in Nat
    /\ IsFiniteSet(InHand) /\ Cardinality(InHand) \in Nat
    /\ Cardinality(InHand) <= Cardinality(Workers)
<1>1. IsFiniteSet(Workers)
  BY StatisticsAssumption, FS_AddElement, FS_Singleton, FS_Union DEF Workers
<1>2. InHand \subseteq Workers
  BY DEF InHand
<1> QED
  BY <1>1, <1>2, FS_Subset, FS_CardinalityType

LEMMA HandMoves ==
    ASSUME StatsTyped, NEW w \in Workers, NEW to, todo' = [todo EXCEPT ![w] = to]
    PROVE  /\ todo[w] \notin Handling /\ to \notin Handling => InHand' = InHand
           /\ todo[w] \in Handling /\ to \in Handling => InHand' = InHand
           /\ todo[w] \notin Handling /\ to \in Handling =>
                 Cardinality(InHand') = Cardinality(InHand) + 1
           /\ todo[w] \in Handling /\ to \notin Handling =>
                 Cardinality(InHand') = Cardinality(InHand) - 1
<1>1. todo'[w] = to /\ \A v \in Workers \ {w} : todo'[v] = todo[v]
  BY DEF StatsTyped
<1>2. (todo[w] \notin Handling /\ to \notin Handling) \/ (todo[w] \in Handling /\ to \in Handling)
      => InHand' = InHand
  BY <1>1 DEF InHand
<1>3. ASSUME todo[w] \notin Handling, to \in Handling
      PROVE  Cardinality(InHand') = Cardinality(InHand) + 1
  <2>1. w \notin InHand /\ InHand' = InHand \cup {w}
    BY <1>1, <1>3 DEF InHand
  <2> QED
    BY <2>1, InHandFinite, FS_AddElement
<1>4. ASSUME todo[w] \in Handling, to \notin Handling
      PROVE  Cardinality(InHand') = Cardinality(InHand) - 1
  <2>1. w \in InHand /\ InHand' = InHand \ {w}
    BY <1>1, <1>4 DEF InHand
  <2> QED
    BY <2>1, InHandFinite, FS_RemoveElement
<1> QED
  BY <1>2, <1>3, <1>4

(* Between two steps the hands and the two counters agree. *)
LEMMA LagNext == ASSUME StatsTyped, StatsTyped', LagInv, [Next]_svars PROVE LagInv'
<1>0. /\ counters \in [Fields -> Int] /\ counters.count \in Int /\ counters.dispatched \in Int
      /\ Cardinality(InHand) \in Nat
  BY InHandFinite DEF StatsTyped, Fields
<1>1. ASSUME InHand' = InHand, Kept({"count", "dispatched"}) PROVE LagInv'
  BY <1>1 DEF LagInv, Kept
<1>2. ASSUME NEW w \in Workers, Add(w) PROVE LagInv'
  <2> DEFINE Grows(f) == counters' = [counters EXCEPT ![f] = counters[f] + Amount(w, f)]
  <2>1. \E m \in {<<LoopOrder, Toward, "dispatched">>, <<Toward, ToSum, "in_batches">>,
                  <<ToSum, Summed, "sum">>, <<Summed, ToMin, "count">>,
                  <<FlushOrder, ToFlushIn, "dispatched">>,
                  <<ToFlushIn, ToFlushCount, "in_batches">>, <<ToFlushCount, <<>>, "count">>} :
           Adds(w, m[1], m[2], m[3])
    BY <1>2, AddMoves
  <2>2. ASSUME NEW from, NEW to, Adds(w, from, to, "dispatched"),
               from \notin Handling, to \in Handling
        PROVE  LagInv'
    <3>1. Cardinality(InHand') = Cardinality(InHand) + 1
      BY <2>2, HandMoves DEF Adds
    <3>2. /\ counters'.count = counters.count
          /\ counters'.dispatched = counters.dispatched + 1
      BY <1>0, <2>2 DEF Adds, Amount, Fields
    <3> QED
      BY <1>0, <3>1, <3>2 DEF LagInv
  <2>3. ASSUME NEW from, NEW to, Adds(w, from, to, "count"),
               from \in Handling, to \notin Handling
        PROVE  LagInv'
    <3>1. Cardinality(InHand') = Cardinality(InHand) - 1
      BY <2>3, HandMoves DEF Adds
    <3>2. /\ counters'.count = counters.count + 1
          /\ counters'.dispatched = counters.dispatched
      BY <1>0, <2>3 DEF Adds, Amount, Fields
    <3> QED
      BY <1>0, <3>1, <3>2 DEF LagInv
  <2>4. ASSUME NEW from, NEW to, NEW f \in {"in_batches", "sum"}, Adds(w, from, to, f),
               from \in Handling, to \in Handling
        PROVE  LagInv'
    <3>1. InHand' = InHand
      BY <2>4, HandMoves DEF Adds
    <3>2. Kept({"count", "dispatched"})
      BY <1>0, <2>4 DEF Adds, Kept, Fields
    <3> QED
      BY <1>1, <3>1, <3>2
  <2>5. /\ Toward \in Handling /\ ToSum \in Handling /\ Summed \in Handling
        /\ ToFlushIn \in Handling /\ ToFlushCount \in Handling
    BY DEF Handling
  <2> QED
    BY <2>1, <2>2, <2>3, <2>4, <2>5, HandlingPlaces
<1>3. ASSUME NEW w \in Workers, Take(w) PROVE LagInv'
  <2>1. PICK to \in {LoopOrder, FlushOrder} :
          todo[w] = <<>> /\ todo' = [todo EXCEPT ![w] = to]
    BY <1>3, TakeMoves
  <2>2. InHand' = InHand
    BY <2>1, HandMoves, HandlingPlaces
  <2>3. Kept({"count", "dispatched"})
    BY <1>3 DEF Take, Kept
  <2> QED
    BY <1>1, <2>2, <2>3
<1>4. ASSUME NEW w \in Workers, Compare(w) PROVE LagInv'
  <2>1. PICK from \in {ToMin, ToMax}, to \in {Less, ToMax, More, <<>>} :
          todo[w] = from /\ todo' = [todo EXCEPT ![w] = to]
    BY <1>4, CompareMoves
  <2>2. InHand' = InHand
    BY <2>1, HandMoves, HandlingPlaces
  <2>3. Kept({"count", "dispatched"})
    BY <1>4 DEF Compare, Kept
  <2> QED
    BY <1>1, <2>2, <2>3
<1>5. ASSUME NEW w \in Workers, Assign(w) PROVE LagInv'
  <2>1. PICK from \in {Less, More}, to \in {ToMax, <<>>} :
          todo[w] = from /\ todo' = [todo EXCEPT ![w] = to]
    BY <1>5, AssignMoves
  <2>2. InHand' = InHand
    BY <2>1, HandMoves, HandlingPlaces
  <2>3. Kept({"count", "dispatched"})
    BY <1>0, <1>5, AssignMoves DEF Kept, Fields
  <2> QED
    BY <1>1, <2>2, <2>3
<1>6. ASSUME NEW n \in Sizes, Submit(n) PROVE LagInv'
  <2>1. Kept({"count", "dispatched"}) /\ InHand' = InHand
    BY <1>0, <1>6 DEF Submit, Kept, Fields, InHand
  <2> QED
    BY <1>1, <2>1
<1>7. CASE \/ StopLoop \/ UNCHANGED svars
           \/ \E r \in Readers : GetStats(r) \/ ReadField(r)
  <2>1. counters' = counters /\ todo' = todo
    BY <1>7 DEF StopLoop, svars, GetStats, ReadField
  <2>2. Kept({"count", "dispatched"}) /\ InHand' = InHand
    BY <2>1 DEF Kept, InHand
  <2> QED
    BY <1>1, <2>2
<1> QED
  BY <1>2, <1>3, <1>4, <1>5, <1>6, <1>7 DEF Next

LEMMA ReadLagNext ==
    ASSUME StatsTyped, StatsTyped', LagInv, CoreStep, [Next]_svars,
           NEW r \in Readers, ReadLag(r)
    PROVE  ReadLag(r)'
<1>0. counters'.count >= counters.count /\ counters'.count \in Int
  <2>1. counters'.count \in Int
    BY DEF StatsTyped, Fields
  <2> QED
    BY <2>1, CoreGrows
<1>n. Cardinality(Workers) \in Nat
  BY InHandFinite
<1>1. CASE Leaves(r)
  BY <1>0, <1>n, <1>1, SnapTyped DEF Leaves, ReadLag
<1>2. CASE Begins(r) \/ Fetches(r, ReadOrder, Read6, "submitted")
  <2>1. reading'[r] \in {ReadOrder, Read6}
    BY <1>2 DEF Begins, Fetches
  <2>2. reading'[r] \notin {Read5, Read4, Read3, Read2, Read1, <<>>}
    BY <2>1, ReadPlacesDiffer DEF ReadOrder, Read6, Read5, Read4, Read3, Read2, Read1
  <2> QED
    BY <2>2 DEF ReadLag
<1>3. CASE Fetches(r, Read6, Read5, "dispatched")
  <2>1. reading'[r] = Read5 /\ counters' = counters /\ snap'[r].dispatched = counters.dispatched
    BY <1>3, SnapTyped DEF Fetches, Fields
  <2>2. counters.dispatched - counters.count <= Cardinality(Workers)
    BY InHandFinite, SnapTyped DEF LagInv
  <2> QED
    BY <2>1, <2>2, ReadPlacesDiffer DEF ReadLag, Read5, Read3, Read2, Read1
<1>4. CASE Fetches(r, Read5, Read4, "in_batches")
  <2>1. /\ reading[r] = Read5 /\ reading'[r] = Read4 /\ counters' = counters
        /\ snap'[r].dispatched = snap[r].dispatched
    BY <1>4, SnapTyped DEF Fetches, Fields
  <2> QED
    BY <2>1, ReadPlacesDiffer DEF ReadLag
<1>5. CASE Fetches(r, Read4, Read3, "count")
  <2>1. /\ reading[r] = Read4 /\ reading'[r] = Read3 /\ snap'[r].count = counters.count
        /\ snap'[r].dispatched = snap[r].dispatched
    BY <1>5, SnapTyped DEF Fetches, Fields
  <2> QED
    BY <2>1, ReadPlacesDiffer DEF ReadLag, Read5, Read3
<1>6. CASE Fetches(r, Read3, Read2, "sum") \/ Fetches(r, Read2, Read1, "min")
           \/ Fetches(r, Read1, <<>>, "max")
  <2>1. /\ reading[r] \in {Read3, Read2, Read1} /\ reading'[r] \in {Read2, Read1, <<>>}
        /\ snap'[r].count = snap[r].count /\ snap'[r].dispatched = snap[r].dispatched
    BY <1>6, SnapTyped DEF Fetches, Fields
  <2> QED
    BY <2>1, ReadPlacesDiffer DEF ReadLag, Read5, Read3, Read2, Read1
<1> QED
  BY <1>1, <1>2, <1>3, <1>4, <1>5, <1>6, ReaderSteps DEF Reads

(* What a reader returns as dispatched is ahead of what it returns as counted*)
(* by one batch for each worker at most.                                     *)
THEOREM CountLagsByHands == Spec => []CountLags
<1>1. Init => LagInv /\ AllReadLags
  <2> SUFFICES ASSUME Init PROVE LagInv /\ AllReadLags
    OBVIOUS
  <2>1. counters.dispatched = 0 /\ counters.count = 0 /\ InHand = {}
    BY HandlingPlaces DEF Init, Fresh, Fields, InHand
  <2>2. LagInv
    BY <2>1, FS_EmptySet DEF LagInv
  <2>3. ASSUME NEW r \in Readers PROVE ReadLag(r)
    <3>1. reading[r] = <<>> /\ snap[r].dispatched = 0 /\ snap[r].count = 0
      BY DEF Init, Blank, Fields
    <3> QED
      BY <3>1, ReadPlacesDiffer, InHandFinite DEF ReadLag
  <2> QED
    BY <2>2, <2>3 DEF AllReadLags
<1>2. CoreInv /\ CoreInv' /\ LagInv /\ AllReadLags /\ [Next]_svars => LagInv' /\ AllReadLags'
  BY CoreSteps, LagNext, ReadLagNext DEF CoreInv, AllReadLags
<1>3. AllReadLags => CountLags
  BY DEF AllReadLags, ReadLag, CountLags, Returned
<1> QED
  BY <1>1, <1>2, <1>3, CoreInvariant, PTL DEF Spec

================================================================================
