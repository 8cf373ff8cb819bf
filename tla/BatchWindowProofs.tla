-------------------------- MODULE BatchWindowProofs --------------------------
(****************************************************************************)
(* Proofs about BatchWindow: how long a batch waits, for any configuration, *)
(* sizes, delays of the dispatcher and numbers of batches.                  *)
(****************************************************************************)
EXTENDS BatchWindow, SequenceTheorems, TLAPS

Batches == [size : Sizes, age : Nat]

(* Batches handed over: the part of a round that is behind. *)
Gone == submitted - Len(pending) - Len(remaining) - Len(out)

(* What the batches in the queue have waited of this round. *)
Reached == IF pc = "drain" THEN Wait ELSE timer

WindowTyped ==
    /\ max_wait_ms \in Waits /\ max_batch_size \in Triggers
    /\ limit \in Products(max_wait_ms)
    /\ pending \in Seq(Batches) /\ remaining \in Seq(Batches) /\ out \in Seq(Batches)
    /\ pc \in {"wait", "drain", "dispatch"}
    /\ timer \in Nat /\ submitted \in Nat /\ submitted <= MaxBatches

Place ==
    /\ pc = "wait" => out = <<>> /\ remaining = <<>> /\ timer <= Wait
    /\ pc = "drain" => timer = 0
    /\ pc = "dispatch" =>
          remaining = <<>> /\ timer <= Encoding /\ (out = <<>> => timer = 0)

Young(b, rest)  == b.age <= Longest + rest
Prompt(b, rest) == max_batch_size >= 0 /\ b.size >= max_batch_size => b.age <= rest

(* Every batch still has the time of the dispatches ahead of it before it.   *)
AgeInv ==
    /\ Gone \in Nat
    /\ \A i \in DOMAIN pending :
          /\ Young(pending[i], Gone * Encoding + Reached)
          /\ Prompt(pending[i], Gone * Encoding + Reached)
    /\ \A i \in DOMAIN remaining : remaining[i].age < limit /\ ~Due(remaining[i])
    /\ \A i \in DOMAIN out : Young(out[i], Wait + Gone * Encoding + timer)

WindowInv == WindowTyped /\ Place /\ AgeInv

-------------------------------------------------------------------------------
(* Arithmetic *)
LEMMA ModLess ==
    ASSUME NEW a \in Nat, NEW m \in Nat \ {0}
    PROVE  a % m \in 0..(m - 1) /\ a % m <= a
<1>1. a = m * (a \div m) + (a % m) /\ a \div m \in Int /\ a % m \in 0..(m - 1)
  OBVIOUS
<1>2. ASSUME a \div m < 0 PROVE FALSE
  <2>1. m * (a \div m) <= m * (-1)
    BY <1>1, <1>2
  <2> QED
    BY <1>1, <2>1
<1>3. m * (a \div m) >= 0
  BY <1>1, <1>2
<1> QED
  BY <1>1, <1>3

LEMMA ModRange ==
    ASSUME NEW a \in Int, NEW m \in Nat \ {0} PROVE a % m \in Int /\ 0 <= a % m /\ a % m < m
  OBVIOUS

LEMMA TimesType == ASSUME NEW a \in Nat, NEW b \in Nat PROVE a * b \in Nat
  OBVIOUS

LEMMA TimesMonotone ==
    ASSUME NEW a \in Nat, NEW b \in Nat, NEW n \in Nat, a <= b
    PROVE  a * n <= b * n /\ a * n \in Nat /\ b * n \in Nat /\ (a + 1) * n = a * n + n
  OBVIOUS

LEMMA ConfigTyped ==
    ASSUME WindowTyped
    PROVE  /\ max_wait_ms \in Int /\ max_batch_size \in Int /\ limit \in Int
           /\ Period \in Nat /\ Wait \in Nat /\ Longest \in Nat /\ Encoding \in Nat
           /\ MaxBatches \in Nat /\ timer \in Nat /\ IntHalf \in Nat \ {0} /\ Scale \in Nat \ {0}
<1>1. /\ max_wait_ms \in Int /\ max_batch_size \in Int /\ IntHalf \in Nat \ {0}
      /\ Scale \in Nat \ {0} /\ Jitter \in Nat /\ Encoding \in Nat /\ MaxBatches \in Nat
      /\ timer \in Nat
  BY WindowAssumption DEF WindowTyped
<1>2. max_wait_ms * Scale \in Int /\ (max_wait_ms >= 0 => max_wait_ms * Scale \in Nat)
  BY <1>1
<1>3. Signed(max_wait_ms * Scale) \in Int
  <2>1. max_wait_ms * Scale + IntHalf \in Int /\ 2 * IntHalf \in Nat \ {0}
    BY <1>1, <1>2
  <2>2. (max_wait_ms * Scale + IntHalf) % (2 * IntHalf) \in Int
    BY <2>1, ModRange
  <2> QED
    BY <1>1, <2>2 DEF Signed
<1>4. limit \in Int
  BY <1>2, <1>3 DEF WindowTyped, Products
<1>5. Period \in Nat
  BY <1>1, <1>2 DEF Period
<1> QED
  BY <1>1, <1>4, <1>5 DEF Wait, Longest

(* However the product overflows, the time trigger never asks for more than  *)
(* max_wait_ms, unless that is negative.                                     *)
LEMMA LimitBound == ASSUME WindowTyped PROVE limit <= Longest
<1>1. max_wait_ms \in Int /\ IntHalf \in Nat \ {0} /\ Scale \in Nat \ {0}
  BY ConfigTyped
<1> DEFINE p == max_wait_ms * Scale
<1>2. p \in Int /\ (max_wait_ms < 0 => p < 0) /\ (max_wait_ms >= 0 => p >= 0)
  BY <1>1
<1> DEFINE m == (p + IntHalf) % (2 * IntHalf)
<1>3. m \in Int /\ m < 2 * IntHalf
  BY <1>1, <1>2, ModRange
<1>4. ASSUME p >= 0 PROVE m <= p + IntHalf
  <2>1. p + IntHalf \in Nat /\ 2 * IntHalf \in Nat \ {0}
    BY <1>1, <1>2, <1>4
  <2> HIDE DEF p
  <2> QED
    BY <2>1, ModLess
<1>5. limit = m - IntHalf \/ limit = p
  BY DEF WindowTyped, Products, Signed
<1> HIDE DEF m
<1>6. max_wait_ms >= 0 => Longest = p
  BY <1>1 DEF Longest, Period
<1>7. max_wait_ms < 0 => Longest = IntHalf
  BY DEF Longest
<1> HIDE DEF p
<1> QED
  BY <1>1, <1>2, <1>3, <1>4, <1>5, <1>6, <1>7

LEMMA BatchTyped == \A b \in Batches : b.size \in Int /\ b.age \in Nat
<1> SUFFICES ASSUME NEW n \in Sizes, NEW a \in Nat PROVE n \in Int
  BY DEF Batches
<1>1. Sizes \subseteq Nat
  BY WindowAssumption
<1> QED
  BY <1>1

(* A batch that no drain keeps, unless it never reaches the size.            *)
LEMMA LargeIsDue ==
    ASSUME WindowTyped, NEW b \in Batches, max_batch_size >= 0, b.size >= max_batch_size
    PROVE  Due(b)
<1>1. max_batch_size \in Nat /\ IntHalf \in Nat \ {0}
  BY ConfigTyped
<1>2. 2 * IntHalf \in Nat \ {0} /\ b.size \in Int
  <2>3. b.size \in Int
    BY BatchTyped
  <2>4. 2 * IntHalf \in Nat \ {0}
    BY <1>1
  <2> QED
    BY <2>3, <2>4
<1>3. Unsigned(max_batch_size) <= max_batch_size /\ Unsigned(max_batch_size) \in Int
  BY <1>1, <1>2, ModLess DEF Unsigned
<1> QED
  BY <1>1, <1>2, <1>3 DEF Due

-------------------------------------------------------------------------------
(* Sequences of batches *)
LEMMA AgedOK ==
    ASSUME NEW s \in Seq(Batches)
    PROVE  /\ Aged(s) \in Seq(Batches) /\ Len(Aged(s)) = Len(s)
           /\ DOMAIN Aged(s) = DOMAIN s
           /\ \A i \in DOMAIN s : Aged(s)[i].age = s[i].age + 1 /\ Aged(s)[i].size = s[i].size
<1>1. Len(s) \in Nat /\ DOMAIN s = 1..Len(s) /\ \A i \in DOMAIN s : s[i] \in Batches
  BY ElementOfSeq
<1>2. \A i \in DOMAIN s : /\ [s[i] EXCEPT !.age = s[i].age + 1] \in Batches
                          /\ [s[i] EXCEPT !.age = s[i].age + 1].age = s[i].age + 1
                          /\ [s[i] EXCEPT !.age = s[i].age + 1].size = s[i].size
  BY <1>1 DEF Batches
<1>3. /\ Aged(s) \in [1..Len(s) -> Batches]
      /\ \A i \in DOMAIN s : Aged(s)[i] = [s[i] EXCEPT !.age = s[i].age + 1]
  BY <1>1, <1>2 DEF Aged
<1>4. Aged(s) \in Seq(Batches) /\ DOMAIN Aged(s) = 1..Len(s)
  BY <1>1, <1>3, SeqDef
<1>5. Len(Aged(s)) = Len(s)
  BY <1>1, <1>4, LenProperties
<1> QED
  BY <1>1, <1>2, <1>3, <1>4, <1>5

LEMMA Lengths ==
    ASSUME WindowTyped
    PROVE  /\ Len(pending) \in Nat /\ Len(remaining) \in Nat /\ Len(out) \in Nat
           /\ DOMAIN pending = 1..Len(pending) /\ DOMAIN remaining = 1..Len(remaining)
           /\ DOMAIN out = 1..Len(out)
           /\ \A i \in DOMAIN pending : pending[i] \in Batches
           /\ \A i \in DOMAIN remaining : remaining[i] \in Batches
           /\ \A i \in DOMAIN out : out[i] \in Batches
  BY ElementOfSeq DEF WindowTyped

LEMMA EmptyBatches == <<>> \in Seq(Batches) /\ Len(<<>>) = 0 /\ DOMAIN <<>> = {}
  OBVIOUS

(* One batch more, or one less, in a sequence whose members are all alike.   *)
LEMMA MoreOf ==
    ASSUME NEW s \in Seq(Batches), NEW b \in Batches
    PROVE  /\ Append(s, b) \in Seq(Batches) /\ Len(Append(s, b)) = Len(s) + 1
           /\ \A i \in DOMAIN Append(s, b) :
                 (i \in DOMAIN s /\ Append(s, b)[i] = s[i]) \/ Append(s, b)[i] = b
<1>1. /\ Append(s, b) \in Seq(Batches) /\ Len(Append(s, b)) = Len(s) + 1
      /\ \A i \in 1..Len(s) : Append(s, b)[i] = s[i]
      /\ Append(s, b)[Len(s) + 1] = b
  BY AppendProperties
<1>2. Len(s) \in Nat /\ DOMAIN s = 1..Len(s) /\ DOMAIN Append(s, b) = 1..(Len(s) + 1)
  BY <1>1
<1> QED
  BY <1>1, <1>2

LEMMA LessOf ==
    ASSUME NEW s \in Seq(Batches), s # <<>>
    PROVE  /\ Head(s) \in Batches /\ 1 \in DOMAIN s /\ Head(s) = s[1]
           /\ Tail(s) \in Seq(Batches) /\ Len(Tail(s)) = Len(s) - 1 /\ Len(s) >= 1
           /\ \A i \in DOMAIN Tail(s) : i + 1 \in DOMAIN s /\ Tail(s)[i] = s[i + 1]
<1>1. /\ Tail(s) \in Seq(Batches) /\ Len(Tail(s)) = Len(s) - 1
      /\ \A i \in 1..Len(Tail(s)) : Tail(s)[i] = s[i + 1]
      /\ Head(s) \in Batches /\ Head(s) = s[1]
  BY HeadTailProperties
<1>2. Len(s) \in Nat /\ DOMAIN s = 1..Len(s) /\ DOMAIN Tail(s) = 1..(Len(s) - 1) /\ Len(s) # 0
  BY <1>1, EmptySeq
<1> QED
  BY <1>1, <1>2

-------------------------------------------------------------------------------
LEMMA WindowTypedNext == WindowTyped /\ Place /\ [Next]_wvars => WindowTyped'
<1> SUFFICES ASSUME WindowTyped, Place, [Next]_wvars PROVE WindowTyped'
  OBVIOUS
<1>1. ASSUME NEW n \in Sizes, Submit(n) PROVE WindowTyped'
  <2>1. [size |-> n, age |-> 0] \in Batches
    BY DEF Batches
  <2>2. Append(pending, [size |-> n, age |-> 0]) \in Seq(Batches)
    BY <2>1, MoreOf DEF WindowTyped
  <2> QED
    BY <1>1, <2>2, ConfigTyped DEF Submit, WindowTyped, config, Products
<1>2. CASE Wake \/ LoopAgain
  BY <1>2 DEF Wake, LoopAgain, WindowTyped, config, Products
<1>3. CASE Drain
  <2>1. Head(pending) \in Batches /\ Tail(pending) \in Seq(Batches)
    BY <1>3, LessOf DEF Drain, WindowTyped
  <2>2. Append(out, Head(pending)) \in Seq(Batches) /\ Append(remaining, Head(pending)) \in Seq(Batches)
    BY <2>1, MoreOf DEF WindowTyped
  <2> QED
    BY <1>3, <2>1, <2>2 DEF Drain, WindowTyped, config, Products
<1>4. CASE DrainEnd
  BY <1>4, EmptyBatches DEF DrainEnd, WindowTyped, config, Products
<1>5. CASE Dispatch
  <2>1. Tail(out) \in Seq(Batches)
    BY <1>5, LessOf DEF Dispatch, WindowTyped
  <2> QED
    BY <1>5, <2>1 DEF Dispatch, WindowTyped, config, Products
<1>6. CASE Tick
  <2>1. Aged(pending) \in Seq(Batches) /\ Aged(out) \in Seq(Batches)
    BY AgedOK DEF WindowTyped
  <2> QED
    BY <1>6, <2>1 DEF Tick, WindowTyped, config, Products
<1>7. CASE UNCHANGED wvars
  BY <1>7 DEF wvars, WindowTyped, config, Products
<1> QED
  BY <1>1, <1>2, <1>3, <1>4, <1>5, <1>6, <1>7 DEF Next

LEMMA PlaceNext == WindowTyped /\ Place /\ [Next]_wvars => Place'
<1> SUFFICES ASSUME WindowTyped, Place, [Next]_wvars PROVE Place'
  OBVIOUS
<1>0. /\ Wait \in Nat /\ Encoding \in Nat /\ timer \in Nat /\ Period \in Nat
      /\ Jitter \in Nat /\ Wait = Period + Jitter /\ pc \in {"wait", "drain", "dispatch"}
  BY ConfigTyped, WindowAssumption DEF Wait, WindowTyped
<1>1. config' = config
  BY DEF Next, Submit, Wake, Drain, DrainEnd, Dispatch, LoopAgain, Tick, wvars
<1>2. Wait' = Wait
  BY <1>1 DEF Wait, Period, config
<1>3. CASE Tick
  <2>1. /\ timer' = timer + 1 /\ pc' = pc /\ remaining' = remaining
        /\ pc = "wait" => timer < Wait
        /\ pc = "dispatch" => timer < Encoding /\ out # <<>>
        /\ pc # "drain" /\ out' = Aged(out)
    BY <1>0, <1>3 DEF Tick, Urgent
  <2>2. out = <<>> <=> out' = <<>>
    <3>1. Aged(out) \in Seq(Batches) /\ Len(Aged(out)) = Len(out) /\ out \in Seq(Batches)
      BY AgedOK DEF WindowTyped
    <3> QED
      BY <2>1, <3>1, EmptySeq
  <2> QED
    BY <1>0, <1>2, <2>1, <2>2 DEF Place
<1>4. CASE \E n \in Sizes : Submit(n)
  BY <1>0, <1>2, <1>4 DEF Submit, Place
<1>5. CASE Wake \/ LoopAgain
  BY <1>0, <1>2, <1>5 DEF Wake, LoopAgain, Place
<1>6. CASE Drain \/ DrainEnd \/ Dispatch
  BY <1>0, <1>2, <1>6 DEF Drain, DrainEnd, Dispatch, Place
<1>7. CASE UNCHANGED wvars
  BY <1>2, <1>7 DEF wvars, Place
<1> QED
  BY <1>3, <1>4, <1>5, <1>6, <1>7 DEF Next

LEMMA AgeNext == WindowInv /\ WindowTyped' /\ Place' /\ [Next]_wvars => AgeInv'
<1> SUFFICES ASSUME WindowInv, WindowTyped', Place', [Next]_wvars PROVE AgeInv'
  OBVIOUS
<1> DEFINE G == Gone * Encoding
<1>0. /\ WindowTyped /\ Place /\ Gone \in Nat
      /\ Wait \in Nat /\ Encoding \in Nat /\ timer \in Nat /\ Longest \in Nat /\ G \in Nat
      /\ timer' \in Nat /\ limit \in Int /\ submitted \in Nat /\ Reached \in Nat
  <2>1. Wait \in Nat /\ Encoding \in Nat /\ timer \in Nat /\ Longest \in Nat /\ limit \in Int
    BY ConfigTyped DEF WindowInv
  <2>2. timer' \in Nat /\ submitted \in Nat /\ Gone \in Nat
    BY DEF WindowInv, WindowTyped, AgeInv
  <2> QED
    BY <2>1, <2>2, TimesType DEF WindowInv, Reached
<1>1. config' = config
  BY DEF Next, Submit, Wake, Drain, DrainEnd, Dispatch, LoopAgain, Tick, wvars
<1>2. Wait' = Wait /\ Longest' = Longest /\ limit' = limit /\ max_batch_size' = max_batch_size
  BY <1>1 DEF Wait, Longest, Period, config
<1>3. \A b : Due(b)' = Due(b)
  BY <1>2 DEF Due
<1>4. /\ Len(pending) \in Nat /\ Len(remaining) \in Nat /\ Len(out) \in Nat
      /\ pending \in Seq(Batches) /\ remaining \in Seq(Batches) /\ out \in Seq(Batches)
  BY <1>0, Lengths DEF WindowTyped
<1>5. /\ \A i \in DOMAIN pending : /\ pending[i] \in Batches /\ pending[i].age \in Nat
                                   /\ pending[i].age <= Longest + (G + Reached)
                                   /\ Prompt(pending[i], G + Reached)
      /\ \A i \in DOMAIN remaining : /\ remaining[i] \in Batches /\ remaining[i].age \in Nat
                                     /\ remaining[i].age < limit /\ ~Due(remaining[i])
      /\ \A i \in DOMAIN out : /\ out[i] \in Batches /\ out[i].age \in Nat
                               /\ out[i].age <= Longest + (Wait + G + timer)
  <2>1. \A b \in Batches : b.age \in Nat
    BY DEF Batches
  <2> QED
    BY <1>0, <2>1, Lengths DEF WindowInv, AgeInv, Young
(* What is left to show, with the new values. *)
<1>6. ASSUME NEW g \in Nat, Gone' = g,
             \A i \in DOMAIN pending' : /\ pending'[i].age <= Longest + (g * Encoding + Reached')
                                        /\ Prompt(pending'[i], g * Encoding + Reached'),
             \A i \in DOMAIN remaining' : remaining'[i].age < limit /\ ~Due(remaining'[i]),
             \A i \in DOMAIN out' : out'[i].age <= Longest + (Wait + g * Encoding + timer')
      PROVE  AgeInv'
  BY <1>2, <1>3, <1>6 DEF AgeInv, Young, Prompt
<1> HIDE DEF G
<1>7. G = Gone * Encoding
  BY DEF G
<1>8. CASE UNCHANGED wvars
  <2>1. Gone' = Gone /\ Reached' = Reached
    BY <1>2, <1>8 DEF wvars, Gone, Reached
  <2> QED
    BY <1>0, <1>5, <1>6, <1>7, <1>8, <2>1 DEF wvars
<1>9. ASSUME NEW n \in Sizes, Submit(n) PROVE AgeInv'
  <2> DEFINE b == [size |-> n, age |-> 0]
  <2>1. /\ b \in Batches /\ b.age = 0 /\ pending' = Append(pending, b)
        /\ submitted' = submitted + 1 /\ UNCHANGED <<remaining, out, pc, timer>>
    BY <1>9 DEF Submit, Batches
  <2>2. Gone' = Gone /\ Reached' = Reached
    BY <1>0, <1>2, <1>4, <2>1, MoreOf DEF Gone, Reached
  <2>3. b.age <= Longest + (G + Reached) /\ Prompt(b, G + Reached)
    BY <1>0, <2>1 DEF Prompt
  <2> HIDE DEF b
  <2>4. \A i \in DOMAIN pending' : /\ pending'[i].age <= Longest + (G + Reached)
                                   /\ Prompt(pending'[i], G + Reached)
    BY <1>4, <1>5, <2>1, <2>3, MoreOf
  <2> QED
    BY <1>0, <1>5, <1>6, <1>7, <2>1, <2>2, <2>4
<1>10. CASE Wake
  <2>1. /\ UNCHANGED <<pending, remaining, out, submitted>> /\ timer' = 0
        /\ Reached = timer /\ Reached' = Wait /\ timer <= Wait /\ out = <<>>
    BY <1>0, <1>2, <1>10 DEF Wake, Reached, Place
  <2>2. Gone' = Gone
    BY <2>1 DEF Gone
  <2>3. \A i \in DOMAIN pending : /\ pending[i].age <= Longest + (G + Wait)
                                  /\ Prompt(pending[i], G + Wait)
    BY <1>0, <1>5, <2>1 DEF Prompt
  <2> QED
    BY <1>0, <1>5, <1>6, <1>7, <2>1, <2>2, <2>3, EmptyBatches
<1>11. CASE Drain
  <2> DEFINE b == Head(pending)
  <2>1. /\ pending # <<>> /\ pc = "drain" /\ timer = 0 /\ UNCHANGED <<pc, timer, submitted>>
        /\ pending' = Tail(pending) /\ Reached = Wait /\ Reached' = Wait
        /\ \/ Due(b) /\ out' = Append(out, b) /\ remaining' = remaining
           \/ ~Due(b) /\ out' = out /\ remaining' = Append(remaining, b)
    BY <1>0, <1>2, <1>11 DEF Drain, Reached, Place
  <2>2. /\ b \in Batches /\ b.age \in Nat /\ b.age <= Longest + (G + Wait)
        /\ Len(pending') = Len(pending) - 1
        /\ \A i \in DOMAIN pending' : i + 1 \in DOMAIN pending /\ pending'[i] = pending[i + 1]
    BY <1>4, <1>5, <2>1, LessOf
  <2> HIDE DEF b
  <2>3. \A i \in DOMAIN pending' : /\ pending'[i].age <= Longest + (G + Reached')
                                   /\ Prompt(pending'[i], G + Reached')
    BY <1>5, <2>1, <2>2
  <2>4. CASE Due(b) /\ out' = Append(out, b) /\ remaining' = remaining
    <3>1. Gone' = Gone
      BY <1>0, <1>4, <2>1, <2>2, <2>4, MoreOf DEF Gone
    <3>2. \A i \in DOMAIN out' : out'[i].age <= Longest + (Wait + G + timer)
      BY <1>0, <1>4, <1>5, <2>1, <2>2, <2>4, MoreOf
    <3> QED
      BY <1>0, <1>5, <1>6, <1>7, <2>1, <2>3, <2>4, <3>1, <3>2
  <2>5. CASE ~Due(b) /\ out' = out /\ remaining' = Append(remaining, b)
    <3>1. Gone' = Gone
      BY <1>0, <1>4, <2>1, <2>2, <2>5, MoreOf DEF Gone
    <3>2. b.age < limit
      BY <1>0, <2>2, <2>5 DEF Due
    <3>3. \A i \in DOMAIN remaining' : remaining'[i].age < limit /\ ~Due(remaining'[i])
      BY <1>4, <1>5, <2>2, <2>5, <3>2, MoreOf
    <3> QED
      BY <1>0, <1>5, <1>6, <1>7, <2>1, <2>3, <2>5, <3>1, <3>3
  <2> QED
    BY <2>1, <2>4, <2>5
<1>12. CASE DrainEnd
  <2>1. /\ pending = <<>> /\ pending' = remaining /\ remaining' = <<>>
        /\ UNCHANGED <<out, timer, submitted>> /\ Reached' = timer /\ timer = 0
    BY <1>0, <1>2, <1>12 DEF DrainEnd, Reached, Place
  <2>2. Gone' = Gone
    BY <1>0, <1>4, <2>1, EmptyBatches DEF Gone
  <2>3. \A i \in DOMAIN remaining : /\ remaining[i].age <= Longest + (G + timer)
                                    /\ Prompt(remaining[i], G + timer)
    <3> SUFFICES ASSUME NEW i \in DOMAIN remaining
                 PROVE  /\ remaining[i].age <= Longest + (G + timer)
                        /\ Prompt(remaining[i], G + timer)
      OBVIOUS
    <3>1. limit <= Longest /\ remaining[i].age < limit /\ remaining[i].age \in Nat
      BY <1>0, <1>5, LimitBound
    <3>2. ~(max_batch_size >= 0 /\ remaining[i].size >= max_batch_size)
      BY <1>0, <1>5, LargeIsDue
    <3> QED
      BY <1>0, <3>1, <3>2 DEF Prompt
  <2> QED
    BY <1>0, <1>5, <1>6, <1>7, <2>1, <2>2, <2>3, EmptyBatches
<1>13. CASE Dispatch
  <2>1. /\ out # <<>> /\ out' = Tail(out) /\ timer' = 0 /\ pc = "dispatch" /\ timer <= Encoding
        /\ UNCHANGED <<pending, remaining, pc, submitted>>
        /\ Reached = timer /\ Reached' = 0
    BY <1>0, <1>2, <1>13 DEF Dispatch, Reached, Place
  <2>2. /\ Len(out') = Len(out) - 1
        /\ \A i \in DOMAIN out' : i + 1 \in DOMAIN out /\ out'[i] = out[i + 1]
    BY <1>4, <2>1, LessOf
  <2>3. Gone' = Gone + 1
    BY <1>0, <1>4, <2>1, <2>2 DEF Gone
  <2>4. (Gone + 1) * Encoding = G + Encoding
    BY <1>0, <1>7, TimesMonotone
  <2> DEFINE H == (Gone + 1) * Encoding
  <2> HIDE DEF H
  <2>5. H = G + Encoding
    BY <2>4 DEF H
  <2>6. \A i \in DOMAIN pending : /\ pending[i].age <= Longest + (H + 0)
                                  /\ Prompt(pending[i], H + 0)
    BY <1>0, <1>5, <2>1, <2>5 DEF Prompt
  <2>7. \A i \in DOMAIN out' : out'[i].age <= Longest + (Wait + H + 0)
    BY <1>0, <1>5, <2>1, <2>2, <2>5
  <2>8. Gone + 1 \in Nat
    BY <1>0
  <2> QED
    BY <1>5, <1>6, <2>1, <2>3, <2>6, <2>7, <2>8 DEF H
<1>14. CASE LoopAgain
  <2>1. /\ UNCHANGED <<pending, remaining, out, submitted>> /\ timer' = 0 /\ timer = 0
        /\ Reached = 0 /\ Reached' = 0
    BY <1>0, <1>2, <1>14 DEF LoopAgain, Reached, Place
  <2>2. Gone' = Gone
    BY <2>1 DEF Gone
  <2> QED
    BY <1>0, <1>5, <1>6, <1>7, <2>1, <2>2
<1>15. CASE Tick
  <2>1. /\ pending' = Aged(pending) /\ out' = Aged(out) /\ timer' = timer + 1 /\ pc # "drain"
        /\ UNCHANGED <<remaining, pc, submitted>> /\ Reached = timer /\ Reached' = timer + 1
    BY <1>2, <1>15 DEF Tick, Urgent, Reached
  <2>2. Gone' = Gone
    BY <1>4, <2>1, AgedOK DEF Gone
  <2>3. \A i \in DOMAIN pending' : /\ pending'[i].age <= Longest + (G + Reached')
                                   /\ Prompt(pending'[i], G + Reached')
    <3> SUFFICES ASSUME NEW i \in DOMAIN pending'
                 PROVE  /\ pending'[i].age <= Longest + (G + Reached')
                        /\ Prompt(pending'[i], G + Reached')
      OBVIOUS
    <3>1. /\ i \in DOMAIN pending /\ pending'[i].age = pending[i].age + 1
          /\ pending'[i].size = pending[i].size
      BY <1>4, <2>1, AgedOK
    <3>2. Prompt(pending[i], G + timer) /\ pending[i].age \in Nat
      BY <1>5, <2>1, <3>1
    <3> QED
      BY <1>0, <1>5, <2>1, <3>1, <3>2 DEF Prompt
  <2>4. \A i \in DOMAIN out' : out'[i].age <= Longest + (Wait + G + timer')
    BY <1>0, <1>4, <1>5, <2>1, AgedOK
  <2> QED
    BY <1>0, <1>5, <1>6, <1>7, <2>1, <2>2, <2>3, <2>4
<1> QED
  BY <1>8, <1>9, <1>10, <1>11, <1>12, <1>13, <1>14, <1>15 DEF Next

-------------------------------------------------------------------------------
LEMMA WindowInvInit == Init => WindowInv
<1> SUFFICES ASSUME Init PROVE WindowInv
  OBVIOUS
<1>1. WindowTyped
  BY WindowAssumption, EmptyBatches DEF Init, WindowTyped
<1>2. Wait \in Nat /\ Encoding \in Nat
  BY <1>1, ConfigTyped
<1>3. Place
  BY <1>2 DEF Init, Place
<1>4. Gone = 0
  <2>1. submitted = 0 /\ Len(pending) = 0 /\ Len(remaining) = 0 /\ Len(out) = 0
    BY EmptyBatches DEF Init
  <2> QED
    BY <2>1 DEF Gone
<1>5. AgeInv
  BY <1>4, EmptyBatches DEF Init, AgeInv
<1> QED
  BY <1>1, <1>3, <1>5 DEF WindowInv

LEMMA WindowInvNext == WindowInv /\ [Next]_wvars => WindowInv'
  BY WindowTypedNext, PlaceNext, AgeNext DEF WindowInv

LEMMA WindowInvariant == Spec => []WindowInv
  BY WindowInvInit, WindowInvNext, PTL DEF Spec

(* While a batch is in the queue, the dispatches behind it and the one under *)
(* way are those of other batches.                                           *)
LEMMA StillBusy ==
    ASSUME WindowInv, pending # <<>> \/ remaining # <<>>
    PROVE  /\ Gone * Encoding \in Nat /\ Wait \in Nat /\ Busy \in Nat
           /\ Gone * Encoding + Reached <= Wait + Busy
<1>0. /\ WindowTyped /\ Place /\ Gone \in Nat /\ Encoding \in Nat /\ Wait \in Nat
      /\ MaxBatches \in Nat /\ submitted \in Nat /\ submitted <= MaxBatches /\ timer \in Nat
      /\ pc \in {"wait", "drain", "dispatch"}
  <2>1. WindowTyped /\ Place /\ Gone \in Nat
    BY DEF WindowInv, AgeInv
  <2> QED
    BY <2>1, ConfigTyped DEF WindowTyped
<1>1. /\ Len(pending) \in Nat /\ Len(remaining) \in Nat /\ Len(out) \in Nat
      /\ Len(pending) >= 1 \/ Len(remaining) >= 1
  <2>1. pending \in Seq(Batches) /\ remaining \in Seq(Batches)
    BY <1>0 DEF WindowTyped
  <2>2. Len(pending) # 0 \/ Len(remaining) # 0
    BY <2>1, EmptySeq
  <2> QED
    BY <1>0, <2>2, Lengths
<1>2. Gone <= MaxBatches - 1 /\ MaxBatches - 1 \in Nat /\ (out # <<>> => Gone + 1 <= MaxBatches - 1)
  <2>1. out # <<>> => Len(out) >= 1
    <3>1. out \in Seq(Batches)
      BY <1>0 DEF WindowTyped
    <3> QED
      BY <1>1, <3>1, EmptySeq
  <2> QED
    BY <1>0, <1>1, <2>1 DEF Gone
<1>3. Gone * Encoding \in Nat /\ Busy \in Nat /\ Gone * Encoding <= Busy
  BY <1>0, <1>2, TimesMonotone DEF Busy
<1>4. out # <<>> => Gone * Encoding + Encoding <= Busy
  <2>1. Gone + 1 \in Nat /\ (Gone + 1) * Encoding = Gone * Encoding + Encoding
    BY <1>0, TimesMonotone
  <2>2. out # <<>> => (Gone + 1) * Encoding <= (MaxBatches - 1) * Encoding
    BY <1>0, <1>2, <2>1, TimesMonotone
  <2> QED
    BY <2>1, <2>2 DEF Busy
<1>5. CASE pc \in {"wait", "drain"}
  <2>1. Reached \in Nat /\ Reached <= Wait
    BY <1>0, <1>5 DEF Reached, Place
  <2> QED
    BY <1>0, <1>3, <2>1
<1>6. CASE pc = "dispatch"
  <2>1. Reached = timer /\ timer <= Encoding /\ (out = <<>> => timer = 0)
    BY <1>0, <1>6 DEF Reached, Place
  <2> QED
    BY <1>0, <1>3, <1>4, <2>1
<1> QED
  BY <1>0, <1>5, <1>6

LEMMA RangeIs == ASSUME NEW s, NEW b \in Range(s) PROVE \E i \in DOMAIN s : b = s[i]
  BY DEF Range

(* No batch waits longer than two waits of the dispatcher and the dispatches *)
(* of the other batches, however the time trigger overflows.                 *)
THEOREM WaitsAreBounded == Spec => []WaitBounded
<1>1. WindowInv => WaitBounded
  <2> SUFFICES ASSUME WindowInv PROVE WaitBounded
    OBVIOUS
  <2>0. /\ WindowTyped /\ Place /\ Gone \in Nat /\ Encoding \in Nat /\ Wait \in Nat
        /\ Longest \in Nat /\ timer \in Nat /\ limit \in Int /\ limit <= Longest
    BY ConfigTyped, LimitBound DEF WindowInv, AgeInv
  <2>1. ASSUME NEW b \in Range(pending) PROVE b.age <= Wait + Longest + Busy
    <3>1. PICK i \in DOMAIN pending : b = pending[i]
      BY <2>1, RangeIs
    <3>2. b \in Batches /\ b.age \in Nat /\ b.age <= Longest + (Gone * Encoding + Reached)
      BY <2>0, <3>1, Lengths DEF WindowInv, AgeInv, Young, Batches
    <3>3. pending # <<>>
      BY <3>1, EmptyBatches
    <3>4. /\ Gone * Encoding \in Nat /\ Busy \in Nat
          /\ Gone * Encoding + Reached <= Wait + Busy
      BY <3>3, StillBusy
    <3>5. Reached \in Nat
      BY <2>0 DEF Reached
    <3> QED
      BY <2>0, <3>2, <3>4, <3>5
  <2>2. ASSUME NEW b \in Range(remaining) PROVE b.age <= Wait + Longest + Busy
    <3>1. PICK i \in DOMAIN remaining : b = remaining[i]
      BY <2>2, RangeIs
    <3>2. b \in Batches /\ b.age \in Nat /\ b.age < limit
      BY <2>0, <3>1, Lengths DEF WindowInv, AgeInv, Batches
    <3>3. remaining # <<>>
      BY <3>1, EmptyBatches
    <3>4. Busy \in Nat
      BY <3>3, StillBusy
    <3> QED
      BY <2>0, <3>2, <3>4
  <2>3. ASSUME NEW b \in Range(out) PROVE b.age <= Wait + Longest + Busy + Encoding
    <3>1. PICK i \in DOMAIN out : b = out[i]
      BY <2>3, RangeIs
    <3>2. b \in Batches /\ b.age \in Nat /\ b.age <= Longest + (Wait + Gone * Encoding + timer)
      BY <2>0, <3>1, Lengths DEF WindowInv, AgeInv, Young, Batches
    <3>3. out # <<>> /\ pc # "wait"
      BY <2>0, <3>1, EmptyBatches DEF Place
    <3>4. Len(out) \in Nat /\ Len(out) >= 1 /\ Len(pending) \in Nat /\ Len(remaining) \in Nat
      BY <2>0, <3>1, Lengths
    <3>5. Gone <= MaxBatches - 1 /\ MaxBatches - 1 \in Nat
      <4>1. submitted \in Nat /\ MaxBatches \in Nat /\ submitted <= MaxBatches
        BY <2>0, ConfigTyped DEF WindowTyped
      <4> QED
        BY <2>0, <3>4, <4>1 DEF Gone
    <3>6. Gone * Encoding \in Nat /\ Busy \in Nat /\ Gone * Encoding <= Busy
      BY <2>0, <3>5, TimesMonotone DEF Busy
    <3>7. timer <= Encoding
      BY <2>0, <3>3 DEF Place, WindowTyped
    <3> QED
      BY <2>0, <3>2, <3>6, <3>7
  <2> QED
    BY <2>1, <2>2, <2>3 DEF WaitBounded, Waiting
<1> QED
  BY <1>1, WindowInvariant, PTL

(* A batch of max_batch_size queries leaves the queue at the next wake-up.   *)
THEOREM LargeBatchesArePrompt == Spec => []LargePrompt
<1>1. WindowInv => LargePrompt
  <2> SUFFICES ASSUME WindowInv, max_batch_size >= 0, NEW b \in Waiting,
                      b.size >= max_batch_size
               PROVE  b.age <= Wait + Busy
    BY DEF LargePrompt
  <2>0. WindowTyped /\ Place /\ Gone \in Nat /\ timer \in Nat /\ Wait \in Nat
    BY ConfigTyped DEF WindowInv, AgeInv
  <2>1. ASSUME NEW i \in DOMAIN remaining, b = remaining[i] PROVE FALSE
    <3>1. b \in Batches /\ ~Due(b)
      BY <2>0, <2>1, Lengths DEF WindowInv, AgeInv
    <3> QED
      BY <2>0, <3>1, LargeIsDue
  <2>2. PICK i \in DOMAIN pending : b = pending[i]
    BY <2>1, RangeIs DEF Waiting
  <2>3. b \in Batches /\ b.age \in Nat /\ b.age <= Gone * Encoding + Reached
    BY <2>0, <2>2, Lengths DEF WindowInv, AgeInv, Prompt, Batches
  <2>4. pending # <<>>
    BY <2>2, EmptyBatches
  <2>5. /\ Gone * Encoding \in Nat /\ Wait \in Nat /\ Busy \in Nat
        /\ Gone * Encoding + Reached <= Wait + Busy
    BY <2>4, StillBusy
  <2>6. Reached \in Nat
    BY <2>0 DEF Reached
  <2> QED
    BY <2>3, <2>5, <2>6
<1> QED
  BY <1>1, WindowInvariant, PTL

==============================================================================
