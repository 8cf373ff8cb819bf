----------------------------- MODULE SumTheorems -----------------------------
(****************************************************************************)
(* Induction and recursion over finite sets without operator parameters,    *)
(* and what SumFunctionOnSet of the community modules computes for every    *)
(* finite set.                                                              *)
(****************************************************************************)
EXTENDS Integers, Functions, FiniteSetTheorems, WellFoundedInduction, TLAPS

(* Induction over the naturals, for the set of those with a property. *)
LEMMA NatSetInduction ==
    ASSUME NEW S, 0 \in S, \A n \in Nat : n \in S => n + 1 \in S
    PROVE  \A n \in Nat : n \in S
<1> SUFFICES ASSUME Nat \ S # {} PROVE FALSE
  OBVIOUS
<1> DEFINE T == Nat \ S
<1>1. T \subseteq Nat /\ T # {}
  OBVIOUS
<1> HIDE DEF T
<1>2. PICK m \in T : \A k \in T : ~(<<k, m>> \in OpToRel(<, Nat))
  BY <1>1, NatLessThanWellFounded, WFMin
<1>3. \A k \in T : ~(k < m)
  BY <1>1, <1>2 DEF OpToRel
<1> USE DEF T
<1>4. m \in Nat /\ m # 0 /\ m - 1 \in S
  BY <1>3
<1> QED
  BY <1>4

LEMMA OneLess ==
    ASSUME NEW S, IsFiniteSet(S), NEW x \in S
    PROVE  /\ IsFiniteSet(S \ {x}) /\ S \ {x} \in SUBSET S
           /\ Cardinality(S) \in Nat /\ Cardinality(S \ {x}) \in Nat
           /\ Cardinality(S) = Cardinality(S \ {x}) + 1
<1>1. Cardinality(S) \in Nat
  BY FS_CardinalityType
<1>2. IsFiniteSet(S \ {x}) /\ Cardinality(S \ {x}) = Cardinality(S) - 1
  BY FS_RemoveElement
<1>3. Cardinality(S \ {x}) \in Nat
  BY <1>2, FS_CardinalityType
<1> QED
  BY <1>1, <1>2, <1>3

(* A function defined by recursion over the subsets of a finite set, which   *)
(* takes one element at a time out, exists.                                  *)
Picks(pick, S) == \A s \in SUBSET S : s # {} => pick[s] \in s

StaysIn(step, S, X) == \A x \in S, v \in X : step[<<x, v>>] \in X

Recurses(it, S, base, step, pick) ==
    \A s \in SUBSET S :
        it[s] = IF s = {} THEN base ELSE step[<<pick[s], it[s \ {pick[s]}]>>]

LEMMA SetRecursion ==
    ASSUME NEW S, IsFiniteSet(S), NEW X, NEW base \in X,
           NEW step, StaysIn(step, S, X), NEW pick, Picks(pick, S)
    PROVE  \E it \in [SUBSET S -> X] : Recurses(it, S, base, step, pick)
<1> DEFINE Right(it, s) ==
              it[s] = IF s = {} THEN base ELSE step[<<pick[s], it[s \ {pick[s]}]>>]
           N == {n \in Nat : \E it \in [SUBSET S -> X] : \A s \in SUBSET S :
                               Cardinality(s) <= n => Right(it, s)}
<1>0. \A s \in SUBSET S : IsFiniteSet(s) /\ Cardinality(s) \in Nat
                            /\ Cardinality(s) <= Cardinality(S)
  BY FS_Subset, FS_CardinalityType
<1>1. 0 \in N
  <2> DEFINE it == [s \in SUBSET S |-> base]
  <2>1. ASSUME NEW s \in SUBSET S, Cardinality(s) <= 0 PROVE s = {}
    BY <1>0, <2>1, FS_EmptySet
  <2>2. \A s \in SUBSET S : Cardinality(s) <= 0 => Right(it, s)
    BY <2>1
  <2>3. it \in [SUBSET S -> X]
    OBVIOUS
  <2> HIDE DEF it
  <2> QED
    BY <2>2, <2>3
<1>2. ASSUME NEW n \in Nat, n \in N PROVE n + 1 \in N
  <2>1. PICK f \in [SUBSET S -> X] :
            \A s \in SUBSET S : Cardinality(s) <= n => Right(f, s)
    BY <1>2
  <2> DEFINE g == [s \in SUBSET S |->
                      IF s = {} THEN base ELSE step[<<pick[s], f[s \ {pick[s]}]>>]]
  <2>2. ASSUME NEW s \in SUBSET S, s # {}
        PROVE  /\ pick[s] \in S /\ s \ {pick[s]} \in SUBSET S
               /\ Cardinality(s) = Cardinality(s \ {pick[s]}) + 1
    BY <1>0, <2>2, OneLess DEF Picks
  <2>3. g \in [SUBSET S -> X]
    <3>1. ASSUME NEW s \in SUBSET S, s # {} PROVE step[<<pick[s], f[s \ {pick[s]}]>>] \in X
      <4>1. f[s \ {pick[s]}] \in X
        BY <2>2, <3>1
      <4> QED
        BY <2>2, <3>1, <4>1 DEF StaysIn
    <3> QED
      BY <3>1
  <2>4. \A s \in SUBSET S : Cardinality(s) <= n => g[s] = f[s]
    BY <2>1
  <2>5. ASSUME NEW s \in SUBSET S, Cardinality(s) <= n + 1 PROVE Right(g, s)
    <3>1. CASE s = {}
      BY <3>1
    <3>2. CASE s # {}
      <4> DEFINE t == s \ {pick[s]}
      <4>1. t \in SUBSET S /\ Cardinality(t) <= n
        <5>1. t \in SUBSET S /\ Cardinality(s) = Cardinality(t) + 1
          BY <2>2, <3>2
        <5>2. Cardinality(s) \in Nat /\ Cardinality(t) \in Nat
          BY <1>0, <5>1
        <5> HIDE DEF t
        <5> QED
          BY <2>5, <5>1, <5>2
      <4>2. g[t] = f[t]
        BY <2>4, <4>1
      <4>3. g[s] = step[<<pick[s], f[t]>>]
        BY <3>2
      <4> HIDE DEF g
      <4> QED
        BY <3>2, <4>2, <4>3
    <3> QED
      BY <3>1, <3>2
  <2> HIDE DEF g, Right
  <2>6. \E it \in [SUBSET S -> X] : \A s \in SUBSET S :
           Cardinality(s) <= n + 1 => Right(it, s)
    BY <2>3, <2>5
  <2> QED
    BY <2>6
<1> HIDE DEF N
<1>3. Cardinality(S) \in N
  BY <1>0, <1>1, <1>2, NatSetInduction
<1> QED
  BY <1>0, <1>3 DEF N, Recurses

-------------------------------------------------------------------------------
(* The function of sums over the subsets of S that SumFunctionOnSet chooses,  *)
(* and the element it takes out of a set.                                    *)
Some(s) == CHOOSE x \in s : TRUE

IsSums(it, g, S) ==
    it = [s \in SUBSET S |-> IF s = {} THEN 0 ELSE g[Some(s)] + it[s \ {Some(s)}]]

Sums(g, S) == CHOOSE it : IsSums(it, g, S)

LEMMA SumIs == ASSUME NEW g, NEW S PROVE SumFunctionOnSet(g, S) = Sums(g, S)[S]
  BY DEF SumFunctionOnSet, FoldFunctionOnSet, MapThenFoldSet, Sums, IsSums, Some

LEMMA SomeIn == ASSUME NEW s, s # {} PROVE Some(s) \in s
  BY DEF Some

(* Sums over two sets agree on the subsets of both. *)
LEMMA SumsAgree ==
    ASSUME NEW g, NEW S, NEW T, NEW i, NEW j, IsSums(i, g, S), IsSums(j, g, T),
           NEW u, u \subseteq S, u \subseteq T, IsFiniteSet(u)
    PROVE  i[u] = j[u]
<1> DEFINE N == {n \in Nat : \A v \in SUBSET u : Cardinality(v) = n => i[v] = j[v]}
<1>0. \A v \in SUBSET u : IsFiniteSet(v) /\ Cardinality(v) \in Nat /\ v \in SUBSET S /\ v \in SUBSET T
  BY FS_Subset, FS_CardinalityType
<1>e. \A v \in SUBSET S : i[v] = IF v = {} THEN 0 ELSE g[Some(v)] + i[v \ {Some(v)}]
  BY DEF IsSums
<1>f. \A v \in SUBSET T : j[v] = IF v = {} THEN 0 ELSE g[Some(v)] + j[v \ {Some(v)}]
  BY DEF IsSums
<1>1. 0 \in N
  <2> SUFFICES ASSUME NEW v \in SUBSET u, Cardinality(v) = 0 PROVE i[v] = j[v]
    OBVIOUS
  <2>1. v = {}
    BY <1>0, FS_EmptySet
  <2> QED
    BY <1>0, <1>e, <1>f, <2>1
<1>2. ASSUME NEW n \in Nat, n \in N PROVE n + 1 \in N
  <2> SUFFICES ASSUME NEW v \in SUBSET u, Cardinality(v) = n + 1 PROVE i[v] = j[v]
    OBVIOUS
  <2>1. v # {}
    BY <1>0, FS_EmptySet
  <2>2. Some(v) \in v
    BY <2>1, SomeIn
  <2> DEFINE w == v \ {Some(v)}
  <2>3. w \in SUBSET u /\ Cardinality(w) = n
    BY <1>0, <2>2, OneLess
  <2>4. i[w] = j[w]
    BY <1>2, <2>3
  <2>5. v \in SUBSET S /\ v \in SUBSET T
    BY <1>0
  <2> QED
    BY <1>e, <1>f, <2>1, <2>4, <2>5
<1> HIDE DEF N
<1>3. Cardinality(u) \in N
  BY <1>0, <1>1, <1>2, NatSetInduction
<1> QED
  BY <1>3 DEF N

LEMMA SumsExist == ASSUME NEW g, NEW S, IsFiniteSet(S) PROVE IsSums(Sums(g, S), g, S)
<1> DEFINE N == {n \in Nat : \A T : IsFiniteSet(T) /\ Cardinality(T) < n => \E it : IsSums(it, g, T)}
<1>1. 0 \in N
  BY FS_CardinalityType
<1>2. ASSUME NEW n \in Nat, n \in N PROVE n + 1 \in N
  <2> SUFFICES ASSUME NEW T, IsFiniteSet(T), Cardinality(T) < n + 1 PROVE \E it : IsSums(it, g, T)
    OBVIOUS
  <2> DEFINE it == [s \in SUBSET T |->
                       IF s = {} THEN 0 ELSE g[Some(s)] + Sums(g, s \ {Some(s)})[s \ {Some(s)}]]
  <2>1. \A s \in SUBSET T : IsFiniteSet(s) /\ Cardinality(s) \in Nat /\ Cardinality(s) <= Cardinality(T)
    BY FS_Subset, FS_CardinalityType
  <2>2. ASSUME NEW s \in SUBSET T, s # {}
        PROVE  it[s \ {Some(s)}] = Sums(g, s \ {Some(s)})[s \ {Some(s)}]
    <3> DEFINE t == s \ {Some(s)}
    <3>0. Some(s) \in s
      BY <2>2, SomeIn
    <3>1. t \in SUBSET T /\ IsFiniteSet(t) /\ Cardinality(t) < n
      <4>1. /\ IsFiniteSet(s) /\ IsFiniteSet(t) /\ t \in SUBSET s
            /\ Cardinality(t) \in Nat /\ Cardinality(s) = Cardinality(t) + 1
        BY <2>1, <3>0, OneLess
      <4> HIDE DEF t
      <4> QED
        BY <2>1, <4>1
    <3>2. IsSums(Sums(g, t), g, t)
      BY <1>2, <3>1 DEF Sums
    <3>3. Sums(g, t)[t] = IF t = {} THEN 0 ELSE g[Some(t)] + Sums(g, t)[t \ {Some(t)}]
      BY <3>2 DEF IsSums
    <3>4. it[t] = IF t = {} THEN 0 ELSE g[Some(t)] + Sums(g, t \ {Some(t)})[t \ {Some(t)}]
      BY <3>1
    <3>5. ASSUME t # {} PROVE Sums(g, t)[t \ {Some(t)}] = Sums(g, t \ {Some(t)})[t \ {Some(t)}]
      <4> DEFINE q == t \ {Some(t)}
      <4>0. Some(t) \in t
        BY <3>5, SomeIn
      <4>1. IsFiniteSet(q) /\ Cardinality(q) < n /\ q \subseteq t
        <5> HIDE DEF t
        <5>1. /\ IsFiniteSet(t) /\ IsFiniteSet(q) /\ q \in SUBSET t
              /\ Cardinality(q) \in Nat /\ Cardinality(t) = Cardinality(q) + 1
          BY <3>1, <4>0, OneLess
        <5> HIDE DEF q
        <5> QED
          BY <3>1, <5>1
      <4>2. IsSums(Sums(g, q), g, q)
        BY <1>2, <4>1 DEF Sums
      <4> HIDE DEF q, t
      <4>3. Sums(g, t)[q] = Sums(g, q)[q]
        BY <3>2, <4>1, <4>2, SumsAgree
      <4> QED
        BY <4>3 DEF q
    <3> HIDE DEF t, it
    <3>6. it[t] = Sums(g, t)[t]
      BY <3>3, <3>4, <3>5
    <3> QED
      BY <3>6 DEF t
  <2>3. it = [s \in SUBSET T |-> IF s = {} THEN 0 ELSE g[Some(s)] + it[s \ {Some(s)}]]
    <3> DEFINE right == [s \in SUBSET T |-> IF s = {} THEN 0 ELSE g[Some(s)] + it[s \ {Some(s)}]]
    <3>1. \A s \in SUBSET T : it[s] = right[s]
      <4> SUFFICES ASSUME NEW s \in SUBSET T PROVE it[s] = right[s]
        OBVIOUS
      <4>1. it[s] = IF s = {} THEN 0 ELSE g[Some(s)] + Sums(g, s \ {Some(s)})[s \ {Some(s)}]
        OBVIOUS
      <4> HIDE DEF it
      <4> QED
        BY <2>2, <4>1
    <3> QED
      BY <3>1
  <2> HIDE DEF it
  <2> QED
    BY <2>3 DEF IsSums
<1> HIDE DEF N
<1>3. Cardinality(S) + 1 \in N /\ Cardinality(S) \in Nat
  BY <1>1, <1>2, NatSetInduction, FS_CardinalityType
<1> QED
  BY <1>3 DEF N, Sums

-------------------------------------------------------------------------------
LEMMA SumEmpty == ASSUME NEW g PROVE SumFunctionOnSet(g, {}) = 0
<1>1. IsSums(Sums(g, {}), g, {})
  BY SumsExist, FS_EmptySet
<1> QED
  BY <1>1, SumIs DEF IsSums

LEMMA SumSome ==
    ASSUME NEW g, NEW S, IsFiniteSet(S), S # {}
    PROVE  SumFunctionOnSet(g, S) = g[Some(S)] + SumFunctionOnSet(g, S \ {Some(S)})
<1> DEFINE T == S \ {Some(S)}
<1>1. IsFiniteSet(T) /\ T \subseteq S
  BY SomeIn, OneLess
<1>2. IsSums(Sums(g, S), g, S)
  BY SumsExist
<1>3. IsSums(Sums(g, T), g, T)
  BY <1>1, SumsExist
<1>4. Sums(g, S)[S] = g[Some(S)] + Sums(g, S)[T]
  BY <1>2 DEF IsSums
<1> HIDE DEF T
<1>5. Sums(g, S)[T] = Sums(g, T)[T]
  BY <1>1, <1>2, <1>3, SumsAgree
<1>6. SumFunctionOnSet(g, S) = g[Some(S)] + SumFunctionOnSet(g, T)
  BY <1>4, <1>5, SumIs
<1> QED
  BY <1>6 DEF T

LEMMA SumType ==
    ASSUME NEW g, NEW S, IsFiniteSet(S), \A x \in S : g[x] \in Int
    PROVE  SumFunctionOnSet(g, S) \in Int
<1> DEFINE N == {n \in Nat : \A T \in SUBSET S :
                               Cardinality(T) = n => SumFunctionOnSet(g, T) \in Int}
<1>0. \A T \in SUBSET S : IsFiniteSet(T) /\ Cardinality(T) \in Nat
  BY FS_Subset, FS_CardinalityType
<1>1. 0 \in N
  BY <1>0, FS_EmptySet, SumEmpty
<1>2. ASSUME NEW n \in Nat, n \in N PROVE n + 1 \in N
  <2> SUFFICES ASSUME NEW T \in SUBSET S, Cardinality(T) = n + 1
               PROVE  SumFunctionOnSet(g, T) \in Int
    OBVIOUS
  <2>1. T # {} /\ IsFiniteSet(T)
    BY <1>0, FS_EmptySet
  <2>2. Some(T) \in T
    BY <2>1, SomeIn
  <2>3. Cardinality(T \ {Some(T)}) = n /\ T \ {Some(T)} \in SUBSET S
    BY <2>1, <2>2, OneLess
  <2>4. SumFunctionOnSet(g, T \ {Some(T)}) \in Int
    BY <1>2, <2>3
  <2>5. g[Some(T)] \in Int
    BY <2>2
  <2> QED
    BY <2>1, <2>4, <2>5, SumSome
<1> HIDE DEF N
<1>3. Cardinality(S) \in N
  BY <1>0, <1>1, <1>2, NatSetInduction
<1> QED
  BY <1>3 DEF N

(* The element that is taken out does not matter. *)
LEMMA SumTake ==
    ASSUME NEW g, NEW S, IsFiniteSet(S), \A x \in S : g[x] \in Int, NEW y \in S
    PROVE  SumFunctionOnSet(g, S) = g[y] + SumFunctionOnSet(g, S \ {y})
<1> DEFINE Right(T) == \A x \in T : SumFunctionOnSet(g, T) = g[x] + SumFunctionOnSet(g, T \ {x})
<1> DEFINE N == {n \in Nat : \A T \in SUBSET S : Cardinality(T) = n => Right(T)}
<1>0. \A T \in SUBSET S : IsFiniteSet(T) /\ Cardinality(T) \in Nat
  BY FS_Subset, FS_CardinalityType
<1>1. 0 \in N
  BY <1>0, FS_EmptySet
<1>2. ASSUME NEW n \in Nat, n \in N PROVE n + 1 \in N
  <2> SUFFICES ASSUME NEW T \in SUBSET S, Cardinality(T) = n + 1, NEW x \in T
               PROVE  SumFunctionOnSet(g, T) = g[x] + SumFunctionOnSet(g, T \ {x})
    OBVIOUS
  <2> DEFINE a == Some(T)
  <2>1. IsFiniteSet(T) /\ a \in T
    BY <1>0, SomeIn
  <2>2. SumFunctionOnSet(g, T) = g[a] + SumFunctionOnSet(g, T \ {a})
    BY <2>1, SumSome
  <2> HIDE DEF a
  <2>3. CASE x = a
    BY <2>2, <2>3
  <2>4. CASE x # a
    <3> DEFINE W == (T \ {a}) \ {x}
    <3>1. /\ T \ {a} \in SUBSET S /\ Cardinality(T \ {a}) = n /\ x \in T \ {a}
          /\ T \ {x} \in SUBSET S /\ Cardinality(T \ {x}) = n /\ a \in T \ {x}
          /\ (T \ {x}) \ {a} = W
      <4>1. /\ T \ {a} \in SUBSET S /\ x \in T \ {a} /\ T \ {x} \in SUBSET S
            /\ a \in T \ {x} /\ (T \ {x}) \ {a} = W
        BY <2>1, <2>4
      <4>2. Cardinality(T \ {a}) \in Nat /\ Cardinality(T) = Cardinality(T \ {a}) + 1
        BY <2>1, OneLess
      <4>3. Cardinality(T \ {x}) \in Nat /\ Cardinality(T) = Cardinality(T \ {x}) + 1
        BY <2>1, OneLess
      <4> QED
        BY <4>1, <4>2, <4>3
    <3>2. SumFunctionOnSet(g, T \ {a}) = g[x] + SumFunctionOnSet(g, W)
      BY <1>2, <3>1
    <3>3. SumFunctionOnSet(g, T \ {x}) = g[a] + SumFunctionOnSet(g, W)
      BY <1>2, <3>1
    <3>4. IsFiniteSet(W) /\ W \subseteq S
      BY <1>0
    <3> HIDE DEF W
    <3>5. SumFunctionOnSet(g, W) \in Int /\ g[x] \in Int /\ g[a] \in Int
      BY <2>1, <3>4, SumType
    <3> QED
      BY <2>2, <3>2, <3>3, <3>5
  <2> QED
    BY <2>3, <2>4
<1> HIDE DEF N
<1>3. Cardinality(S) \in N
  BY <1>0, <1>1, <1>2, NatSetInduction
<1> QED
  BY <1>3 DEF N

LEMMA SumAdd ==
    ASSUME NEW g, NEW S, IsFiniteSet(S), \A x \in S : g[x] \in Int,
           NEW y, y \notin S, g[y] \in Int
    PROVE  SumFunctionOnSet(g, S \cup {y}) = SumFunctionOnSet(g, S) + g[y]
<1>1. IsFiniteSet(S \cup {y}) /\ (S \cup {y}) \ {y} = S
  BY FS_AddElement
<1>2. \A x \in S \cup {y} : g[x] \in Int
  OBVIOUS
<1>3. SumFunctionOnSet(g, S \cup {y}) = g[y] + SumFunctionOnSet(g, (S \cup {y}) \ {y})
  BY <1>1, <1>2, SumTake
<1>4. SumFunctionOnSet(g, S) \in Int
  BY SumType
<1>5. SumFunctionOnSet(g, (S \cup {y}) \ {y}) = SumFunctionOnSet(g, S)
  BY <1>1
<1> HIDE DEF SumFunctionOnSet
<1> QED
  BY <1>3, <1>4, <1>5

(* The sum depends on the values over the set only. *)
LEMMA SumSame ==
    ASSUME NEW g, NEW h, NEW S, IsFiniteSet(S), \A x \in S : g[x] = h[x]
    PROVE  SumFunctionOnSet(g, S) = SumFunctionOnSet(h, S)
<1> DEFINE N == {n \in Nat : \A T \in SUBSET S :
                    Cardinality(T) = n => SumFunctionOnSet(g, T) = SumFunctionOnSet(h, T)}
<1>0. \A T \in SUBSET S : IsFiniteSet(T) /\ Cardinality(T) \in Nat
  BY FS_Subset, FS_CardinalityType
<1>1. 0 \in N
  BY <1>0, FS_EmptySet, SumEmpty
<1>2. ASSUME NEW n \in Nat, n \in N PROVE n + 1 \in N
  <2> SUFFICES ASSUME NEW T \in SUBSET S, Cardinality(T) = n + 1
               PROVE  SumFunctionOnSet(g, T) = SumFunctionOnSet(h, T)
    OBVIOUS
  <2>1. T # {} /\ IsFiniteSet(T)
    BY <1>0, FS_EmptySet
  <2>2. Some(T) \in T
    BY <2>1, SomeIn
  <2>3. Cardinality(T \ {Some(T)}) = n /\ T \ {Some(T)} \in SUBSET S
    BY <2>1, <2>2, OneLess
  <2>4. SumFunctionOnSet(g, T \ {Some(T)}) = SumFunctionOnSet(h, T \ {Some(T)})
    BY <1>2, <2>3
  <2>5. g[Some(T)] = h[Some(T)]
    BY <2>2
  <2> QED
    BY <2>1, <2>4, <2>5, SumSome
<1> HIDE DEF N
<1>3. Cardinality(S) \in N
  BY <1>0, <1>1, <1>2, NatSetInduction
<1> QED
  BY <1>3 DEF N

==============================================================================
