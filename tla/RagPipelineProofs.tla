--------------------------- MODULE RagPipelineProofs ---------------------------
(****************************************************************************)
(* Proofs about RagPipeline, for any number of queries and loads.           *)
(****************************************************************************)
EXTENDS RagPipeline, FiniteSetTheorems, TLAPS

-------------------------------------------------------------------------------
(* Type correctness, one step per action.                                    *)
Stages == {"idle", "metadata", "flat", "add", "build", "return", "throw", "over"}
Places == {"idle", "is_ready", "is_loaded", "submit", "get", "search", "over"}

LEMMA AtOK ==
    ASSUME TypeOK, NEW l \in Loaders, NEW from, NEW to \in Stages, At(l, from, to),
           ready' \in BOOLEAN, index' \in Indexes, metadata' \subseteq Loaders
    PROVE  TypeOK'
<1>1. load' = [load EXCEPT ![l].at = to] /\ UNCHANGED <<search, faulted, batcher>>
  BY DEF At
<1>2. load' \in [Loaders -> [kind : Kinds, at : Stages]]
  BY <1>1 DEF TypeOK, Stages
<1>3. UNCHANGED <<query, using, answer, faulted, status, closed, crashed>>
  BY <1>1 DEF search, batcher
<1> QED
  BY <1>2, <1>3 DEF TypeOK, Stages, Batcher!STypeOK, Batcher!Statuses

LEMMA LoadTyped == ASSUME TypeOK, NEW l \in Loaders, Load(l) PROVE TypeOK'
<1>0. ready \in BOOLEAN /\ index \in Indexes /\ metadata \subseteq Loaders
  BY DEF TypeOK
<1> USE <1>0 DEF Stages
<1>1. CASE LoadMetadata(l)
  <2>1. At(l, "metadata", "flat") /\ ready' = ready /\ index' = index
        /\ metadata' \subseteq Loaders
    BY <1>1 DEF LoadMetadata
  <2> QED
    BY <2>1, AtOK
<1>2. CASE LoadFlat(l)
  <2>1. At(l, "flat", "add") /\ ready' = ready /\ metadata' = metadata /\ index' \in Indexes
    BY <1>2 DEF LoadFlat, Replaced, Indexes
  <2> QED
    BY <2>1, AtOK
<1>3. CASE LoadAdd(l)
  <2>1. At(l, "add", "build") /\ ready' = ready /\ metadata' = metadata /\ index' \in Indexes
    BY <1>3 DEF LoadAdd, Indexes
  <2> QED
    BY <2>1, AtOK
<1>4. CASE LoadBuild(l)
  <2>1. At(l, "build", "return") /\ ready' = ready /\ metadata' = metadata
        /\ index' \in Indexes
    BY <1>4 DEF LoadBuild, Indexes
  <2> QED
    BY <2>1, AtOK
<1>5. CASE LoadRefused(l)
  BY <1>5, AtOK DEF LoadRefused
<1>6. CASE LoadReturns(l)
  BY <1>6, AtOK DEF LoadReturns
<1>7. CASE LoadThrows(l)
  BY <1>7, AtOK DEF LoadThrows
<1> QED
  BY <1>1, <1>2, <1>3, <1>4, <1>5, <1>6, <1>7 DEF Load

(* The batcher keeps to its own types. *)
LEMMA ServiceTyped ==
    ASSUME Batcher!STypeOK,
           \/ UNCHANGED batcher \/ Batcher!Crash
           \/ \E r \in Requests : Batcher!Accept(r) \/ Batcher!Settle(r)
    PROVE  Batcher!STypeOK'
<1> USE DEF Batcher!STypeOK, Batcher!Statuses
<1>1. CASE UNCHANGED batcher
  BY <1>1 DEF batcher
<1>2. CASE Batcher!Crash
  BY <1>2 DEF Batcher!Crash
<1>3. ASSUME NEW r \in Requests, Batcher!Accept(r) \/ Batcher!Settle(r)
      PROVE  Batcher!STypeOK'
  BY <1>3 DEF Batcher!Accept, Batcher!Settle, Batcher!Resolve
<1> QED
  BY <1>1, <1>2, <1>3

LEMMA GoOK ==
    ASSUME TypeOK, Batcher!STypeOK', NEW q \in Requests, NEW from \in Places \ {"over"},
           NEW to \in Places \ {"over"}, Go(q, from, to), answer' = answer,
           using' \in [Requests -> Indexes]
    PROVE  TypeOK'
<1>1. /\ query[q] = from /\ query' = [query EXCEPT ![q] = to]
      /\ UNCHANGED <<ready, index, metadata, load, faulted>>
  BY DEF Go
<1>2. query' \in [Requests -> Places] /\ \A p \in Requests \ {q} : query'[p] = query[p]
  BY <1>1 DEF TypeOK, Places
<1>3. \A p \in Requests : query'[p] = "over" <=> answer'[p] # "none"
  BY <1>1, <1>2 DEF TypeOK
<1> QED
  BY <1>1, <1>2, <1>3 DEF TypeOK, Places

LEMMA EndsOK ==
    ASSUME TypeOK, Batcher!STypeOK', NEW q \in Requests, NEW from,
           NEW outcome \in {"empty", "error", "partial", "whole"}, Ends(q, from, outcome)
    PROVE  TypeOK'
<1>1. /\ query' = [query EXCEPT ![q] = "over"]
      /\ UNCHANGED <<ready, index, metadata, load, faulted, using>>
      /\ answer' = [answer EXCEPT ![q] = outcome]
  BY DEF Ends, Go
<1>2. /\ query' \in [Requests -> Places] /\ \A p \in Requests \ {q} : query'[p] = query[p]
      /\ query'[q] = "over"
  BY <1>1 DEF TypeOK, Places
<1>3. \A p \in Requests : query'[p] = "over" <=> answer'[p] # "none"
  BY <1>1, <1>2 DEF TypeOK
<1>4. answer' \in [Requests -> {"none", "empty", "error", "partial", "whole"}]
  BY <1>1 DEF TypeOK
<1> QED
  BY <1>1, <1>2, <1>3, <1>4 DEF TypeOK, Places

LEMMA QueryTyped == ASSUME TypeOK, NEW q \in Requests, QueryAsync(q) \/ Query(q) PROVE TypeOK'
<1>0. Batcher!STypeOK /\ using \in [Requests -> Indexes] /\ index \in Indexes
  BY DEF TypeOK
<1> USE <1>0 DEF Places
<1>1. CASE QueryAsync(q)
  BY <1>1, GoOK, ServiceTyped DEF QueryAsync
<1>2. CASE QueryReady(q)
  BY <1>2, GoOK, ServiceTyped DEF QueryReady
<1>3. CASE QuerySubmits(q)
  BY <1>3, GoOK, ServiceTyped DEF QuerySubmits
<1>4. CASE QueryRejected(q)
  BY <1>4, EndsOK, ServiceTyped DEF QueryRejected
<1>5. CASE QueryFuture(q)
  BY <1>5, GoOK, ServiceTyped DEF QueryFuture
<1>6. CASE QuerySubmitThrows(q)
  BY <1>6, EndsOK, ServiceTyped DEF QuerySubmitThrows
<1>7. CASE QuerySubmitFaults(q)
  <2>1. Batcher!STypeOK' /\ UNCHANGED <<ready, index, metadata, load, search, faulted>>
    BY <1>7, ServiceTyped DEF QuerySubmitFaults
  <2> QED
    BY <2>1 DEF TypeOK, search
<1>8. CASE QueryEmbedded(q)
  <2>1. using' \in [Requests -> Indexes]
    BY <1>8 DEF QueryEmbedded
  <2> QED
    BY <1>8, <2>1, GoOK, ServiceTyped DEF QueryEmbedded
<1>9. CASE QueryFails(q)
  BY <1>9, EndsOK, ServiceTyped DEF QueryFails
<1>10. CASE QueryAnswered(q)
  <2>1. PICK outcome \in {"whole", "partial"} : Ends(q, "search", outcome)
    BY <1>10 DEF QueryAnswered
  <2> QED
    BY <1>10, <2>1, EndsOK, ServiceTyped DEF QueryAnswered
<1>11. CASE QuerySearchThrows(q)
  BY <1>11, EndsOK, ServiceTyped DEF QuerySearchThrows
<1> QED
  BY <1>1, <1>2, <1>3, <1>4, <1>5, <1>6, <1>7, <1>8, <1>9, <1>10, <1>11 DEF Query

LEMMA NextTyped == TypeOK /\ [Next]_pvars => TypeOK'
<1> SUFFICES ASSUME TypeOK, [Next]_pvars PROVE TypeOK'
  OBVIOUS
<1>1. ASSUME NEW l \in Loaders, NEW kind \in Kinds, LoadBegin(l, kind) PROVE TypeOK'
  <2>1. PICK at \in Stages : load' = [load EXCEPT ![l] = [kind |-> kind, at |-> at]]
    BY <1>1 DEF LoadBegin, Kinds, Stages
  <2>2. UNCHANGED <<ready, index, metadata, search, faulted, batcher>>
    BY <1>1 DEF LoadBegin
  <2>3. load' \in [Loaders -> [kind : Kinds, at : Stages]]
    BY <2>1 DEF TypeOK, Stages
  <2> QED
    BY <2>2, <2>3 DEF TypeOK, Stages, search, batcher, Batcher!STypeOK, Batcher!Statuses
<1>2. ASSUME NEW l \in Loaders, Load(l) PROVE TypeOK'
  BY <1>2, LoadTyped
<1>3. ASSUME \/ \E l \in Loaders : LoadFaults(l)
             \/ \E q \in Requests : QueryFaults(q)
      PROVE  TypeOK'
  BY <1>3 DEF LoadFaults, QueryFaults, TypeOK, search, batcher, Batcher!STypeOK,
     Batcher!Statuses
<1>4. ASSUME NEW q \in Requests, QueryAsync(q) \/ Query(q) PROVE TypeOK'
  BY <1>4, QueryTyped
<1>5. ASSUME Settle PROVE TypeOK'
  <2>1. Batcher!STypeOK'
    BY <1>5, ServiceTyped DEF Settle, TypeOK
  <2> QED
    BY <1>5, <2>1 DEF Settle, TypeOK, search
<1>6. CASE UNCHANGED pvars
  BY <1>6 DEF pvars, TypeOK, search, batcher, Batcher!STypeOK, Batcher!Statuses
<1> QED
  BY <1>1, <1>2, <1>3, <1>4, <1>5, <1>6 DEF Next

LEMMA InitTyped == Init => TypeOK
<1> SUFFICES ASSUME Init PROVE TypeOK
  OBVIOUS
<1>1. Batcher!STypeOK
  BY DEF Init, Batcher!SInit, Batcher!STypeOK, Batcher!Statuses
<1>2. load \in [Loaders -> [kind : Kinds, at : Stages]]
  BY DEF Init, Kinds, Stages
<1>3. using \in [Requests -> Indexes] /\ index \in Indexes /\ metadata \subseteq Loaders
  BY DEF Init, Indexes
<1>4. /\ query \in [Requests -> Places]
      /\ answer \in [Requests -> {"none", "empty", "error", "partial", "whole"}]
      /\ \A q \in Requests : query[q] = "idle" /\ answer[q] = "none"
  BY DEF Init, Places
<1> QED
  BY <1>1, <1>2, <1>3, <1>4 DEF TypeOK, Init, Stages, Places

(* Members, threads and futures keep to their types, and a future has a      *)
(* result exactly when its thread has ended.                                 *)
THEOREM TypeCorrect == Spec => []TypeOK
  BY InitTyped, NextTyped, PTL DEF Spec

-------------------------------------------------------------------------------
(* An index is replaced but never taken away, and metadata only grows: what  *)
(* a query was admitted with is still there when it searches.                *)
LoadedInv == TypeOK /\ AdmittedLoaded

LEMMA LoadedStays ==
    ASSUME TypeOK, IsLoaded, [Next]_pvars
    PROVE  IsLoaded'
<1> USE DEF IsLoaded
<1>1. ASSUME NEW l \in Loaders, Load(l) PROVE IsLoaded'
  <2>1. \A whole \in BOOLEAN, kind \in {"flat", "hnsw"} :
            [by |-> l, kind |-> kind, whole |-> whole] # NoIndex
    BY PipelineAssumption
  <2>2. (index' = index \/ \E whole \in BOOLEAN, kind \in {"flat", "hnsw"} :
                               index' = [by |-> l, kind |-> kind, whole |-> whole])
        /\ metadata \subseteq metadata'
    BY <1>1 DEF Load, LoadMetadata, LoadFlat, LoadAdd, LoadBuild, LoadRefused,
       LoadReturns, LoadThrows, Replaced
  <2> QED
    BY <2>1, <2>2
<1>2. ASSUME NEW q \in Requests, QueryAsync(q) \/ Query(q) PROVE IsLoaded'
  BY <1>2 DEF QueryAsync, Query, QueryReady, QuerySubmits, QueryRejected, QueryFuture,
     QuerySubmitThrows, QuerySubmitFaults, QueryEmbedded, QueryFails, QueryAnswered,
     QuerySearchThrows, Ends, Go
<1>3. CASE \/ \E l \in Loaders : LoadFaults(l) \/ \E kind \in Kinds : LoadBegin(l, kind)
           \/ \E q \in Requests : QueryFaults(q)
           \/ Settle
           \/ UNCHANGED pvars
  BY <1>3 DEF LoadFaults, LoadBegin, QueryFaults, Settle, pvars
<1> QED
  BY <1>1, <1>2, <1>3 DEF Next

LEMMA LoadedStep == LoadedInv /\ [Next]_pvars => LoadedInv'
<1> SUFFICES ASSUME LoadedInv, [Next]_pvars PROVE LoadedInv'
  OBVIOUS
<1>1. TypeOK' /\ query \in [Requests -> Places]
  BY NextTyped DEF LoadedInv, TypeOK, Places
<1> SUFFICES ASSUME NEW q \in Requests, query'[q] \in {"submit", "get", "search"}
             PROVE  IsLoaded'
  BY <1>1 DEF LoadedInv, AdmittedLoaded
<1>2. CASE query[q] \in {"submit", "get", "search"}
  BY <1>2, LoadedStays DEF LoadedInv, AdmittedLoaded
<1>3. CASE query[q] \notin {"submit", "get", "search"}
  <2>1. PICK p \in Requests : QueryAsync(p) \/ Query(p)
    BY <1>3 DEF Next, LoadBegin, Load, LoadMetadata, LoadFlat, LoadAdd, LoadBuild,
       LoadRefused, LoadReturns, LoadThrows, At, LoadFaults, QueryFaults, Settle,
       pvars, search
  <2>2. CASE QuerySubmits(p)
    BY <2>2, LoadedStays DEF QuerySubmits, LoadedInv
  <2>3. \/ QueryAsync(p) \/ QueryReady(p) \/ QueryRejected(p) \/ QuerySubmitThrows(p)
        \/ QuerySubmitFaults(p) \/ QueryFails(p) \/ QueryAnswered(p)
        \/ QuerySearchThrows(p)
        => query'[q] \notin {"submit", "get", "search"}
    BY <1>1, <1>3 DEF QueryAsync, QueryReady, QueryRejected, QuerySubmitThrows,
       QuerySubmitFaults, QueryFails, QueryAnswered, QuerySearchThrows, Ends, Go, search
  <2>4. QueryFuture(p) \/ QueryEmbedded(p) => query'[q] \notin {"submit", "get", "search"}
    BY <1>1, <1>3 DEF QueryFuture, QueryEmbedded, Go
  <2> QED
    BY <2>1, <2>2, <2>3, <2>4 DEF Query
<1> QED
  BY <1>2, <1>3

(* A query that was admitted has an index and metadata when it searches,     *)
(* whatever was loaded meanwhile.                                            *)
THEOREM AdmittedQueriesFindAnIndex == Spec => []AdmittedLoaded
<1>1. Init => LoadedInv
  <2>1. Init => AdmittedLoaded
    BY DEF Init, AdmittedLoaded
  <2> QED
    BY <2>1, InitTyped DEF LoadedInv
<1>2. LoadedInv => AdmittedLoaded
  BY DEF LoadedInv
<1> QED
  BY <1>1, <1>2, LoadedStep, PTL DEF Spec

-------------------------------------------------------------------------------
(* Until a second load begins: the flag is set only by a load that is over,  *)
(* the index is whole when a load ends, and a query past the flag searches   *)
(* the index that is there.                                                  *)
AtMostOne == \A k, l \in Begun : k = l

Building(l) ==
    /\ load[l].at = "metadata" => index = NoIndex /\ metadata = {}
    /\ load[l].at = "build" =>
          \/ index = NoIndex /\ metadata = {}
          \/ index # NoIndex /\ index.kind = "flat" /\ index.whole
    /\ load[l].at \in {"return", "throw", "over"} => index = NoIndex \/ index.whole

Admitted == {"is_loaded", "submit", "get", "search"}

QuerySafe(q) ==
    /\ query[q] \in Admitted => ready
    /\ query[q] = "search" => using[q] = index
    /\ answer[q] # "partial"

LoadsSafe ==
    /\ ~faulted
    /\ ready => \E l \in Loaders : load[l].at = "over"
    /\ Begun = {} => index = NoIndex /\ metadata = {}
    /\ \A l \in Begun : Building(l)

FirstLoad == LoadsSafe /\ \A q \in Requests : QuerySafe(q)

FirstLoadInv == LoadedInv /\ IsFiniteSet(Begun) /\ (AtMostOne => FirstLoad)

LEMMA BegunGrows ==
    ASSUME TypeOK, [Next]_pvars
    PROVE  Begun \subseteq Begun' /\ \E S : Begun' \subseteq Begun \cup S /\ IsFiniteSet(S)
<1>0. IsFiniteSet({}) /\ \A l : IsFiniteSet({l})
  BY FS_EmptySet, FS_Singleton
<1> USE DEF Begun, TypeOK
<1>1. ASSUME NEW l \in Loaders, NEW kind \in Kinds, LoadBegin(l, kind)
      PROVE  Begun \subseteq Begun' /\ Begun' \subseteq Begun \cup {l}
  BY <1>1 DEF LoadBegin, Kinds
<1>2. ASSUME NEW l \in Loaders, Load(l)
      PROVE  Begun' = Begun
  <2>1. PICK from \in Stages \ {"idle"}, to \in Stages \ {"idle"} : At(l, from, to)
    BY <1>2 DEF Load, LoadMetadata, LoadFlat, LoadAdd, LoadBuild, LoadRefused,
       LoadReturns, LoadThrows, Stages
  <2>2. load[l].at = from /\ load' = [load EXCEPT ![l].at = to]
    BY <2>1 DEF At
  <2>3. \A k \in Loaders : load'[k].at # "idle" <=> load[k].at # "idle"
    BY <2>2 DEF Stages
  <2> QED
    BY <2>3
<1>3. CASE load' = load
  <2>1. Begun' = Begun
    BY <1>3
  <2> QED
    BY <1>0, <2>1
<1>4. CASE load' # load
  <2>1. \E l \in Loaders : Load(l) \/ \E kind \in Kinds : LoadBegin(l, kind)
    BY <1>4 DEF Next, LoadFaults, QueryAsync, Query, QueryReady, QuerySubmits,
       QueryRejected, QueryFuture, QuerySubmitThrows, QuerySubmitFaults, QueryEmbedded,
       QueryFails, QueryAnswered, QuerySearchThrows, QueryFaults, Settle, Ends, Go, pvars
  <2> QED
    BY <1>0, <1>1, <1>2, <2>1
<1> QED
  BY <1>0, <1>3, <1>4

(* The steps of a load, when no other has begun.                             *)
LEMMA LoadFirst ==
    ASSUME LoadedInv, FirstLoad, AtMostOne, NEW l \in Loaders, Load(l)
    PROVE  FirstLoad'
<1>1. PICK from \in Stages \ {"idle", "over"}, to \in Stages \ {"idle"} : At(l, from, to)
  BY DEF Load, LoadMetadata, LoadFlat, LoadAdd, LoadBuild, LoadRefused, LoadReturns,
     LoadThrows, Stages
<1>2. /\ load[l].at = from /\ load' = [load EXCEPT ![l].at = to]
      /\ UNCHANGED <<query, using, answer, faulted>>
  BY <1>1 DEF At, search
<1>3. load'[l].at = to /\ \A k \in Loaders \ {l} : load'[k] = load[k] /\ load[k].at = "idle"
  BY <1>2 DEF LoadedInv, TypeOK, AtMostOne, Begun, Stages
<1>4. Begun' = {l}
  BY <1>3 DEF Begun, Stages
<1>5. ~faulted /\ ready = FALSE
  BY <1>2, <1>3 DEF FirstLoad, LoadsSafe, LoadedInv, TypeOK, Stages
<1>6. \A q \in Requests : query[q] \notin Admitted /\ answer[q] # "partial"
  BY <1>5 DEF FirstLoad, QuerySafe
<1>7. \A q \in Requests : QuerySafe(q)'
  BY <1>2, <1>6 DEF QuerySafe, Admitted
<1>8. ready' => to = "over"
  <2>1. LoadReturns(l) \/ ready' = ready \/ ready' = FALSE
    BY DEF Load, LoadMetadata, LoadFlat, LoadAdd, LoadBuild, LoadRefused, LoadThrows
  <2>2. LoadReturns(l) => load'[l].at = "over"
    BY DEF LoadReturns, At, LoadedInv, TypeOK
  <2> QED
    BY <1>3, <1>5, <2>1, <2>2
<1>9. Building(l) /\ index \in Indexes
  BY <1>2 DEF FirstLoad, LoadsSafe, Begun, Stages, LoadedInv, TypeOK
<1>10. Building(l)'
  <2>1. CASE LoadMetadata(l)
    BY <2>1, <1>3 DEF LoadMetadata, At, Building, LoadedInv, TypeOK
  <2>2. CASE LoadFlat(l)
    BY <2>2, <1>3 DEF LoadFlat, At, Building, LoadedInv, TypeOK
  <2>3. CASE LoadAdd(l)
    <3>1. index' = [by |-> l, kind |-> "flat", whole |-> TRUE] /\ load'[l].at = "build"
      BY <2>3, <1>3 DEF LoadAdd, At, LoadedInv, TypeOK
    <3>2. index' # NoIndex
      <4>1. index' \in [by : Loaders, kind : {"flat", "hnsw"}, whole : BOOLEAN]
        BY <3>1
      <4> QED
        BY <4>1, PipelineAssumption
    <3> QED
      BY <3>1, <3>2 DEF Building
  <2>4. CASE LoadBuild(l)
    <3>1. load[l].at = "build" /\ load'[l].at = "return"
      BY <2>4, <1>3 DEF LoadBuild, At, LoadedInv, TypeOK
    <3>2. CASE metadata = {}
      BY <2>4, <3>1, <3>2, <1>9 DEF LoadBuild, Building
    <3>3. CASE metadata # {}
      BY <2>4, <3>1, <3>3, <1>9 DEF LoadBuild, Building
    <3> QED
      BY <3>2, <3>3
  <2>5. CASE LoadRefused(l)
    BY <2>5, <1>9, <1>3 DEF LoadRefused, At, Building, LoadedInv, TypeOK
  <2>6. CASE LoadReturns(l) \/ LoadThrows(l)
    BY <2>6, <1>9, <1>3 DEF LoadReturns, LoadThrows, At, Building, LoadedInv, TypeOK
  <2> QED
    BY <2>1, <2>2, <2>3, <2>4, <2>5, <2>6 DEF Load
<1> QED
  BY <1>2, <1>3, <1>4, <1>5, <1>7, <1>8, <1>10 DEF FirstLoad, LoadsSafe

(* The steps of a query: none is in the index while a load is.               *)
LEMMA QueryFirst ==
    ASSUME LoadedInv, FirstLoad, AtMostOne, NEW q \in Requests, QueryAsync(q) \/ Query(q)
    PROVE  FirstLoad'
<1>1. UNCHANGED <<ready, index, metadata, load, faulted>>
  BY DEF QueryAsync, Query, QueryReady, QuerySubmits, QueryRejected, QueryFuture,
     QuerySubmitThrows, QuerySubmitFaults, QueryEmbedded, QueryFails, QueryAnswered,
     QuerySearchThrows, Ends, Go
<1>2. LoadsSafe'
  BY <1>1 DEF FirstLoad, LoadsSafe, Begun, Building
<1>3. \A p \in Requests \ {q} : query'[p] = query[p] /\ using'[p] = using[p]
                                 /\ answer'[p] = answer[p]
  BY DEF QueryAsync, Query, QueryReady, QuerySubmits, QueryRejected, QueryFuture,
     QuerySubmitThrows, QuerySubmitFaults, QueryEmbedded, QueryFails, QueryAnswered,
     QuerySearchThrows, Ends, Go, search, LoadedInv, TypeOK
<1>4. \A p \in Requests \ {q} : QuerySafe(p)'
  BY <1>1, <1>3 DEF FirstLoad, QuerySafe
<1>5. QuerySafe(q)'
  <2>0. QuerySafe(q) /\ LoadedInv /\ index \in Indexes
    BY DEF FirstLoad, LoadedInv, TypeOK
  <2> USE <2>0, <1>1 DEF QuerySafe, Admitted, Go, Ends, LoadedInv, TypeOK
  <2>1. CASE QueryAsync(q) \/ QueryReady(q)
    BY <2>1 DEF QueryAsync, QueryReady, Ready
  <2>2. CASE QuerySubmits(q) \/ QueryFuture(q)
    BY <2>2 DEF QuerySubmits, QueryFuture
  <2>3. CASE QueryRejected(q) \/ QuerySubmitThrows(q) \/ QueryFails(q)
             \/ QuerySearchThrows(q)
    BY <2>3 DEF QueryRejected, QuerySubmitThrows, QueryFails, QuerySearchThrows
  <2>4. CASE QuerySubmitFaults(q)
    BY <2>4 DEF QuerySubmitFaults, search
  <2>5. CASE QueryEmbedded(q)
    BY <2>5 DEF QueryEmbedded
  <2>6. CASE QueryAnswered(q)
    <3>1. query[q] = "search" /\ using[q] = index /\ ready
      BY <2>6 DEF QueryAnswered
    <3>2. index # NoIndex
      BY <3>1 DEF AdmittedLoaded, IsLoaded
    <3>3. PICK l \in Loaders : load[l].at = "over"
      BY <3>1 DEF FirstLoad, LoadsSafe
    <3>4. index.whole
      BY <3>2, <3>3 DEF FirstLoad, LoadsSafe, Begun, Building
    <3> QED
      BY <2>6, <3>1, <3>4 DEF QueryAnswered
  <2> QED
    BY <2>1, <2>2, <2>3, <2>4, <2>5, <2>6 DEF Query
<1> QED
  BY <1>2, <1>4, <1>5 DEF FirstLoad

LEMMA FirstLoadStep ==
    ASSUME LoadedInv, AtMostOne => FirstLoad, [Next]_pvars, AtMostOne'
    PROVE  FirstLoad'
<1>0. AtMostOne /\ FirstLoad /\ TypeOK
  BY BegunGrows DEF AtMostOne, LoadedInv
<1>1. ASSUME NEW l \in Loaders, NEW kind \in Kinds, LoadBegin(l, kind) PROVE FirstLoad'
  <2>1. /\ load[l].at = "idle" /\ ~faulted
        /\ UNCHANGED <<ready, index, metadata, query, using, answer, faulted>>
    BY <1>1 DEF LoadBegin, Alive, search
  <2>2. \A k \in Loaders \ {l} : load'[k] = load[k]
    BY <1>1, <1>0 DEF LoadBegin, TypeOK
  <2>3. load'[l].at \in {"metadata", "build", "throw"}
    BY <1>1, <1>0 DEF LoadBegin, TypeOK, Kinds
  <2>4. \A k \in Loaders : load[k].at = "idle"
    BY <2>1, <2>2, <2>3 DEF AtMostOne, Begun
  <2>5. index = NoIndex /\ metadata = {} /\ ready = FALSE
    BY <1>0, <2>4 DEF FirstLoad, LoadsSafe, Begun, TypeOK
  <2>6. LoadsSafe'
    BY <2>1, <2>2, <2>3, <2>4, <2>5 DEF LoadsSafe, Begun, Building
  <2> QED
    BY <1>0, <2>1, <2>6 DEF FirstLoad, QuerySafe
<1>2. ASSUME NEW l \in Loaders, Load(l) PROVE FirstLoad'
  BY <1>0, <1>2, LoadFirst
<1>3. ASSUME NEW l \in Loaders PROVE ~LoadFaults(l)
  BY <1>0 DEF LoadFaults, Loading, AtMostOne, Begun
<1>4. ASSUME NEW q \in Requests, QueryAsync(q) \/ Query(q) PROVE FirstLoad'
  BY <1>0, <1>4, QueryFirst
<1>5. ASSUME NEW q \in Requests PROVE ~QueryFaults(q)
  <2> SUFFICES ASSUME QueryFaults(q) PROVE FALSE
    OBVIOUS
  <2>1. query[q] \in {"is_loaded", "search"}
    BY DEF QueryFaults
  <2>2. ready /\ (query[q] = "search" => using[q] = index)
    BY <1>0, <2>1 DEF FirstLoad, QuerySafe, Admitted
  <2>3. PICK l \in Loaders : Loading(l)
    BY <2>2 DEF QueryFaults
  <2>4. PICK k \in Loaders : load[k].at = "over"
    BY <1>0, <2>2 DEF FirstLoad, LoadsSafe
  <2> QED
    BY <1>0, <2>3, <2>4 DEF Loading, AtMostOne, Begun
<1>6. CASE Settle \/ UNCHANGED pvars
  <2>1. UNCHANGED <<ready, index, metadata, load, query, using, answer, faulted>>
    BY <1>6 DEF Settle, pvars, search
  <2> QED
    BY <1>0, <2>1 DEF FirstLoad, LoadsSafe, QuerySafe, Begun, Building
<1> QED
  BY <1>1, <1>2, <1>3, <1>4, <1>5, <1>6 DEF Next

(* Queries may run from the start on: until a second load begins, none       *)
(* touches the index while it is built or gets an answer from part of it.    *)
THEOREM OneLoadIsSafe == Spec => []FirstLoadSafe
<1>1. Init => FirstLoadInv
  <2> SUFFICES ASSUME Init PROVE FirstLoadInv
    OBVIOUS
  <2>1. Begun = {}
    BY DEF Init, Begun
  <2>2. IsFiniteSet(Begun)
    BY <2>1, FS_EmptySet
  <2>3. LoadedInv
    BY InitTyped DEF Init, LoadedInv, AdmittedLoaded
  <2>4. FirstLoad
    BY <2>1 DEF Init, FirstLoad, LoadsSafe, QuerySafe, Admitted
  <2> QED
    BY <2>2, <2>3, <2>4 DEF FirstLoadInv
<1>2. FirstLoadInv /\ [Next]_pvars => FirstLoadInv'
  <2> SUFFICES ASSUME FirstLoadInv, [Next]_pvars PROVE FirstLoadInv'
    OBVIOUS
  <2>1. LoadedInv' /\ TypeOK
    BY LoadedStep DEF FirstLoadInv, LoadedInv
  <2>2. PICK S : Begun' \subseteq Begun \cup S /\ IsFiniteSet(S)
    BY <2>1, BegunGrows
  <2>3. IsFiniteSet(Begun')
    BY <2>2, FS_Union, FS_Subset DEF FirstLoadInv
  <2>4. (AtMostOne => FirstLoad)'
    BY FirstLoadStep DEF FirstLoadInv
  <2> QED
    BY <2>1, <2>3, <2>4 DEF FirstLoadInv
<1>3. FirstLoadInv => FirstLoadSafe
  <2> SUFFICES ASSUME FirstLoadInv, Cardinality(Begun) <= 1
               PROVE  ~faulted /\ \A q \in Requests : answer[q] # "partial"
    BY DEF FirstLoadSafe
  <2>1. IsFiniteSet(Begun)
    BY DEF FirstLoadInv
  <2>2. AtMostOne
    <3> SUFFICES ASSUME NEW k \in Begun, NEW l \in Begun, k # l PROVE FALSE
      BY DEF AtMostOne
    <3>1. /\ IsFiniteSet(Begun \ {k})
          /\ Cardinality(Begun \ {k}) = Cardinality(Begun) - 1
      BY <2>1, FS_RemoveElement
    <3>2. Cardinality(Begun) \in Nat /\ Cardinality(Begun \ {k}) \in Nat
      BY <2>1, <3>1, FS_CardinalityType
    <3>3. Begun \ {k} = {}
      BY <3>1, <3>2, FS_EmptySet
    <3> QED
      BY <3>3
  <2> QED
    BY <2>2 DEF FirstLoadInv, FirstLoad, LoadsSafe, QuerySafe
<1> QED
  BY <1>1, <1>2, <1>3, PTL DEF Spec

================================================================================
