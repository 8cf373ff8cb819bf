---------------------------- MODULE RagServerProofs ----------------------------
(****************************************************************************)
(* Proofs about the vector store, FaissIndex, and about the server on it,   *)
(* RagServer: for any files, connections and messages, any number of loads, *)
(* saves and searches and any widths.                                       *)
(****************************************************************************)
EXTENDS RagServer, SumTheorems, SequenceTheorems, WellFoundedInduction, TLAPS

-------------------------------------------------------------------------------
(* The store, under any calls.                                               *)

(* No vector without metadata, in terms of the lengths. *)
Covered == Len(store.index.vectors) <= Len(store.metadata)

(* The inductive invariant: what is to be shown, and that no file mixes the   *)
(* vectors of two, so that the next load reads those of one.                 *)
Unmixed(file) == file.kind = "corpus" => OneFile(file.data)

StoreInv ==
    /\ StoreTypeOK
    /\ Covered
    /\ OneFileIndexed
    /\ LatestDescribed
    /\ \A p \in Paths : Unmixed(files[p])

-------------------------------------------------------------------------------
LEMMA ChunksOK ==
    ASSUME NEW p \in Paths, NEW n \in Int
    PROVE  /\ Chunks(p, n) \in Seq(Paths \X Nat)
           /\ DOMAIN Chunks(p, n) = 1..n
           /\ \A i \in 1..n : Chunks(p, n)[i] = <<p, i>>
<1> DEFINE size == IF n < 0 THEN 0 ELSE n
<1>1. size \in Nat /\ 1..size = 1..n
  OBVIOUS
<1>2. Chunks(p, n) \in [1..size -> Paths \X Nat]
  BY <1>1 DEF Chunks
<1>3. Chunks(p, n) \in Seq(Paths \X Nat)
  <2> HIDE DEF size
  <2> QED
    BY <1>1, <1>2
<1> QED
  BY <1>3 DEF Chunks

LEMMA ReadVectorsOK ==
    ASSUME NEW p \in Paths, files \in [Paths -> Files], Unmixed(files[p]),
           ~Unreadable(p)
    PROVE  /\ files[p].count \in Int /\ files[p].dim \in Int
           /\ ReadVectors(files[p]) \in Seq(Vectors)
           /\ DOMAIN ReadVectors(files[p]) = 1..files[p].count
           /\ OneFile(ReadVectors(files[p]))
<1> DEFINE file == files[p]
           vs == ReadVectors(file)
           size == IF file.count < 0 THEN 0 ELSE file.count
<1>1. file \in [kind : {"corpus"}, count : Int, dim : Int, data : Seq(Vectors)]
  BY DEF Files, Unreadable, Absent, Short
<1>2. size \in Nat /\ 1..size = 1..file.count
  BY <1>1
<1>3. PICK q \in Paths : \A i \in 1..Len(file.data) : file.data[i] \in {<<q, i>>, Blank}
  <2>1. DOMAIN file.data = 1..Len(file.data)
    BY <1>1
  <2> QED
    BY <1>1, <2>1 DEF Unmixed, OneFile
<1>4. \A i \in 1..file.count : vs[i] \in {<<q, i>>, Blank}
  <2> TAKE i \in 1..file.count
  <2>1. vs[i] = IF i <= Len(file.data) THEN file.data[i] ELSE Blank
    BY DEF ReadVectors
  <2>2. Len(file.data) \in Nat
    BY <1>1
  <2>3. i <= Len(file.data) => i \in 1..Len(file.data)
    BY <1>1, <2>2
  <2> QED
    BY <1>3, <2>1, <2>3
<1>5. \A i \in 1..file.count : vs[i] \in Vectors
  BY <1>1, <1>4 DEF Vectors
<1>6. vs \in Seq(Vectors) /\ DOMAIN vs = 1..file.count
  <2>1. vs \in [1..file.count -> Vectors]
    BY <1>5 DEF ReadVectors
  <2>2. vs \in [1..size -> Vectors]
    BY <1>2, <2>1
  <2> HIDE DEF vs, size
  <2> QED
    BY <1>2, <2>1, <2>2
<1>7. OneFile(vs)
  <2> HIDE DEF vs
  <2> QED
    BY <1>4, <1>6 DEF OneFile
<1> QED
  BY <1>1, <1>6, <1>7

-------------------------------------------------------------------------------
(* Reading a file puts its vectors into the index, flat or built, and its    *)
(* chunks behind the metadata.                                               *)
ReadBy(p, index) ==
    /\ ~Unreadable(p)
    /\ index \in {Flat(ReadVectors(files[p])), HNSW(ReadVectors(files[p]))}
    /\ store' = [index       |-> index,
                 metadata    |-> store.metadata \o Chunks(p, files[p].count),
                 num_vectors |-> files[p].count,
                 dimension   |-> files[p].dim]
    /\ files' = files

LEMMA Reading ==
    ASSUME StoreInv, NEW p \in Paths, NEW index, ReadBy(p, index)
    PROVE  /\ StoreInv'
           /\ Len(store'.metadata) >= Len(store.metadata)
           /\ store'.index.kind # "null"
<1> DEFINE c == files[p].count
           d == files[p].dim
           vs == ReadVectors(files[p])
           old == store.metadata
           new == Chunks(p, c)
           n == Len(new)
           m == old \o new
<1>1. /\ c \in Int /\ d \in Int /\ vs \in Seq(Vectors) /\ DOMAIN vs = 1..c
      /\ OneFile(vs)
  BY ReadVectorsOK DEF StoreInv, StoreTypeOK, ReadBy
<1>2. /\ new \in Seq(Paths \X Nat) /\ n \in Nat /\ 1..n = 1..c
      /\ \A i \in 1..n : new[i] = <<p, i>>
  <2>1. /\ new \in Seq(Paths \X Nat) /\ DOMAIN new = 1..c
        /\ \A i \in 1..c : new[i] = <<p, i>>
    BY <1>1, ChunksOK
  <2> HIDE DEF new
  <2>2. n \in Nat /\ DOMAIN new = 1..n
    BY <2>1
  <2> QED
    BY <2>1, <2>2
<1>3. old \in Seq(Paths \X Nat)
  BY DEF StoreInv, StoreTypeOK
<1>4. Len(vs) = n /\ DOMAIN vs = 1..n
  <2> HIDE DEF vs, new, c
  <2>1. DOMAIN vs = 1..n
    BY <1>1, <1>2
  <2> QED
    BY <1>1, <1>2, <2>1
<1>5. /\ m \in Seq(Paths \X Nat) /\ Len(m) = Len(old) + n
      /\ \A i \in 1..n : m[Len(old) + i] = new[i]
  <2> HIDE DEF new, old
  <2>1. new \in Seq(Paths \X Nat) /\ Len(new) = n /\ n \in Nat
    BY <1>2
  <2>2. /\ m \in Seq(Paths \X Nat) /\ Len(m) = Len(old) + Len(new)
        /\ \A i \in 1..(Len(old) + Len(new)) :
              m[i] = IF i <= Len(old) THEN old[i] ELSE new[i - Len(old)]
    BY <1>3, <2>1, ConcatProperties
  <2>3. Len(old) \in Nat
    BY <1>3
  <2>4. ASSUME NEW i \in 1..n PROVE m[Len(old) + i] = new[i]
    <3>1. Len(old) + i \in 1..(Len(old) + Len(new)) /\ ~(Len(old) + i <= Len(old))
      BY <2>1, <2>3
    <3>2. m[Len(old) + i] = new[(Len(old) + i) - Len(old)]
      BY <2>2, <3>1
    <3>3. (Len(old) + i) - Len(old) = i
      BY <2>1, <2>3
    <3> QED
      BY <3>2, <3>3
  <2> QED
    BY <2>1, <2>2, <2>4
<1>6. /\ store' = [index |-> index, metadata |-> m, num_vectors |-> c, dimension |-> d]
      /\ index \in {Flat(vs), HNSW(vs)} /\ files' = files
  BY DEF ReadBy
<1>7. /\ store'.index.vectors = vs /\ store'.metadata = m /\ store'.num_vectors = c
      /\ store'.index.kind \in {"flat", "hnsw"}
  <2> HIDE DEF vs, m, c, d
  <2> QED
    BY <1>6 DEF Flat, HNSW
<1>8. StoreTypeOK'
  <2>1. store' \in [index : [kind : {"null", "flat", "hnsw"}, vectors : Seq(Vectors),
                             efSearch : Widths \cup {ConfigWidth}],
                    metadata : Seq(Paths \X Nat), num_vectors : Int, dimension : Int]
    <3> HIDE DEF vs, m, c, d
    <3> QED
      BY <1>1, <1>5, <1>6 DEF Flat, HNSW
  <2>2. DOMAIN store'.index.vectors = 1..store'.num_vectors
    BY <1>1, <1>7
  <2> HIDE DEF vs, m, c, d
  <2> QED
    BY <1>6, <1>7, <2>1, <2>2 DEF StoreInv, StoreTypeOK
<1>9. Covered'
  <2> HIDE DEF vs, m, new, old
  <2> QED
    BY <1>2, <1>3, <1>4, <1>5, <1>7 DEF Covered
<1>10. OneFileIndexed'
  BY <1>1, <1>7 DEF OneFileIndexed, OneFile
<1>11. LatestDescribed'
  <2>1. \A i \in 1..n : m[Len(old) + i] = <<p, i>>
    BY <1>2, <1>5
  <2> HIDE DEF vs, m, new, old
  <2>2. Len(m) - Len(vs) = Len(old) /\ DOMAIN vs = 1..n
    BY <1>2, <1>3, <1>4, <1>5
  <2> HIDE DEF n
  <2> QED
    BY <1>7, <2>1, <2>2 DEF LatestDescribed
<1>12. \A q \in Paths : Unmixed(files'[q])
  BY <1>6 DEF StoreInv
<1>13. Len(store'.metadata) >= Len(old)
  <2> HIDE DEF vs, m, new, old
  <2> QED
    BY <1>2, <1>3, <1>5, <1>7
<1> QED
  BY <1>7, <1>8, <1>9, <1>10, <1>11, <1>12, <1>13 DEF StoreInv, Unmixed, OneFile

(* A load that reads a file, to its end. *)
LEMMA ReadingLoad ==
    ASSUME StoreInv, NEW p \in Paths, Loads(p), ~Unreadable(p)
    PROVE  /\ StoreInv'
           /\ Len(store'.metadata) >= Len(store.metadata)
           /\ store'.index.kind # "null"
<1> DEFINE vs == ReadVectors(files[p])
           m == store.metadata \o Chunks(p, files[p].count)
           n == files[p].count
           d == files[p].dim
           Taken(index) ==
              [index |-> index, metadata |-> m, num_vectors |-> n, dimension |-> d]
<1>1. LoadCorpus(store, p) = Taken(Flat(vs))
  BY DEF LoadCorpus, FileTaken, Loads, NewMetadata
<1>2. ~Unreadable(p) /\ files' = files
  BY DEF Loads
<1>3. \E index \in {Flat(vs), HNSW(vs)} : store' = Taken(index)
  <2>1. store' = BuildIndex(Taken(Flat(vs)))
    BY <1>1 DEF Loads
  <2> HIDE DEF vs, m, n, d
  <2> QED
    BY <2>1 DEF BuildIndex, Flat, HNSW
<1>4. \E index : ReadBy(p, index)
  BY <1>2, <1>3 DEF ReadBy
<1> QED
  BY <1>4, Reading

(* A load that reads nothing rebuilds the index from a flat one that was     *)
(* left behind, or without vectors, or changes nothing at all.               *)
LEMMA EmptyLoad ==
    ASSUME StoreInv, NEW p \in Paths, Loads(p), Unreadable(p)
    PROVE  /\ StoreInv'
           /\ store'.metadata = store.metadata
           /\ store'.index.kind # store.index.kind => store'.index.kind = "hnsw"
<1>1. LoadCorpus(store, p) = store
  BY DEF LoadCorpus
<1>2. files' = files
  BY DEF Loads
<1>3. \A q \in Paths : Unmixed(files'[q])
  BY <1>2 DEF StoreInv
<1>4. CASE store.metadata = <<>>
  <2>1. store' = store
    BY <1>1, <1>4 DEF Loads, BuildIndex
  <2> QED
    BY <1>2, <2>1 DEF StoreInv, StoreTypeOK, Covered, OneFileIndexed, LatestDescribed
<1>5. CASE store.metadata # <<>>
  <2> DEFINE vs == IF store.index.kind = "flat" THEN store.index.vectors ELSE <<>>
  <2>1. store' = [store EXCEPT !.index = HNSW(vs)]
    BY <1>1, <1>5 DEF Loads, BuildIndex
  <2>2. vs \in Seq(Vectors) /\ (vs = <<>> \/ vs = store.index.vectors)
    BY DEF StoreInv, StoreTypeOK
  <2> HIDE DEF vs
  <2>3. /\ store'.index = HNSW(vs) /\ store'.metadata = store.metadata
        /\ store'.num_vectors = store.num_vectors
        /\ store'.dimension = store.dimension
    BY <2>1 DEF StoreInv, StoreTypeOK
  <2>4. store'.index.vectors = vs /\ store'.index.kind = "hnsw"
    BY <2>3 DEF HNSW
  <2>5. StoreTypeOK'
    <3>1. HNSW(vs) \in [kind : {"null", "flat", "hnsw"}, vectors : Seq(Vectors),
                        efSearch : Widths \cup {ConfigWidth}]
      BY <2>2 DEF HNSW
    <3>2. store' \in [index : [kind : {"null", "flat", "hnsw"}, vectors : Seq(Vectors),
                               efSearch : Widths \cup {ConfigWidth}],
                      metadata : Seq(Paths \X Nat), num_vectors : Int, dimension : Int]
      BY <2>1, <3>1 DEF StoreInv, StoreTypeOK
    <3> QED
      BY <1>2, <2>4, <3>2 DEF StoreInv, StoreTypeOK
  <2>6. Covered' /\ OneFileIndexed' /\ LatestDescribed'
    <3>1. CASE vs = <<>>
      BY <2>3, <2>4, <3>1, CorpusAssumption DEF Covered, OneFileIndexed, OneFile,
         LatestDescribed, StoreInv, StoreTypeOK
    <3>2. CASE vs = store.index.vectors
      BY <2>3, <2>4, <3>2 DEF Covered, OneFileIndexed, OneFile, LatestDescribed, StoreInv
    <3> QED
      BY <2>2, <3>1, <3>2
  <2> QED
    BY <1>3, <2>3, <2>4, <2>5, <2>6 DEF StoreInv
<1> QED
  BY <1>4, <1>5

(* A load that throws changes the two numbers of the header alone, or        *)
(* nothing, or has read its file into a flat index.                          *)
LEMMA ThrowingLoad ==
    ASSUME StoreInv, NEW p \in Paths, LoadThrows(p)
    PROVE  /\ StoreInv'
           /\ Len(store'.metadata) >= Len(store.metadata)
           /\ store'.index.kind = store.index.kind \/ store'.index.kind # "null"
<1>1. files' = files /\ store' = LoadCorpus(store, p)
  BY DEF LoadThrows
<1>2. CASE Unreadable(p)
  <2>1. store' = store
    BY <1>1, <1>2 DEF LoadCorpus
  <2> QED
    <3>1. \A q \in Paths : Unmixed(files'[q])
      BY <1>1 DEF StoreInv
    <3>2. Len(store.metadata) >= Len(store.metadata)
      BY DEF StoreInv, StoreTypeOK
    <3> QED
      BY <1>1, <2>1, <3>1, <3>2 DEF StoreInv, StoreTypeOK, Covered, OneFileIndexed,
         LatestDescribed
<1>3. CASE BadHeader(p)
  <2> DEFINE c == files[p].count
             d == files[p].dim
  <2>1. c \in Int /\ d \in Int /\ ~Fits(c, d)
    BY <1>3 DEF StoreInv, StoreTypeOK, BadHeader, Unreadable, Files, Absent, Short
  <2>2. store' = [store EXCEPT !.num_vectors = c, !.dimension = d]
    BY <1>1, <1>3 DEF LoadCorpus, HeaderTaken, BadHeader
  <2> HIDE DEF c, d
  <2>3. /\ store'.index = store.index /\ store'.metadata = store.metadata
        /\ store'.num_vectors = c /\ store'.dimension = d
    BY <2>2 DEF StoreInv, StoreTypeOK
  <2>4. StoreTypeOK'
    <3>1. store' \in [index : [kind : {"null", "flat", "hnsw"}, vectors : Seq(Vectors),
                               efSearch : Widths \cup {ConfigWidth}],
                      metadata : Seq(Paths \X Nat), num_vectors : Int, dimension : Int]
      BY <2>1, <2>2 DEF StoreInv, StoreTypeOK
    <3>2. ~Fits(store'.num_vectors, store'.dimension)
      BY <2>1, <2>3
    <3> QED
      BY <1>1, <2>3, <3>1, <3>2 DEF StoreInv, StoreTypeOK
  <2>5. \A q \in Paths : Unmixed(files'[q])
    BY <1>1 DEF StoreInv
  <2>6. Len(store.metadata) >= Len(store.metadata)
    BY DEF StoreInv, StoreTypeOK
  <2> QED
    BY <1>1, <2>3, <2>4, <2>5, <2>6 DEF StoreInv, Covered, OneFileIndexed, LatestDescribed
<1>4. CASE ~Unreadable(p) /\ ~BadHeader(p)
  <2>1. ReadBy(p, Flat(ReadVectors(files[p])))
    BY <1>1, <1>4 DEF ReadBy, LoadCorpus, FileTaken, NewMetadata
  <2> QED
    BY <2>1, Reading
<1> QED
  BY <1>2, <1>3, <1>4

LEMMA SaveOK ==
    ASSUME StoreInv, NEW p \in Paths, Save(p)
    PROVE  StoreInv' /\ store' = store
<1> DEFINE saved == File(store.num_vectors, store.dimension, Saved)
<1>1. store' = store
  BY DEF Save
<1>2. files' = files \/ files' = [files EXCEPT ![p] = saved]
  BY DEF Save
<1>3. Saved \in Seq(Vectors) /\ OneFile(Saved)
  BY CorpusAssumption DEF Saved, StoreInv, StoreTypeOK, OneFileIndexed, OneFile
<1>4. saved \in Files /\ Unmixed(saved)
  BY <1>3 DEF StoreInv, StoreTypeOK, File, Files, Unmixed
<1> HIDE DEF saved
<1>5. /\ files' \in [Paths -> Files]
      /\ \A q \in Paths : files'[q] = files[q] \/ files'[q] = saved
  BY <1>2, <1>4 DEF StoreInv, StoreTypeOK
<1>6. \A q \in Paths : Unmixed(files'[q])
  BY <1>4, <1>5 DEF StoreInv
<1> QED
  BY <1>1, <1>5, <1>6 DEF StoreInv, StoreTypeOK, Covered, OneFileIndexed, LatestDescribed

LEMMA SearchOK ==
    ASSUME StoreInv, NEW ef \in Widths, Search(ef)
    PROVE  /\ StoreInv'
           /\ store'.metadata = store.metadata
           /\ store'.index.kind = store.index.kind
<1>1. files' = files /\ (store' = store \/ store' = [store EXCEPT !.index.efSearch = ef])
  BY DEF Search, SetWidth
<1>2. /\ store'.metadata = store.metadata /\ store'.index.vectors = store.index.vectors
      /\ store'.index.kind = store.index.kind
  BY <1>1 DEF StoreInv, StoreTypeOK
<1>3. StoreTypeOK'
  BY <1>1, <1>2 DEF StoreInv, StoreTypeOK
<1> QED
  BY <1>1, <1>2, <1>3 DEF StoreInv, Covered, OneFileIndexed, LatestDescribed

-------------------------------------------------------------------------------
LEMMA StoreInvInit == StoreInit => StoreInv
<1> SUFFICES ASSUME StoreInit PROVE StoreInv
  OBVIOUS
<1>1. /\ store = [index |-> NoIndex, metadata |-> <<>>, num_vectors |-> 0,
                  dimension |-> 384]
      /\ files = Corpus
  BY DEF StoreInit
<1>2. StoreTypeOK
  BY <1>1, CorpusAssumption DEF StoreTypeOK, NoIndex
<1>3. Covered /\ OneFileIndexed /\ LatestDescribed
  BY <1>1, CorpusAssumption DEF Covered, OneFileIndexed, OneFile, LatestDescribed, NoIndex
<1>4. \A p \in Paths : Unmixed(files[p])
  BY <1>1, CorpusAssumption DEF OwnVectors, Unmixed, OneFile
<1> QED
  BY <1>2, <1>3, <1>4 DEF StoreInv

LEMMA StoreInvNext == StoreInv /\ [StoreNext]_storeVars => StoreInv'
<1> SUFFICES ASSUME StoreInv, [StoreNext]_storeVars PROVE StoreInv'
  OBVIOUS
<1>1. ASSUME NEW p \in Paths, Loads(p) PROVE StoreInv'
  BY <1>1, ReadingLoad, EmptyLoad
<1>2. ASSUME NEW p \in Paths, LoadThrows(p) PROVE StoreInv'
  BY <1>2, ThrowingLoad
<1>3. ASSUME NEW p \in Paths, Save(p) PROVE StoreInv'
  BY <1>3, SaveOK
<1>4. ASSUME NEW ef \in Widths, Search(ef) PROVE StoreInv'
  BY <1>4, SearchOK
<1>5. CASE UNCHANGED storeVars
  BY <1>5 DEF storeVars, StoreInv, StoreTypeOK, Covered, OneFileIndexed, LatestDescribed
<1> QED
  BY <1>1, <1>2, <1>3, <1>4, <1>5 DEF StoreNext

LEMMA StoreInvariant == StoreSpec => []StoreInv
BY StoreInvInit, StoreInvNext, PTL DEF StoreSpec

-------------------------------------------------------------------------------
(* The members and the files always have their types, and num_vectors_ is the *)
(* number of vectors of a flat index until a header that cannot be allocated *)
(* has put its numbers in the place.                                         *)
THEOREM StoreTypeCorrect == StoreSpec => []StoreTypeOK
<1>1. StoreInv => StoreTypeOK
  BY DEF StoreInv
<1> QED
  BY <1>1, StoreInvariant, PTL

(* search() never finds a vector without metadata, whatever was loaded,      *)
(* failed to load or was saved before.                                       *)
THEOREM EveryVectorCovered == StoreSpec => []MetadataCovers
<1>1. StoreInv => MetadataCovers
  BY DEF StoreInv, StoreTypeOK, Covered, MetadataCovers, Describable
<1> QED
  BY <1>1, StoreInvariant, PTL

(* The index never mixes the vectors of two files. *)
THEOREM IndexHoldsOneFile == StoreSpec => []OneFileIndexed
<1>1. StoreInv => OneFileIndexed
  BY DEF StoreInv
<1> QED
  BY <1>1, StoreInvariant, PTL

(* The chunks of the indexed file are the last of the metadata. *)
THEOREM LatestChunksDescribe == StoreSpec => []LatestDescribed
<1>1. StoreInv => LatestDescribed
  BY DEF StoreInv
<1> QED
  BY <1>1, StoreInvariant, PTL

(* A store that is loaded once stays so. *)
THEOREM LoadedForGood == StoreSpec => StaysLoaded
<1>1. ASSUME StoreInv, [StoreNext]_storeVars, IsLoaded PROVE IsLoaded'
  <2>1. store.metadata \in Seq(Paths \X Nat) /\ Len(store.metadata) > 0
    BY <1>1 DEF StoreInv, StoreTypeOK, IsLoaded
  <2>2. ASSUME NEW p \in Paths, Loads(p), ~Unreadable(p) PROVE IsLoaded'
    <3>1. /\ StoreInv' /\ store'.index.kind # "null"
          /\ Len(store'.metadata) >= Len(store.metadata)
      BY <1>1, <2>2, ReadingLoad
    <3>2. store'.metadata \in Seq(Paths \X Nat)
      BY <3>1 DEF StoreInv, StoreTypeOK
    <3>3. store'.metadata # <<>>
      BY <2>1, <3>1, <3>2
    <3> QED
      BY <3>1, <3>3 DEF IsLoaded
  <2>3. ASSUME NEW p \in Paths, Loads(p), Unreadable(p) PROVE IsLoaded'
    BY <1>1, <2>3, EmptyLoad DEF IsLoaded
  <2>4. ASSUME NEW p \in Paths, LoadThrows(p) PROVE IsLoaded'
    <3>1. /\ StoreInv' /\ Len(store'.metadata) >= Len(store.metadata)
          /\ store'.index.kind = store.index.kind \/ store'.index.kind # "null"
      BY <1>1, <2>4, ThrowingLoad
    <3>2. store'.metadata \in Seq(Paths \X Nat)
      BY <3>1 DEF StoreInv, StoreTypeOK
    <3>3. store'.metadata # <<>>
      BY <2>1, <3>1, <3>2
    <3> QED
      BY <1>1, <3>1, <3>3 DEF IsLoaded
  <2>5. ASSUME NEW p \in Paths, Save(p) PROVE IsLoaded'
    BY <1>1, <2>5, SaveOK DEF IsLoaded
  <2>6. ASSUME NEW ef \in Widths, Search(ef) PROVE IsLoaded'
    BY <1>1, <2>6, SearchOK DEF IsLoaded
  <2>7. CASE UNCHANGED storeVars
    BY <1>1, <2>7 DEF storeVars, IsLoaded
  <2> QED
    BY <1>1, <2>2, <2>3, <2>4, <2>5, <2>6, <2>7 DEF StoreNext
<1>2. StoreInv /\ [StoreNext]_storeVars => [IsLoaded => IsLoaded']_storeVars
  BY <1>1
<1> QED
  BY <1>2, StoreInvariant, PTL DEF StoreSpec, StaysLoaded

-------------------------------------------------------------------------------
(* The server.                                                               *)

(* What is in an inbox comes from messages, so that a path to be loaded is   *)
(* the name of a file.                                                       *)
Parcels ==
    {[route |-> m.route, fields |-> <<>>] : m \in Messages}
    \cup {[route |-> "body", fields |-> m.fields] : m \in Messages}

LEMMA SegmentsOK == ASSUME NEW m \in Messages PROVE Segments(m) \in Seq(Parcels)
<1>1. /\ [route |-> m.route, fields |-> <<>>] \in Parcels
      /\ [route |-> "body", fields |-> m.fields] \in Parcels
  BY DEF Parcels
<1> QED
  BY <1>1 DEF Segments

LEMMA ParcelPath ==
    ASSUME NEW s \in Parcels, "corpus_path" \in DOMAIN s.fields
    PROVE  s.fields["corpus_path"] \in Paths
<1>1. CASE s \in {[route |-> m.route, fields |-> <<>>] : m \in Messages}
  <2>1. s.fields = <<>>
    BY <1>1
  <2> QED
    BY <2>1
<1>2. CASE s \in {[route |-> "body", fields |-> m.fields] : m \in Messages}
  <2>1. PICK m \in Messages : s = [route |-> "body", fields |-> m.fields]
    BY <1>2
  <2>2. s.fields = m.fields
    BY <2>1
  <2> QED
    BY <2>2, ServerAssumption
<1> QED
  BY <1>1, <1>2 DEF Parcels

LEMMA LeastExists ==
    ASSUME NEW S, S \subseteq Nat, S # {}
    PROVE  \E i \in S : \A j \in S : i <= j
<1>1. PICK i \in S : \A j \in S : ~(<<j, i>> \in OpToRel(<, Nat))
  BY NatLessThanWellFounded, WFMin
<1>2. \A j \in S : ~(j < i)
  BY <1>1 DEF OpToRel
<1> QED
  BY <1>2

LEMMA FieldOK ==
    ASSUME NEW chunk \in Seq(Parcels), Field(chunk, "corpus_path") # Missing
    PROVE  Field(chunk, "corpus_path") \in Paths
<1> DEFINE has == {i \in 2..Len(chunk) : "corpus_path" \in DOMAIN chunk[i].fields}
           least == CHOOSE i \in has : \A j \in has : i <= j
<1>1. has # {} /\ Field(chunk, "corpus_path") = chunk[least].fields["corpus_path"]
  BY DEF Field
<1>2. has \subseteq Nat
  OBVIOUS
<1>3. least \in has
  <2> HIDE DEF has
  <2> QED
    BY <1>1, <1>2, LeastExists
<1>4. chunk[least] \in Parcels /\ "corpus_path" \in DOMAIN chunk[least].fields
  <2> HIDE DEF least
  <2> QED
    BY <1>3
<1> HIDE DEF least
<1> QED
  BY <1>1, <1>4, ParcelPath

LEMMA ChunkOK ==
    ASSUME inbox \in [Conns -> Seq(Parcels)], NEW c \in Conns, NEW n \in 1..Len(inbox[c])
    PROVE  /\ Chunk(c, n) \in Seq(Parcels)
           /\ SubSeq(inbox[c], n + 1, Len(inbox[c])) \in Seq(Parcels)
  BY DEF Chunk

-------------------------------------------------------------------------------
(* The loop thread: nothing is open or under way before main() has started   *)
(* the server, and what the loop reads are parcels.                          *)
LoopInv ==
    /\ inbox \in [Conns -> Seq(Parcels)]
    /\ conn \in [Conns -> {"none", "backlog", "open", "ended", "closed", "refused"}]
    /\ booted \in BOOLEAN
    /\ \A c \in Conns : conn[c] # "none" => booted
    /\ Blocked => booted

LEMMA ReadOK ==
    ASSUME LoopInv, NEW c \in Conns, NEW n \in 1..Len(inbox[c]), Read(c, n)
    PROVE  LoopInv' /\ ~Blocked /\ booted
<1>1. SubSeq(inbox[c], n + 1, Len(inbox[c])) \in Seq(Parcels)
  BY ChunkOK DEF LoopInv
<1>2. booted /\ ~Blocked
  BY DEF Read, LoopInv
<1>3. booted' = booted /\ conn' = conn
      /\ inbox' = [inbox EXCEPT ![c] = SubSeq(@, n + 1, Len(@))]
  BY DEF Read
<1> QED
  BY <1>1, <1>2, <1>3 DEF LoopInv

LEMMA LoopInvInit == Init => LoopInv
<1>1. <<>> \in Seq(Parcels)
  OBVIOUS
<1> QED
  BY <1>1 DEF Init, LoopInv, Blocked

LEMMA LoopInvNext == LoopInv /\ [Next]_rvars => LoopInv'
<1> SUFFICES ASSUME LoopInv, [Next]_rvars PROVE LoopInv'
  OBVIOUS
<1>1. CASE Boot
  BY <1>1 DEF Boot, LoopInv, network, Blocked
<1>2. ASSUME NEW c \in Conns, Connect(c) \/ HangUp(c) \/ OnConnection(c)
                           \/ ConnectionRefused(c) \/ OnEnd(c)
      PROVE  LoopInv'
  <2>1. task' = task /\ booted' = booted
        /\ inbox' \in {inbox, [inbox EXCEPT ![c] = <<>>]}
    BY <1>2 DEF Connect, HangUp, OnConnection, ConnectionRefused, OnEnd
  <2>2. inbox' \in [Conns -> Seq(Parcels)]
    <3>1. <<>> \in Seq(Parcels)
      OBVIOUS
    <3> QED
      BY <2>1, <3>1 DEF LoopInv
  <2>3. \E place \in {"backlog", "open", "ended", "closed", "refused"} :
            conn' = [conn EXCEPT ![c] = place] /\ booted
    BY <1>2 DEF Connect, HangUp, OnConnection, ConnectionRefused, OnEnd, LoopInv
  <2> QED
    BY <2>1, <2>2, <2>3 DEF LoopInv, Blocked
<1>3. ASSUME NEW c \in Conns, OnRead(c) PROVE LoopInv'
  <2>1. PICK n \in 1..Len(inbox[c]) : Read(c, n)
    BY <1>3 DEF OnRead, Simple, IndexRejected, IndexLoads, QueryUnparsed, QueryRejected,
       QueryAccepted
  <2> QED
    BY <2>1, ReadOK
<1>4. ASSUME NEW c \in Conns, NEW m \in Messages, Send(c, m) PROVE LoopInv'
  <2>1. inbox[c] \o Segments(m) \in Seq(Parcels)
    BY SegmentsOK DEF LoopInv
  <2>2. /\ inbox' = [inbox EXCEPT ![c] = inbox[c] \o Segments(m)]
        /\ conn' = conn /\ task' = task /\ booted' = booted
    BY <1>4 DEF Send
  <2> QED
    BY <2>1, <2>2 DEF LoopInv, Blocked
<1>5. CASE Settle \/ SubmitFaults \/ QueryThrows \/ UNCHANGED rvars
  BY <1>5 DEF Settle, SubmitFaults, QueryThrows, rvars, network, LoopInv, Blocked
<1>6. CASE QueryAnswered
  BY <1>6 DEF QueryAnswered, network, LoopInv, Blocked
<1> QED
  BY <1>1, <1>2, <1>3, <1>4, <1>5, <1>6 DEF Next

-------------------------------------------------------------------------------
(* Every step of the server is a step of the store or leaves it alone, so    *)
(* what is proved of the store above holds in the server.                    *)
LEMMA StoreStep == LoopInv /\ [Next]_rvars => [StoreNext]_storeVars
<1> SUFFICES ASSUME LoopInv, [Next]_rvars PROVE [StoreNext]_storeVars
  OBVIOUS
<1>1. ASSUME NEW p \in Paths, LoadReturns(p) \/ LoadFails(p) PROVE StoreNext
  BY <1>1 DEF LoadReturns, LoadFails, StoreNext
<1>2. CASE Boot
  BY <1>1, <1>2 DEF Boot
<1>3. ASSUME NEW c \in Conns, OnRead(c) PROVE [StoreNext]_storeVars
  <2>1. PICK n \in 1..Len(inbox[c]) :
            \/ Simple(c, n) \/ IndexRejected(c, n) \/ IndexLoads(c, n)
            \/ QueryUnparsed(c, n) \/ QueryRejected(c, n) \/ QueryAccepted(c, n)
    BY <1>3 DEF OnRead
  <2>2. CASE IndexLoads(c, n)
    <3>1. Field(Chunk(c, n), "corpus_path") \in Paths
      BY <2>2, ChunkOK, FieldOK DEF IndexLoads, LoopInv
    <3> QED
      BY <1>1, <2>2, <3>1 DEF IndexLoads
  <2>3. CASE ~IndexLoads(c, n)
    BY <2>1, <2>3 DEF Simple, IndexRejected, QueryUnparsed, QueryRejected, QueryAccepted
  <2> QED
    BY <2>2, <2>3
<1>4. CASE QueryAnswered
  BY <1>4, ServerAssumption DEF QueryAnswered, StoreNext
<1>5. CASE \/ \E c \in Conns : Connect(c) \/ HangUp(c) \/ OnConnection(c)
                            \/ ConnectionRefused(c) \/ OnEnd(c)
           \/ \E c \in Conns, m \in Messages : Send(c, m)
           \/ Settle \/ SubmitFaults \/ QueryThrows \/ UNCHANGED rvars
  BY <1>5 DEF Connect, HangUp, OnConnection,
     ConnectionRefused, OnEnd, Send, Settle, SubmitFaults,
     QueryThrows, rvars, storeVars
<1> QED
  BY <1>2, <1>3, <1>4, <1>5 DEF Next

(* The handlers use the index only by load() of files and by search(): the   *)
(* server is a run of the store.                                             *)
THEOREM ServerRunsStore == Spec => StoreSpec
<1>1. Init => StoreInit
  BY DEF Init
<1> QED
  BY <1>1, LoopInvInit, LoopInvNext, StoreStep, PTL DEF Spec, StoreSpec

(* What a request can make of the index always has metadata for every vector *)
(* and the vectors of one file.                                              *)
THEOREM ServedIndexDescribed == Spec => [](MetadataCovers /\ OneFileIndexed)
  BY ServerRunsStore, EveryVectorCovered, IndexHoldsOneFile, PTL

-------------------------------------------------------------------------------
(* The batcher: the server only submits, once per request, and waits.        *)
ServiceStep ==
    \/ UNCHANGED batcher
    \/ Batcher!Crash
    \/ \E r \in Requests : Batcher!Accept(r) \/ Batcher!Settle(r)

LEMMA ServerUsesService == [Next]_rvars => ServiceStep
<1> SUFFICES ASSUME [Next]_rvars PROVE ServiceStep
  OBVIOUS
<1>1. ASSUME NEW c \in Conns, OnRead(c) PROVE ServiceStep
  BY <1>1 DEF OnRead, Simple, IndexRejected, IndexLoads, QueryUnparsed, QueryRejected,
     QueryAccepted, ServiceStep, Submitted
<1>2. CASE ~\E c \in Conns : OnRead(c)
  BY <1>2 DEF Next, Boot, Connect, HangUp, OnConnection,
     ConnectionRefused, OnEnd, Send, Settle,
     SubmitFaults, QueryThrows, QueryAnswered, rvars, batcher, ServiceStep
<1> QED
  BY <1>1, <1>2

(* What the batcher holds is the query the loop thread is blocked on.        *)
WaitingInv ==
    /\ Batcher!STypeOK
    /\ closed = FALSE
    /\ \A r \in Requests : status[r] = "accepted" => Blocked /\ task.request = r

LEMMA WaitingInvNext == WaitingInv /\ [Next]_rvars => WaitingInv'
<1> SUFFICES ASSUME WaitingInv, [Next]_rvars PROVE WaitingInv'
  OBVIOUS
<1>1. Batcher!STypeOK' /\ closed' = FALSE
  BY ServerUsesService DEF ServiceStep, batcher, WaitingInv, Batcher!STypeOK,
     Batcher!Statuses, Batcher!Crash, Batcher!Accept, Batcher!Settle, Batcher!Resolve
<1>2. ASSUME UNCHANGED <<task, batcher>> \/ (task' = task /\ Batcher!Crash) PROVE WaitingInv'
  BY <1>1, <1>2 DEF WaitingInv, Blocked, batcher, Batcher!Crash
<1>3. ASSUME NEW c \in Conns, NEW n, QueryAccepted(c, n) PROVE WaitingInv'
  <2>1. PICK r \in Requests :
            /\ Batcher!Accept(r)
            /\ task' = [conn |-> c, request |-> r, top_k |-> TopK(Chunk(c, n))]
    BY <1>3 DEF QueryAccepted, Submitted
  <2>2. task'.request = r /\ task' # Idle
    <3>1. "request" \in DOMAIN task' /\ "request" \notin DOMAIN Idle
      BY <2>1 DEF Idle
    <3> QED
      BY <2>1, <3>1
  <2>3. \A q \in Requests : status[q] # "accepted"
    BY <1>3 DEF QueryAccepted, Read, WaitingInv
  <2>4. \A q \in Requests \ {r} : status'[q] # "accepted"
    BY <2>1, <2>3 DEF Batcher!Accept, Batcher!Resolve, WaitingInv, Batcher!STypeOK
  <2> QED
    BY <1>1, <2>2, <2>4 DEF WaitingInv, Blocked
<1>4. CASE Settle
  <2>1. PICK r \in Requests, s \in {"value", "error"} :
            status' = [status EXCEPT ![r] = s] /\ task' = task
    BY <1>4 DEF Settle, Batcher!Settle, Batcher!Resolve
  <2>2. \A q \in Requests : status'[q] = "accepted" => status[q] = "accepted"
    BY <2>1 DEF WaitingInv, Batcher!STypeOK
  <2> QED
    BY <1>1, <2>1, <2>2 DEF WaitingInv, Blocked
<1>5. CASE QueryAnswered
  <2>1. status[task.request] = "value" /\ status' = status
    BY <1>5 DEF QueryAnswered, batcher
  <2>2. \A q \in Requests : status'[q] # "accepted"
    BY <2>1 DEF WaitingInv
  <2> QED
    BY <1>1, <2>2 DEF WaitingInv
<1>6. ASSUME NEW c \in Conns, OnRead(c) PROVE WaitingInv'
  BY <1>2, <1>3, <1>6 DEF OnRead, Simple, IndexRejected, IndexLoads, QueryUnparsed,
     QueryRejected
<1>7. CASE \/ Boot \/ SubmitFaults \/ QueryThrows \/ UNCHANGED rvars
           \/ \E c \in Conns : Connect(c) \/ HangUp(c) \/ OnConnection(c)
                            \/ ConnectionRefused(c) \/ OnEnd(c)
           \/ \E c \in Conns, m \in Messages : Send(c, m)
  BY <1>2, <1>7 DEF Boot, SubmitFaults, QueryThrows, rvars, Connect, HangUp,
     OnConnection, ConnectionRefused, OnEnd, Send
<1> QED
  BY <1>4, <1>5, <1>6, <1>7 DEF Next

(* The batcher never holds two requests of the server: it batches nothing.   *)
THEOREM OneAtATime == Spec => []NothingToBatch
<1>1. Init => WaitingInv
  BY DEF Init, WaitingInv, Batcher!SInit, Batcher!STypeOK, Batcher!Statuses
<1>2. WaitingInv => NothingToBatch
  BY DEF WaitingInv, NothingToBatch
<1> QED
  BY <1>1, <1>2, WaitingInvNext, PTL DEF Spec

-------------------------------------------------------------------------------
(* Only a load that returns sets the flag, and it leaves an HNSW index or no *)
(* metadata; a search changes neither kind.                                  *)
ReadyInv == StoreInv /\ LoopInv /\ ReadyIndexBuilt

LEMMA ReturnedIndexBuilt ==
    ASSUME StoreInv, NEW p \in Paths, Loads(p)
    PROVE  store'.metadata # <<>> => store'.index.kind = "hnsw"
<1> DEFINE s == LoadCorpus(store, p)
<1>1. store' = BuildIndex(s)
  BY DEF Loads
<1>2. CASE s.metadata = <<>>
  BY <1>1, <1>2 DEF BuildIndex
<1>3. CASE s.metadata # <<>>
  <2>1. \/ s = store
        \/ \E vs, m, k, d : s = [index |-> Flat(vs), metadata |-> m, num_vectors |-> k,
                                 dimension |-> d]
    BY DEF LoadCorpus, FileTaken, Loads
  <2>2. "index" \in DOMAIN s
    BY <2>1 DEF StoreInv, StoreTypeOK
  <2>3. \E vs : store' = [s EXCEPT !.index = HNSW(vs)]
    BY <1>1, <1>3 DEF BuildIndex
  <2> HIDE DEF s
  <2>4. \E vs : store'.index = HNSW(vs)
    BY <2>2, <2>3
  <2> QED
    BY <2>4 DEF HNSW
<1> QED
  BY <1>2, <1>3

LEMMA ReadyInvNext == ReadyInv /\ [Next]_rvars => ReadyInv'
<1> SUFFICES ASSUME ReadyInv, [Next]_rvars PROVE ReadyInv'
  OBVIOUS
<1> USE DEF ReadyInv
<1>1. StoreInv' /\ LoopInv'
  BY StoreStep, StoreInvNext, LoopInvNext
<1>2. ASSUME NEW p \in Paths, LoadReturns(p) \/ LoadFails(p) PROVE ReadyIndexBuilt'
  BY <1>2, ReturnedIndexBuilt DEF LoadReturns, LoadFails, ReadyIndexBuilt, IsReady, IsLoaded
<1>3. ASSUME store' = store, ready' = ready PROVE ReadyIndexBuilt'
  BY <1>3 DEF ReadyIndexBuilt, IsReady, IsLoaded
<1>4. CASE Boot
  BY <1>1, <1>2, <1>3, <1>4 DEF Boot, storeVars
<1>5. ASSUME NEW c \in Conns, OnRead(c) PROVE ReadyIndexBuilt'
  <2>1. PICK n \in 1..Len(inbox[c]) :
            \/ Simple(c, n) \/ IndexRejected(c, n) \/ IndexLoads(c, n)
            \/ QueryUnparsed(c, n) \/ QueryRejected(c, n) \/ QueryAccepted(c, n)
    BY <1>5 DEF OnRead
  <2>2. CASE IndexLoads(c, n)
    <3>1. Field(Chunk(c, n), "corpus_path") \in Paths
      BY <2>2, ChunkOK, FieldOK DEF IndexLoads, LoopInv
    <3> QED
      BY <1>2, <2>2, <3>1 DEF IndexLoads
  <2>3. CASE ~IndexLoads(c, n)
    BY <1>3, <2>1, <2>3 DEF Simple, IndexRejected, QueryUnparsed, QueryRejected,
       QueryAccepted, storeVars
  <2> QED
    BY <2>2, <2>3
<1>6. CASE QueryAnswered
  <2>1. Search(DefaultWidth) /\ ready' = ready
    BY <1>6 DEF QueryAnswered
  <2>2. store'.metadata = store.metadata /\ store'.index.kind = store.index.kind
    BY <2>1, SearchOK, ServerAssumption
  <2> QED
    BY <1>1, <2>1, <2>2 DEF ReadyIndexBuilt, IsReady, IsLoaded
<1>7. CASE \/ \E c \in Conns : Connect(c) \/ HangUp(c) \/ OnConnection(c)
                            \/ ConnectionRefused(c) \/ OnEnd(c)
           \/ \E c \in Conns, m \in Messages : Send(c, m)
           \/ Settle \/ SubmitFaults \/ QueryThrows \/ UNCHANGED rvars
  BY <1>1, <1>3, <1>7 DEF Connect, HangUp, OnConnection,
     ConnectionRefused, OnEnd, Send, Settle, SubmitFaults,
     QueryThrows, rvars, storeVars
<1> QED
  BY <1>1, <1>4, <1>5, <1>6, <1>7 DEF Next

LEMMA ReadyInvariant == Spec => []ReadyInv
<1>1. Init => ReadyInv
  BY StoreInvInit, LoopInvInit DEF Init, ReadyInv, ReadyIndexBuilt, IsReady
<1> QED
  BY <1>1, ReadyInvNext, PTL DEF Spec

(* The index queries are let through to is one that a load has built. *)
THEOREM QueriesReachBuiltIndex == Spec => []ReadyIndexBuilt
<1>1. ReadyInv => ReadyIndexBuilt
  BY DEF ReadyInv
<1> QED
  BY <1>1, ReadyInvariant, PTL

(* While the loop thread is blocked on a query, nobody loads: the query       *)
(* searches the index it was admitted for.                                   *)
THEOREM NothingLoadsMeanwhile == Spec => AdmittedIndexSearched
<1>1. ASSUME LoopInv, [Next]_rvars, task # Idle, task' = task
      PROVE  ready' = ready /\ store' = store
  <2>1. Blocked /\ booted
    BY <1>1 DEF Blocked, LoopInv
  <2>2. ASSUME NEW c \in Conns PROVE ~OnRead(c)
    BY <2>1 DEF OnRead, Simple, IndexRejected, IndexLoads, QueryUnparsed, QueryRejected,
       QueryAccepted, Read
  <2>3. ~Boot /\ ~QueryAnswered
    BY <1>1, <2>1 DEF Boot, QueryAnswered
  <2> QED
    BY <1>1, <2>2, <2>3 DEF Next, Connect, HangUp, OnConnection,
       ConnectionRefused, OnEnd, Send, Settle,
       SubmitFaults, QueryThrows, rvars, storeVars
<1>2. LoopInv /\ [Next]_rvars =>
         [task # Idle /\ task' = task => ready' = ready /\ store' = store]_rvars
  BY <1>1
<1> QED
  BY <1>2, LoopInvInit, LoopInvNext, PTL DEF Spec, AdmittedIndexSearched

-------------------------------------------------------------------------------
(* Merging.  FoldLeft takes the last result out of those left at every step.  *)
MergedBy(it, results) ==
    it = [s \in SUBSET (DOMAIN results) |->
             IF s = {} THEN <<>> ELSE Merged(it[s \ {Max(s)}], results[Max(s)])]

LEMMA MergeIs ==
    ASSUME NEW results
    PROVE  Merge(results) = (CHOOSE it : MergedBy(it, results))[DOMAIN results]
  BY DEF Merge, FoldLeft, MapThenFoldSet, MergedBy

LEMMA MaxOK ==
    ASSUME NEW n \in Nat, NEW s \in SUBSET (1..n), s # {}
    PROVE  Max(s) \in s
<1> DEFINE T == {n - x : x \in s}
<1>1. T \subseteq Nat /\ T # {}
  <2>1. \A x \in s : n - x \in Nat
    OBVIOUS
  <2> QED
    BY <2>1
<1>2. PICK i \in T : \A j \in T : i <= j
  <2> HIDE DEF T
  <2> QED
    BY <1>1, LeastExists
<1>3. PICK x \in s : i = n - x
  BY <1>2
<1>4. \A y \in s : x >= y
  <2> TAKE y \in s
  <2>1. n - x <= n - y
    BY <1>2, <1>3
  <2> QED
    BY <2>1
<1> QED
  BY <1>4 DEF Max

Chunked == Paths \X Nat

IdsDistinct(kept) == \A i, j \in DOMAIN kept : Id(kept[i]) = Id(kept[j]) => i = j

LEMMA MergedOK ==
    ASSUME NEW kept \in Seq(Chunked), NEW chunk \in Chunked
    PROVE  /\ Merged(kept, chunk) \in Seq(Chunked)
           /\ IdsDistinct(kept) => IdsDistinct(Merged(kept, chunk))
<1>1. CASE \E i \in DOMAIN kept : Id(kept[i]) = Id(chunk)
  BY <1>1 DEF Merged
<1>2. CASE ~\E i \in DOMAIN kept : Id(kept[i]) = Id(chunk)
  <2> DEFINE longer == Append(kept, chunk)
  <2>1. Merged(kept, chunk) = longer
    BY <1>2 DEF Merged
  <2>2. /\ longer \in Seq(Chunked) /\ DOMAIN longer = 1..(Len(kept) + 1)
        /\ DOMAIN kept = 1..Len(kept) /\ Len(kept) \in Nat
        /\ longer[Len(kept) + 1] = chunk
        /\ \A i \in DOMAIN kept : longer[i] = kept[i]
    BY AppendProperties
  <2> HIDE DEF longer
  <2>3. ASSUME IdsDistinct(kept), NEW i \in DOMAIN longer, NEW j \in DOMAIN longer,
               Id(longer[i]) = Id(longer[j])
        PROVE  i = j
    <3>1. CASE i \in DOMAIN kept /\ j \in DOMAIN kept
      BY <2>2, <2>3, <3>1 DEF IdsDistinct
    <3>2. CASE i \in DOMAIN kept /\ j = Len(kept) + 1
      BY <1>2, <2>2, <2>3, <3>2
    <3>3. CASE i = Len(kept) + 1 /\ j \in DOMAIN kept
      BY <1>2, <2>2, <2>3, <3>3
    <3>4. i \in DOMAIN kept \/ i = Len(kept) + 1
      BY <2>2
    <3>5. j \in DOMAIN kept \/ j = Len(kept) + 1
      BY <2>2
    <3> QED
      BY <3>1, <3>2, <3>3, <3>4, <3>5
  <2>4. IdsDistinct(kept) => IdsDistinct(longer)
    BY <2>3 DEF IdsDistinct
  <2> QED
    BY <2>1, <2>2, <2>4
<1> QED
  BY <1>1, <1>2

(* However many results there are and whichever ids repeat, none is kept     *)
(* twice.                                                                    *)
LEMMA MergeDistinct ==
    ASSUME NEW results \in Seq(Chunked)
    PROVE  Merge(results) \in Seq(Chunked) /\ IdsDistinct(Merge(results))
<1> DEFINE S == DOMAIN results
           it == CHOOSE f : MergedBy(f, results)
<1>1. Len(results) \in Nat /\ S = 1..Len(results) /\ IsFiniteSet(S)
  BY FS_Interval
<1>2. \A s \in SUBSET S : s # {} => Max(s) \in s
  BY <1>1, MaxOK
<1>3. \A i \in S : results[i] \in Chunked
  OBVIOUS
<1>4. MergedBy(it, results)
  <2> DEFINE step == [x \in S \X Seq(Chunked) |-> Merged(x[2], results[x[1]])]
             pick == [s \in SUBSET S |-> Max(s)]
  <2>1. \A x \in S, v \in Seq(Chunked) : step[<<x, v>>] = Merged(v, results[x])
    OBVIOUS
  <2>2. \A x \in S, v \in Seq(Chunked) : step[<<x, v>>] \in Seq(Chunked)
    BY <1>3, <2>1, MergedOK
  <2>3. \A s \in SUBSET S : pick[s] = Max(s)
    OBVIOUS
  <2>4. <<>> \in Seq(Chunked)
    OBVIOUS
  <2> HIDE DEF step, pick, S
  <2>5. Picks(pick, S)
    BY <1>2, <2>3 DEF Picks
  <2>6. PICK f \in [SUBSET S -> Seq(Chunked)] : Recurses(f, S, <<>>, step, pick)
    <3>1. StaysIn(step, S, Seq(Chunked))
      BY <2>2 DEF StaysIn
    <3> QED
      BY <1>1, <2>4, <2>5, <3>1, SetRecursion
  <2>7. \A s \in SUBSET S :
            f[s] = IF s = {} THEN <<>> ELSE Merged(f[s \ {Max(s)}], results[Max(s)])
    <3> SUFFICES ASSUME NEW s \in SUBSET S, s # {}
                 PROVE  f[s] = Merged(f[s \ {Max(s)}], results[Max(s)])
      BY <2>6 DEF Recurses
    <3>1. Max(s) \in S /\ f[s \ {Max(s)}] \in Seq(Chunked)
      BY <1>2, <2>6
    <3> QED
      BY <2>1, <2>3, <2>6, <3>1 DEF Recurses
  <2>8. f = [s \in SUBSET S |->
               IF s = {} THEN <<>> ELSE Merged(f[s \ {Max(s)}], results[Max(s)])]
    BY <2>6, <2>7
  <2>9. MergedBy(f, results)
    BY <2>8 DEF MergedBy, S
  <2> QED
    BY <2>9
<1>5. \A s \in SUBSET S :
         it[s] = IF s = {} THEN <<>> ELSE Merged(it[s \ {Max(s)}], results[Max(s)])
  <2> HIDE DEF it
  <2> QED
    BY <1>4 DEF MergedBy
<1> DEFINE Good(v) == v \in Seq(Chunked) /\ IdsDistinct(v)
           N == {n \in Nat : \A s \in SUBSET S : Cardinality(s) = n => Good(it[s])}
<1> HIDE DEF it, S
<1>6. \A s \in SUBSET S : IsFiniteSet(s) /\ Cardinality(s) \in Nat
  BY <1>1, FS_Subset, FS_CardinalityType
<1>7. 0 \in N
  <2>1. Good(<<>>)
    BY DEF IdsDistinct
  <2> QED
    BY <1>5, <1>6, <2>1, FS_EmptySet
<1>8. ASSUME NEW n \in Nat, n \in N PROVE n + 1 \in N
  <2> SUFFICES ASSUME NEW s \in SUBSET S, Cardinality(s) = n + 1 PROVE Good(it[s])
    OBVIOUS
  <2>1. s # {}
    BY <1>6, FS_EmptySet
  <2>2. Max(s) \in s
    BY <1>2, <2>1
  <2> DEFINE t == s \ {Max(s)}
  <2>3. t \in SUBSET S /\ Cardinality(t) = n
    BY <1>6, <2>2, OneLess
  <2>4. Good(it[t])
    BY <1>8, <2>3
  <2>5. it[s] = Merged(it[t], results[Max(s)]) /\ results[Max(s)] \in Chunked
    BY <1>3, <1>5, <2>1, <2>2
  <2> HIDE DEF t
  <2> QED
    BY <2>4, <2>5, MergedOK
<1>9. Cardinality(S) \in Nat /\ Cardinality(S) \in N
  <2> HIDE DEF N
  <2> QED
    BY <1>6, <1>7, <1>8, NatSetInduction
<1>10. Good(it[S])
  BY <1>9
<1>11. Merge(results) = it[S]
  BY MergeIs DEF it, S
<1> QED
  BY <1>10, <1>11

-------------------------------------------------------------------------------
AnswerInv == StoreInv /\ LoopInv /\ ResultsDistinct

LEMMA SearchedChunks ==
    ASSUME StoreInv, NEW k, NEW hits \in Hits(k)
    PROVE  [i \in DOMAIN hits |-> store.metadata[hits[i]]] \in Seq(Chunked)
<1>1. PICK m \in 0..k : hits \in [1..m -> Describable]
  BY DEF Hits, SeqOf
<1>2. \A i \in 1..m : store.metadata[hits[i]] \in Chunked
  <2> TAKE i \in 1..m
  <2>1. hits[i] \in DOMAIN store.index.vectors /\ hits[i] <= Len(store.metadata)
    BY <1>1 DEF Describable
  <2>2. store.metadata \in Seq(Chunked) /\ store.index.vectors \in Seq(Vectors)
    BY DEF StoreInv, StoreTypeOK, Chunked
  <2>3. hits[i] \in 1..Len(store.metadata)
    BY <2>1, <2>2
  <2> QED
    BY <2>2, <2>3
<1> QED
  BY <1>1, <1>2

LEMMA AnswerInvNext == AnswerInv /\ [Next]_rvars => AnswerInv'
<1> SUFFICES ASSUME AnswerInv, [Next]_rvars PROVE AnswerInv'
  OBVIOUS
<1> USE DEF AnswerInv
<1>1. StoreInv' /\ LoopInv'
  BY StoreStep, StoreInvNext, LoopInvNext
<1>2. CASE QueryAnswered
  <2>1. PICK hits \in Hits(task.top_k) :
            answer' = Merge([i \in DOMAIN hits |-> store.metadata[hits[i]]])
    BY <1>2 DEF QueryAnswered
  <2>2. task.top_k >= 0
    BY <1>2 DEF QueryAnswered
  <2>3. [i \in DOMAIN hits |-> store.metadata[hits[i]]] \in Seq(Chunked)
    BY SearchedChunks
  <2>4. IdsDistinct(answer')
    BY <2>1, <2>3, MergeDistinct
  <2> QED
    BY <1>1, <2>4 DEF IdsDistinct, ResultsDistinct
<1>3. ASSUME NEW c \in Conns, OnRead(c) PROVE answer' = answer
  BY <1>3 DEF OnRead, Simple, IndexRejected, IndexLoads, QueryUnparsed, QueryRejected,
     QueryAccepted, Read
<1>4. CASE ~QueryAnswered
  <2>1. answer' = answer
    BY <1>3, <1>4 DEF Next, Boot, Connect, HangUp, OnConnection,
       ConnectionRefused, OnEnd, Send, Settle,
       SubmitFaults, QueryThrows, rvars
  <2> QED
    BY <1>1, <2>1 DEF ResultsDistinct
<1> QED
  BY <1>2, <1>4

(* The response to a query never names a chunk twice.                        *)
THEOREM ResultsAreDistinct == Spec => []ResultsDistinct
<1>1. Init => AnswerInv
  BY StoreInvInit, LoopInvInit DEF Init, AnswerInv, ResultsDistinct
<1>2. AnswerInv => ResultsDistinct
  BY DEF AnswerInv
<1> QED
  BY <1>1, <1>2, AnswerInvNext, PTL DEF Spec

-------------------------------------------------------------------------------
(* The metrics.  The request that the loop thread is blocked on is the next   *)
(* after those answered, so that the values the histogram is given are the   *)
(* queries in the order of their responses.                                  *)
Routes == {"query", "index", "health", "metrics", "other", "body"}

Responses == [route : Routes, status : Nat]

(* The durations after q queries. *)
Latest(q) ==
    LET kept == IF q < MaxHistogram THEN q ELSE MaxHistogram
    IN  [i \in 1..kept |-> q - kept + i]

Underway == IF Blocked THEN 1 ELSE 0

TimedInv ==
    /\ LoopInv
    /\ WaitingInv
    /\ written \in [Conns -> Seq(Responses)]
    /\ IsFiniteSet(Successes)
    /\ MetricsAgree
    /\ Blocked => task.conn \in Conns /\ task.request = QueriesAnswered + 1
    /\ \A r \in Requests : status[r] # "none" <=> r <= QueriesAnswered + Underway

LEMMA Numbered ==
    ASSUME NEW n \in Nat, NEW values \in Seq(Int), Len(values) = n, NEW k \in Int,
           \A i \in 1..n : values[i] = k + i
    PROVE  values = [i \in 1..n |-> k + i]
<1>1. DOMAIN values = 1..n /\ values = [i \in DOMAIN values |-> values[i]]
  OBVIOUS
<1> QED
  BY <1>1

LEMMA ObserveLatest == ASSUME NEW q \in Nat PROVE Observe(Latest(q), q + 1) = Latest(q + 1)
<1> DEFINE kept == IF q < MaxHistogram THEN q ELSE MaxHistogram
           longer == Append(Latest(q), q + 1)
<1>1. kept \in Nat /\ MaxHistogram \in Nat /\ MaxHistogram >= 1
  BY HistogramAssumption
<1>2. Latest(q) = [i \in 1..kept |-> q - kept + i]
  BY DEF Latest
<1>3. Latest(q) \in Seq(Int) /\ Len(Latest(q)) = kept
  <2> HIDE DEF kept
  <2> QED
    BY <1>1, <1>2
<1>4. /\ longer \in Seq(Int) /\ Len(longer) = kept + 1
      /\ \A i \in 1..(kept + 1) : longer[i] = q - kept + i
  <2> HIDE DEF kept
  <2>1. /\ longer \in Seq(Int) /\ Len(longer) = kept + 1
        /\ longer[kept + 1] = q + 1
        /\ \A i \in 1..kept : longer[i] = Latest(q)[i]
    BY <1>1, <1>3, AppendProperties
  <2>2. \A i \in 1..kept : longer[i] = q - kept + i
    BY <1>2, <2>1
  <2>3. longer[kept + 1] = q - kept + (kept + 1)
    BY <1>1, <2>1
  <2> QED
    BY <1>1, <2>1, <2>2, <2>3
<1>5. Observe(Latest(q), q + 1) = IF Len(longer) > MaxHistogram THEN Tail(longer) ELSE longer
  BY DEF Observe
<1> HIDE DEF longer
<1>6. CASE q < MaxHistogram
  <2>1. kept = q
    BY <1>6
  <2>2. Observe(Latest(q), q + 1) = longer
    BY <1>1, <1>4, <1>5, <1>6, <2>1
  <2>3. longer = [i \in 1..(q + 1) |-> 0 + i]
    <3>1. Len(longer) = q + 1 /\ \A i \in 1..(q + 1) : longer[i] = 0 + i
      BY <1>4, <2>1
    <3> QED
      BY <1>4, <3>1, Numbered
  <2>4. Latest(q + 1) = [i \in 1..(q + 1) |-> (q + 1) - (q + 1) + i]
    BY <1>1, <1>6 DEF Latest
  <2>5. (q + 1) - (q + 1) = 0
    OBVIOUS
  <2> QED
    BY <2>2, <2>3, <2>4, <2>5
<1>7. CASE ~(q < MaxHistogram)
  <2> DEFINE M == MaxHistogram
  <2>1. kept = M
    BY <1>7
  <2>2. Observe(Latest(q), q + 1) = Tail(longer)
    <3>1. Len(longer) > MaxHistogram
      <4> HIDE DEF kept
      <4> QED
        BY <1>1, <1>4, <2>1
    <3> QED
      BY <1>5, <3>1
  <2>3. /\ Tail(longer) \in Seq(Int) /\ Len(Tail(longer)) = M
        /\ \A i \in 1..M : Tail(longer)[i] = longer[i + 1]
    BY <1>1, <1>4, <2>1
  <2>4. \A i \in 1..M : Tail(longer)[i] = (q + 1) - M + i
    <3> TAKE i \in 1..M
    <3>1. i + 1 \in 1..(kept + 1)
      BY <1>1, <2>1
    <3>2. longer[i + 1] = q - M + (i + 1)
      BY <1>4, <2>1, <3>1
    <3> QED
      BY <1>1, <2>3, <3>2
  <2>5. Tail(longer) = [i \in 1..M |-> (q + 1) - M + i]
    <3>1. (q + 1) - M \in Int /\ M \in Nat
      BY <1>1
    <3> QED
      BY <2>3, <2>4, <3>1, Numbered
  <2>6. Latest(q + 1) = [i \in 1..M |-> (q + 1) - M + i]
    BY <1>1, <1>7 DEF Latest
  <2> QED
    BY <2>2, <2>5, <2>6
<1> QED
  BY <1>6, <1>7

LEMMA SuccessIn ==
    \A x : x \in Successes <=>
              \E c \in Conns : \E i \in DOMAIN written[c] :
                 x = <<c, i>> /\ written[c][i] = Success
  BY DEF Successes

(* A reply adds to the successes if it is one, and otherwise leaves them.    *)
LEMMA Replied ==
    ASSUME written \in [Conns -> Seq(Responses)], NEW c \in Conns,
           NEW route \in Routes, NEW code \in Nat, Reply(c, route, code)
    PROVE  /\ written' \in [Conns -> Seq(Responses)]
           /\ <<c, Len(written[c]) + 1>> \notin Successes
           /\ Successes' =
                 IF [route |-> route, status |-> code] = Success
                 THEN Successes \cup {<<c, Len(written[c]) + 1>>}
                 ELSE Successes
<1> DEFINE reply == [route |-> route, status |-> code]
           old == written[c]
           longer == Append(old, reply)
           n == Len(old) + 1
<1>1. reply \in Responses /\ old \in Seq(Responses)
  BY DEF Responses
<1>2. /\ longer \in Seq(Responses) /\ DOMAIN longer = 1..n /\ DOMAIN old = 1..Len(old)
      /\ Len(old) \in Nat /\ longer[n] = reply
      /\ \A i \in DOMAIN old : longer[i] = old[i]
  <2> HIDE DEF reply, old
  <2> QED
    BY <1>1, AppendProperties
<1>3. written' = [written EXCEPT ![c] = longer]
  BY DEF Reply
<1> HIDE DEF reply, longer
<1>4. /\ written' \in [Conns -> Seq(Responses)] /\ written'[c] = longer
      /\ \A d \in Conns \ {c} : written'[d] = written[d]
  BY <1>2, <1>3
<1>5. \A x : x \in Successes' <=>
                \E d \in Conns : \E i \in DOMAIN written'[d] :
                   x = <<d, i>> /\ written'[d][i] = Success
  BY DEF Successes
<1>6. <<c, n>> \notin Successes
  <2> SUFFICES ASSUME <<c, n>> \in Successes PROVE FALSE
    OBVIOUS
  <2>1. PICK d \in Conns : \E i \in DOMAIN written[d] :
                             <<c, n>> = <<d, i>> /\ written[d][i] = Success
    BY SuccessIn
  <2>2. n \in DOMAIN old
    BY <2>1
  <2> HIDE DEF old
  <2> QED
    BY <1>2, <2>2
<1>7. ASSUME NEW x, x \in Successes' PROVE x \in Successes \/ (x = <<c, n>> /\ reply = Success)
  <2>0. PICK d \in Conns : \E i \in DOMAIN written'[d] :
            x = <<d, i>> /\ written'[d][i] = Success
    BY <1>5, <1>7
  <2>1. PICK i \in DOMAIN written'[d] : x = <<d, i>> /\ written'[d][i] = Success
    BY <2>0
  <2>2. CASE d # c
    BY <1>4, <2>1, <2>2, SuccessIn
  <2>3. CASE d = c /\ i \in DOMAIN old
    BY <1>2, <1>4, <2>1, <2>3, SuccessIn
  <2>4. CASE d = c /\ i = n
    BY <1>2, <1>4, <2>1, <2>4
  <2>5. d = c => i \in DOMAIN old \/ i = n
    <3> HIDE DEF old
    <3> QED
      BY <1>2, <1>4
  <2> QED
    BY <2>2, <2>3, <2>4, <2>5
<1>8. ASSUME NEW x, x \in Successes PROVE x \in Successes'
  <2>0. PICK d \in Conns : \E i \in DOMAIN written[d] :
            x = <<d, i>> /\ written[d][i] = Success
    BY <1>8, SuccessIn
  <2>1. PICK i \in DOMAIN written[d] : x = <<d, i>> /\ written[d][i] = Success
    BY <2>0
  <2>2. CASE d # c
    BY <1>4, <1>5, <2>1, <2>2
  <2>3. CASE d = c
    <3>1. i \in DOMAIN longer /\ longer[i] = Success
      BY <1>2, <2>1, <2>3
    <3> QED
      BY <1>4, <1>5, <2>1, <2>3, <3>1
  <2> QED
    BY <2>2, <2>3
<1>9. reply = Success => <<c, n>> \in Successes'
  <2>1. n \in DOMAIN longer /\ longer[n] = reply
    <3> HIDE DEF old
    <3> QED
      BY <1>2
  <2> HIDE DEF n
  <2> QED
    BY <1>4, <1>5, <2>1
<1>10. Successes' = IF reply = Success THEN Successes \cup {<<c, n>>} ELSE Successes
  <2> HIDE DEF n
  <2> QED
    BY <1>7, <1>8, <1>9
<1> QED
  BY <1>4, <1>6, <1>10 DEF reply

LEMMA FirstRouteOK ==
    ASSUME LoopInv, NEW c \in Conns, NEW n \in 1..Len(inbox[c])
    PROVE  Chunk(c, n)[1].route \in Routes
<1>1. Chunk(c, n)[1] \in Parcels
  <2>1. Chunk(c, n) \in Seq(Parcels) /\ Len(Chunk(c, n)) = n /\ n >= 1
    BY DEF Chunk, LoopInv
  <2> QED
    BY <2>1
<1>2. \A s \in Parcels : s.route \in Routes
  BY ServerAssumption DEF Parcels, Routes
<1> QED
  BY <1>1, <1>2

(* What a step has to show that answers no query.                            *)
LEMMA TimedKept ==
    ASSUME TimedInv, LoopInv', WaitingInv',
           written' \in [Conns -> Seq(Responses)], Successes' = Successes,
           UNCHANGED <<task, metrics, answer>>,
           \A r \in Requests : status'[r] # "none" <=> status[r] # "none"
    PROVE  TimedInv'
<1>1. QueriesAnswered' = QueriesAnswered
  BY DEF QueriesAnswered
<1>2. MetricsAgree'
  BY <1>1 DEF TimedInv, MetricsAgree
<1> QED
  BY <1>1, <1>2 DEF TimedInv, Blocked, Underway

LEMMA TimedInvNext == TimedInv /\ [Next]_rvars => TimedInv'
<1> SUFFICES ASSUME TimedInv, [Next]_rvars PROVE TimedInv'
  OBVIOUS
<1>1. LoopInv' /\ WaitingInv'
  BY LoopInvNext, WaitingInvNext DEF TimedInv
<1>2. ASSUME UNCHANGED <<task, metrics, answer, written, status>> PROVE TimedInv'
  <2>1. Successes' = Successes
    BY <1>2 DEF Successes
  <2> QED
    BY <1>1, <1>2, <2>1, TimedKept DEF TimedInv
<1>3. ASSUME UNCHANGED <<task, metrics, answer, status>>, NEW c \in Conns,
             NEW route \in Routes, NEW code \in Nat, Reply(c, route, code),
             [route |-> route, status |-> code] # Success
      PROVE  TimedInv'
  <2>1. written' \in [Conns -> Seq(Responses)] /\ Successes' = Successes
    BY <1>3, Replied DEF TimedInv
  <2> QED
    BY <1>1, <1>3, <2>1, TimedKept
<1>4. ASSUME NEW c \in Conns, OnRead(c) PROVE TimedInv'
  <2>1. PICK n \in 1..Len(inbox[c]) :
            \/ Simple(c, n) \/ IndexRejected(c, n) \/ IndexLoads(c, n)
            \/ QueryUnparsed(c, n) \/ QueryRejected(c, n) \/ QueryAccepted(c, n)
    BY <1>4 DEF OnRead
  <2>2. CASE Simple(c, n)
    <3> DEFINE route == Chunk(c, n)[1].route
               code == IF route \in {"health", "metrics"} THEN 200 ELSE 404
    <3>1. route \in Routes /\ route # "query" /\ code \in Nat
      BY <2>2, FirstRouteOK DEF Simple, TimedInv
    <3>2. Reply(c, route, code) /\ UNCHANGED <<task, metrics, answer, status>>
      BY <2>2 DEF Simple, Read, batcher
    <3> HIDE DEF route, code
    <3>3. [route |-> route, status |-> code] # Success
      BY <3>1 DEF Success
    <3> QED
      BY <1>3, <3>1, <3>2, <3>3
  <2>3. CASE IndexRejected(c, n) \/ IndexLoads(c, n)
    <3>1. PICK code \in {200, 400, 500} : Reply(c, "index", code)
      BY <2>3 DEF IndexRejected, IndexLoads
    <3>2. UNCHANGED <<task, metrics, answer, status>>
      BY <2>3 DEF IndexRejected, IndexLoads, Read, batcher
    <3>3. "index" \in Routes /\ [route |-> "index", status |-> code] # Success /\ code \in Nat
      BY DEF Routes, Success
    <3> QED
      BY <1>3, <3>1, <3>2, <3>3
  <2>4. CASE QueryUnparsed(c, n)
    BY <1>2, <2>4 DEF QueryUnparsed, Read, Batcher!Crash
  <2>5. CASE QueryRejected(c, n)
    <3>1. PICK code \in {400, 503} : Reply(c, "query", code)
      BY <2>5 DEF QueryRejected
    <3>2. UNCHANGED <<task, metrics, answer, status>>
      BY <2>5 DEF QueryRejected, Read, batcher
    <3>3. "query" \in Routes /\ [route |-> "query", status |-> code] # Success /\ code \in Nat
      BY DEF Routes, Success
    <3> QED
      BY <1>3, <3>1, <3>2, <3>3
  <2>6. CASE QueryAccepted(c, n)
    <3>1. PICK r \in Requests \ Submitted :
              /\ \A q \in Requests \ Submitted : r <= q
              /\ Batcher!Accept(r)
              /\ task' = [conn |-> c, request |-> r, top_k |-> TopK(Chunk(c, n))]
      BY <2>6 DEF QueryAccepted
    <3>2. UNCHANGED <<written, metrics, answer>> /\ ~Blocked
      BY <2>6 DEF QueryAccepted, Read
    <3>3. Successes' = Successes /\ QueriesAnswered' = QueriesAnswered
      BY <3>2 DEF QueriesAnswered, Successes
    <3>4. QueriesAnswered \in Nat
      BY FS_CardinalityType DEF TimedInv, QueriesAnswered
    <3>5. \A q \in Requests : status[q] # "none" <=> q <= QueriesAnswered
      BY <3>2, <3>4 DEF TimedInv, Underway
    <3>6. r = QueriesAnswered + 1
      <4>1. r \in 1..MaxSent /\ MaxSent \in Nat /\ ~(r <= QueriesAnswered)
        BY <3>1, <3>5, ServerAssumption DEF Submitted
      <4>2. QueriesAnswered + 1 \in Requests \ Submitted
        BY <3>4, <3>5, <4>1, ServerAssumption DEF Submitted
      <4> QED
        BY <3>1, <3>4, <4>1, <4>2
    <3>7. /\ status' = [status EXCEPT ![r] = "accepted"]
          /\ status \in [Requests -> Batcher!Statuses]
      BY <3>1 DEF Batcher!Accept, Batcher!Resolve, TimedInv, WaitingInv, Batcher!STypeOK
    <3>8. \A q \in Requests : status'[q] # "none" <=> q <= QueriesAnswered + 1
      <4> TAKE q \in Requests
      <4>1. q \in Int
        BY ServerAssumption
      <4>2. CASE q = r
        BY <3>4, <3>6, <3>7, <4>2
      <4>3. CASE q # r
        <5>1. status'[q] = status[q]
          BY <3>7, <4>3
        <5> QED
          BY <3>4, <3>5, <3>6, <4>1, <4>3, <5>1
      <4> QED
        BY <4>2, <4>3
    <3>9. Blocked' /\ task'.conn = c /\ task'.request = r
      <4>1. "request" \in DOMAIN task' /\ "request" \notin DOMAIN Idle
        BY <3>1 DEF Idle
      <4> QED
        BY <3>1, <4>1 DEF Blocked
    <3>10. MetricsAgree'
      BY <3>2, <3>3 DEF TimedInv, MetricsAgree
    <3> QED
      BY <1>1, <3>2, <3>3, <3>6, <3>8, <3>9, <3>10 DEF TimedInv, Underway
  <2> QED
    BY <2>1, <2>2, <2>3, <2>4, <2>5, <2>6
<1>5. CASE Settle
  <2>1. PICK r \in Requests, s \in {"value", "error"} :
            status[r] = "accepted" /\ status' = [status EXCEPT ![r] = s]
    BY <1>5 DEF Settle, Batcher!Settle, Batcher!Resolve
  <2>2. \A q \in Requests : status'[q] # "none" <=> status[q] # "none"
    BY <2>1 DEF TimedInv, WaitingInv, Batcher!STypeOK
  <2>3. UNCHANGED <<task, metrics, answer, written>>
    BY <1>5 DEF Settle
  <2>4. Successes' = Successes
    BY <2>3 DEF Successes
  <2> QED
    BY <1>1, <2>2, <2>3, <2>4, TimedKept DEF TimedInv
<1>6. CASE QueryAnswered
  <2> DEFINE q == QueriesAnswered
  <2>1. /\ Blocked /\ metrics' = Observed(Len(answer')) /\ task' = Idle
        /\ Reply(task.conn, "query", 200) /\ status' = status
    BY <1>6 DEF QueryAnswered, batcher
  <2>2. q \in Nat
    BY FS_CardinalityType DEF TimedInv, QueriesAnswered
  <2>3. task.conn \in Conns /\ task.request = q + 1
    BY <2>1 DEF TimedInv
  <2>4. PICK x : x \notin Successes /\ Successes' = Successes \cup {x}
    <3>1. "query" \in Routes /\ 200 \in Nat /\ [route |-> "query", status |-> 200] = Success
      BY DEF Routes, Success
    <3> QED
      BY <2>1, <2>3, <3>1, Replied DEF TimedInv
  <2>5. written' \in [Conns -> Seq(Responses)]
    <3>1. "query" \in Routes /\ 200 \in Nat
      BY DEF Routes
    <3> QED
      BY <2>1, <2>3, <3>1, Replied DEF TimedInv
  <2>6. IsFiniteSet(Successes') /\ QueriesAnswered' = q + 1
    BY <2>4, FS_AddElement DEF TimedInv, QueriesAnswered
  <2>7. MetricsAgree'
    <3>1. metrics.queries_total = q /\ metrics.durations = Latest(q)
      BY DEF TimedInv, MetricsAgree, Latest
    <3>2. /\ metrics'.queries_total = q + 1
          /\ metrics'.durations = Observe(Latest(q), q + 1)
          /\ metrics'.last_result_count = Len(answer')
      BY <2>1, <2>3, <3>1 DEF Observed, Increment
    <3>3. metrics'.durations = Latest(q + 1)
      <4> HIDE DEF q
      <4> QED
        BY <2>2, <3>2, ObserveLatest
    <3> QED
      BY <2>6, <3>2, <3>3 DEF MetricsAgree, Latest
  <2>8. ~Blocked' /\ Underway = 1 /\ Underway' = 0
    BY <2>1 DEF Blocked, Underway
  <2>9. \A r \in Requests : status'[r] # "none" <=> r <= QueriesAnswered' + Underway'
    BY <2>1, <2>2, <2>6, <2>8 DEF TimedInv
  <2> QED
    BY <1>1, <2>5, <2>6, <2>7, <2>8, <2>9 DEF TimedInv
<1>7. CASE \/ Boot \/ SubmitFaults \/ QueryThrows \/ UNCHANGED rvars
           \/ \E c \in Conns : Connect(c) \/ HangUp(c) \/ OnConnection(c)
                            \/ ConnectionRefused(c) \/ OnEnd(c)
           \/ \E c \in Conns, m \in Messages : Send(c, m)
  BY <1>2, <1>7 DEF Boot, SubmitFaults, QueryThrows, rvars, Connect, HangUp,
     OnConnection, ConnectionRefused, OnEnd, Send, batcher, Batcher!Crash
<1> QED
  BY <1>4, <1>5, <1>6, <1>7 DEF Next

(* The counter, the histogram and the gauge always say what the responses    *)
(* say: no query with status 200 goes uncounted, and nothing else counts.    *)
THEOREM MetricsMatchReplies == Spec => []MetricsAgree
<1>1. Init => TimedInv
  <2> SUFFICES ASSUME Init PROVE TimedInv
    OBVIOUS
  <2>1. LoopInv /\ WaitingInv
    BY LoopInvInit DEF Init, WaitingInv, Batcher!SInit, Batcher!STypeOK, Batcher!Statuses
  <2>2. written \in [Conns -> Seq(Responses)] /\ task = Idle
    BY DEF Init
  <2>3. Successes = {}
    BY SuccessIn DEF Init
  <2>4. QueriesAnswered = 0 /\ IsFiniteSet(Successes)
    BY <2>3, FS_EmptySet DEF QueriesAnswered
  <2>5. MetricsAgree
    <3>1. Latest(0) = <<>>
      BY HistogramAssumption DEF Latest
    <3> QED
      BY <2>4, <3>1 DEF Init, MetricsAgree, Latest, Reset
  <2>6. \A r \in Requests : status[r] # "none" <=> r <= QueriesAnswered + Underway
    BY <2>2, <2>4, ServerAssumption DEF Init, Batcher!SInit, Underway, Blocked
  <2> QED
    BY <2>1, <2>2, <2>4, <2>5, <2>6 DEF TimedInv, Blocked
<1>2. TimedInv => MetricsAgree
  BY DEF TimedInv
<1> QED
  BY <1>1, <1>2, TimedInvNext, PTL DEF Spec

================================================================================
