------------------------------ MODULE FaissIndex ------------------------------
(****************************************************************************)
(* The vector store (src/search/faiss_index.cpp): load() reads a corpus     *)
(* file into a flat index and its metadata and rebuilds the HNSW index from *)
(* it; save() writes the index back; search() maps the positions the index  *)
(* returns to metadata.  A vector is named by the file and the position it  *)
(* comes from, and so is a chunk of metadata.                               *)
(****************************************************************************)
EXTENDS Integers, Sequences

CONSTANTS
    Paths,          \* names of corpus files
    Corpus,         \* Paths -> content of the file at the start
    Widths,         \* values callers give for ef_search
    ConfigWidth,    \* config_.ef_search
    Blank,          \* a vector of zeros: what was to be read was not there
    MaxFloats,      \* the largest vector of floats that can be allocated
    MaxMetadata     \* bound on the size of metadata_, which only grows

VARIABLES
    files,          \* Paths -> content of the file now
    store           \* the members of FAISSIndex

storeVars == <<files, store>>

(* A file is absent, shorter than a header, or a header and vectors; count   *)
(* and dimension in the header are any two numbers, whatever follows.        *)
Absent == [kind |-> "absent"]
Short  == [kind |-> "short"]
File(count, dim, data) ==
    [kind |-> "corpus", count |-> count, dim |-> dim, data |-> data]

Chunks(p, n) == [i \in 1..n |-> <<p, i>>]

Vectors == (Paths \X Nat) \cup {Blank}
Files   == [kind : {"corpus"}, count : Int, dim : Int, data : Seq(Vectors)]
           \cup {Absent, Short}

(* The size of the allocation for such vectors: as a size_t, a negative      *)
(* product is larger than any that can be had.                               *)
Fits(count, dim) == count * dim \in 0..MaxFloats

(* A file's vectors are named by the file and their positions. *)
OwnVectors(p, file) ==
    file.kind = "corpus" => \A i \in DOMAIN file.data : file.data[i] = <<p, i>>

(* The vectors of one file, in its order; some may be zeros. *)
OneFile(vectors) ==
    \E p \in Paths : \A i \in DOMAIN vectors : vectors[i] \in {<<p, i>>, Blank}

ASSUME CorpusAssumption ==
    /\ Corpus \in [Paths -> Files]
    /\ \A p \in Paths : OwnVectors(p, Corpus[p])
    /\ Paths # {} /\ MaxMetadata \in Nat /\ MaxFloats \in Nat

NoIndex      == [kind |-> "null", vectors |-> <<>>, efSearch |-> ConfigWidth]
Flat(vs)     == [kind |-> "flat", vectors |-> vs, efSearch |-> ConfigWidth]
HNSW(vs)     == [kind |-> "hnsw", vectors |-> vs, efSearch |-> ConfigWidth]

StoreInit ==
    /\ files = Corpus
    /\ store = [index |-> NoIndex, metadata |-> <<>>, num_vectors |-> 0,
                dimension |-> 384]

IsLoaded == store.index.kind # "null" /\ store.metadata # <<>>

-------------------------------------------------------------------------------
(* load_corpus() *)

(* Mutant of ReadVectors: only what the file has. *)
ReadAvailable(file) == file.data

(* Reading past the end of the file leaves the zeros of the buffer. *)
ReadVectors(file) ==
    [i \in 1..file.count |-> IF i <= Len(file.data) THEN file.data[i] ELSE Blank]

(* Mutants of NewMetadata: one chunk is left out; the new ones go first. *)
MetadataCut(old, new) == old \o SubSeq(new, 2, Len(new))
MetadataFirst(old, new) == new \o old

(* metadata_ is never cleared. *)
NewMetadata(old, new) == old \o new

(* No file or no header: a line in the log, and nothing has changed.         *)
Unreadable(p) == files[p].kind \in {"absent", "short"}

(* The allocation for the vectors throws, after num_vectors_ and dimension_  *)
(* have been set: a negative number, or more than there is memory for.       *)
BadHeader(p) == ~Unreadable(p) /\ ~Fits(files[p].count, files[p].dim)

HeaderTaken(s, p) ==
    [s EXCEPT !.num_vectors = files[p].count, !.dimension = files[p].dim]

FileTaken(s, p, vectors) ==
    [index       |-> Flat(vectors),
     metadata    |-> NewMetadata(s.metadata, Chunks(p, files[p].count)),
     num_vectors |-> files[p].count,
     dimension   |-> files[p].dim]

(* Mutants of LoadCorpus: the metadata goes before the file is opened; the   *)
(* vectors are added to those of the index.                                  *)
LoadCorpusClears(s, p) ==
    IF Unreadable(p) THEN [s EXCEPT !.metadata = <<>>]
    ELSE IF BadHeader(p) THEN HeaderTaken(s, p)
    ELSE FileTaken(s, p, ReadVectors(files[p]))
LoadCorpusAdds(s, p) ==
    IF Unreadable(p) THEN s
    ELSE IF BadHeader(p) THEN HeaderTaken(s, p)
    ELSE FileTaken(s, p, s.index.vectors \o ReadVectors(files[p]))

(* The index, flat or built, and the metadata of earlier loads stay behind a *)
(* bad header.                                                               *)
LoadCorpus(s, p) ==
    IF Unreadable(p) THEN s
    ELSE IF BadHeader(p) THEN HeaderTaken(s, p)
    ELSE FileTaken(s, p, ReadVectors(files[p]))

(* The vectors are carried over from a flat index only, and the index of an  *)
(* earlier load is an HNSW index.                                            *)
BuildIndex(s) ==
    IF s.metadata = <<>> THEN s
    ELSE [s EXCEPT !.index = HNSW(IF @.kind = "flat" THEN @.vectors ELSE <<>>)]

(* Of a flat index, build_index() copies num_vectors_ by dimension_ floats.  *)
(* After a bad header that is again too much: the library throws, or reads   *)
(* beyond the vectors and the process goes.  A negative number of vectors it *)
(* refuses.                                                                  *)
Buildable(s) ==
    s.metadata # <<>> /\ s.index.kind = "flat" =>
        s.num_vectors >= 0 /\ Fits(s.num_vectors, s.dimension)

WithinBound(p) == Len(LoadCorpus(store, p).metadata) <= MaxMetadata

Loads(p) ==
    /\ ~BadHeader(p) /\ Buildable(LoadCorpus(store, p))
    /\ WithinBound(p)
    /\ store' = BuildIndex(LoadCorpus(store, p))
    /\ UNCHANGED files

(* load() throws what load_corpus() threw, or the index library, which may   *)
(* refuse the vectors of a file and any index that is to be built; all that  *)
(* load_corpus() has done remains.                                           *)
LoadThrows(p) ==
    /\ ~Unreadable(p) \/ store.metadata # <<>>
    /\ WithinBound(p)
    /\ store' = LoadCorpus(store, p)
    /\ UNCHANGED files

-------------------------------------------------------------------------------
(* save(): num_vectors_ and dimension_, and that much of a flat index; a file *)
(* that cannot be opened is not noticed.  With the numbers of a bad header it *)
(* reads beyond the vectors: the process goes, or what comes after such a    *)
(* header is nothing that any load will read.                                *)
Saved ==
    IF store.index.kind = "flat" /\ Fits(store.num_vectors, store.dimension)
    THEN store.index.vectors ELSE <<>>

Save(p) ==
    /\ store.index.kind # "null"
    /\ files' \in {files, [files EXCEPT ![p] =
                              File(store.num_vectors, store.dimension, Saved)]}
    /\ UNCHANGED store

-------------------------------------------------------------------------------
(* search(): a width other than the configured one is stored in the index    *)
(* and stays there.                                                          *)
SetWidth(ef) ==
    IF store.index.kind = "hnsw" /\ ef # ConfigWidth
    THEN store' = [store EXCEPT !.index.efSearch = ef]
    ELSE UNCHANGED store

(* The approximate search picks the positions; those beyond the metadata are *)
(* skipped.                                                                  *)
Describable == {i \in DOMAIN store.index.vectors : i <= Len(store.metadata)}

Search(ef) ==
    /\ store.index.kind # "null"
    /\ SetWidth(ef)
    /\ UNCHANGED files

StoreNext ==
    \/ \E p \in Paths : Loads(p) \/ LoadThrows(p) \/ Save(p)
    \/ \E ef \in Widths : Search(ef)

StoreSpec == StoreInit /\ [][StoreNext]_storeVars

-------------------------------------------------------------------------------
(* Files and members have the shapes the code gives them.  num_vectors_ is   *)
(* the number of vectors of a flat index, that save() and build_index() read *)
(* as many of, but for one case: after a bad header, of whatever kind, both  *)
(* numbers are that header's, and no allocation can hold as many floats.     *)
StoreTypeOK ==
    /\ files \in [Paths -> Files]
    /\ store \in [index : [kind : {"null", "flat", "hnsw"}, vectors : Seq(Vectors),
                           efSearch : Widths \cup {ConfigWidth}],
                  metadata : Seq(Paths \X Nat), num_vectors : Int, dimension : Int]
    /\ store.index.kind = "flat" /\ Fits(store.num_vectors, store.dimension) =>
          DOMAIN store.index.vectors = 1..store.num_vectors
    /\ store.index.kind = "null" => store.index.vectors = <<>>

(* No vector of the index is without metadata, through any sequence of loads *)
(* of good, missing and broken files and saves over them: the bounds check   *)
(* in search() that drops such a result never drops one.                     *)
MetadataCovers == Describable = DOMAIN store.index.vectors

(* Whatever was loaded before, and whichever loads failed since, the vectors *)
(* of the index come from one file only and are in its order, with zeros in  *)
(* the place of what the file lacked.                                        *)
OneFileIndexed == OneFile(store.index.vectors)

(* The last chunks of the metadata are as many as the index has vectors and  *)
(* are the chunks of one file in its order, also after a load that failed    *)
(* half way: nothing is ever appended to one and not to the other.           *)
LatestDescribed ==
    LET before == Len(store.metadata) - Len(store.index.vectors)
    IN  \E p \in Paths : \A i \in DOMAIN store.index.vectors :
           store.metadata[before + i] = <<p, i>>

(* After an index has been built, no load, failed or not, makes the store    *)
(* unloaded again.                                                           *)
StaysLoaded == [][IsLoaded => IsLoaded']_storeVars

(* load() makes its file the search index: a search finds every vector with  *)
(* the chunk it was made from.                                               *)
FoundDescribed ==
    \A i \in Describable : store.index.vectors[i] \in {store.metadata[i], Blank}

===============================================================================
