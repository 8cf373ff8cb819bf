------------------------------ MODULE RagPipeline ------------------------------
(****************************************************************************)
(* The pipeline as a library (src/pipeline/rag_pipeline.cpp): query_async() *)
(* runs each query on a thread of its own, and other threads may call       *)
(* load_corpus() meanwhile.  Nothing but the flag ready_ is synchronised:   *)
(* the searches use the index and the metadata that a load replaces.  The   *)
(* batcher is EncodingService.  In RagServer.tla all of this happens on one *)
(* thread.                                                                  *)
(****************************************************************************)
EXTENDS Naturals, FiniteSets

CONSTANTS
    Requests,       \* the calls of query_async(), each with its submit()
    Loaders,        \* the calls of load_corpus(), each on a thread of its own
    NoIndex         \* index_ is null

ASSUME PipelineAssumption ==
    NoIndex \notin [by : Loaders, kind : {"flat", "hnsw"}, whole : BOOLEAN]

VARIABLES
    ready,          \* ready_
    index,          \* what index_ points to: who made it, its kind, if it is whole
    metadata,       \* the loads whose chunks are in metadata_
    load,           \* per call of load_corpus(): its kind of file and its place
    query,          \* per call of query_async(): where it is
    fut,            \* per query: the request whose future it waits for, {} if none
    using,          \* per query: the index it searches
    answer,         \* per query: what its future yields
    faulted,        \* the index or the metadata was used while it was being changed
    status, closed, crashed     \* the batcher, see EncodingService

batcher == <<status, closed, crashed>>
search  == <<query, fut, using, answer>>
pvars   == <<ready, index, metadata, load, search, faulted, batcher>>

Batcher == INSTANCE EncodingService

(* A file that has vectors, one that cannot be read, and one with a count    *)
(* that is no size.                                                          *)
Kinds == {"good", "missing", "broken"}

Init ==
    /\ Batcher!SInit
    /\ ready = FALSE
    /\ index = NoIndex
    /\ metadata = {}
    /\ load = [l \in Loaders |-> [kind |-> "good", at |-> "idle"]]
    /\ query = [q \in Requests |-> "idle"]
    /\ fut = [q \in Requests |-> {}]
    /\ using = [q \in Requests |-> NoIndex]
    /\ answer = [q \in Requests |-> "none"]
    /\ faulted = FALSE

Alive == ~crashed /\ ~faulted

-------------------------------------------------------------------------------
(* load_corpus() of the pipeline, with load() of the index *)

At(l, from, to) ==
    /\ Alive
    /\ load[l].at = from
    /\ load' = [load EXCEPT ![l].at = to]
    /\ UNCHANGED <<search, faulted, batcher>>

LoadBegin(l, kind) ==
    /\ Alive
    /\ load[l].at = "idle"
    /\ load' = [load EXCEPT ![l] = [kind |-> kind, at |->
          CASE kind = "good"    -> "metadata"
            [] kind = "missing" -> "build"
            [] kind = "broken"  -> "throw"]]
    /\ UNCHANGED <<ready, index, metadata, search, faulted, batcher>>

LoadMetadata(l) ==
    /\ At(l, "metadata", "flat")
    /\ metadata' = metadata \cup {l}
    /\ UNCHANGED <<ready, index>>

(* Mutant of Replaced: the old index is freed before there is a new one. *)
ReplacedByNull(l) == NoIndex

Replaced(l) == [by |-> l, kind |-> "flat", whole |-> FALSE]

(* index_.reset(): the index of before is gone. *)
LoadFlat(l) ==
    /\ At(l, "flat", "add")
    /\ index' = Replaced(l)
    /\ UNCHANGED <<ready, metadata>>

LoadAdd(l) ==
    /\ At(l, "add", "build")
    /\ index' = [by |-> l, kind |-> "flat", whole |-> TRUE]
    /\ UNCHANGED <<ready, metadata>>

(* build_index(): vectors are carried over from a flat index only. *)
LoadBuild(l) ==
    /\ At(l, "build", "return")
    /\ index' = IF metadata = {} THEN index
                ELSE [by |-> l, kind |-> "hnsw",
                      whole |-> index # NoIndex /\ index.kind = "flat" /\ index.whole]
    /\ UNCHANGED <<ready, metadata>>

(* The index library refuses the index that is to be built. *)
LoadRefused(l) ==
    /\ At(l, "build", "throw")
    /\ metadata # {}
    /\ UNCHANGED <<ready, index, metadata>>

LoadReturns(l) ==
    /\ At(l, "return", "over")
    /\ ready' = TRUE
    /\ UNCHANGED <<index, metadata>>

LoadThrows(l) ==
    /\ At(l, "throw", "over")
    /\ ready' = FALSE
    /\ UNCHANGED <<index, metadata>>

Loading(l) == load[l].at \in {"metadata", "flat", "add", "build"}

(* Two loads at a time free and fill each other's index. *)
LoadFaults(l) ==
    /\ Alive
    /\ Loading(l) /\ \E k \in Loaders \ {l} : Loading(k)
    /\ faulted' = TRUE
    /\ UNCHANGED <<ready, index, metadata, load, search, batcher>>

-------------------------------------------------------------------------------
(* query_async(), with execute_query() on its thread *)

Go(q, from, to) ==
    /\ Alive
    /\ query[q] = from
    /\ query' = [query EXCEPT ![q] = to]
    /\ UNCHANGED <<ready, index, metadata, load, faulted>>

(* Mutant of Ends: the thread leaves its future without a result. *)
EndsSilently(q, from, outcome) ==
    /\ Go(q, from, "over")
    /\ UNCHANGED <<fut, using, answer>>

(* The thread ends: its future has a result, or the exception. *)
Ends(q, from, outcome) ==
    /\ Go(q, from, "over")
    /\ answer' = [answer EXCEPT ![q] = outcome]
    /\ UNCHANGED <<fut, using>>

QueryAsync(q) ==
    /\ Go(q, "idle", "is_ready")
    /\ UNCHANGED <<fut, using, answer, batcher>>

(* Mutant of Ready: the flag is not looked at. *)
ReadyAnyway == TRUE

Ready    == ready
IsLoaded == index # NoIndex /\ metadata # {}

(* is_ready() reads the flag first, and the index only if it is set. *)
QueryReady(q) ==
    /\ Go(q, "is_ready", "is_loaded")
    /\ Ready
    /\ UNCHANGED <<fut, using, answer, batcher>>

QuerySubmits(q) ==
    /\ Go(q, "is_loaded", "submit")
    /\ IsLoaded
    /\ Batcher!Accept(q)
    /\ UNCHANGED <<fut, using, answer>>

QueryRejected(q) ==
    /\ \/ Ends(q, "is_ready", "empty") /\ ~Ready
       \/ Ends(q, "is_loaded", "empty") /\ ~IsLoaded
    /\ UNCHANGED batcher

(* submit() returns the future of the last request in the queue, which may   *)
(* be that of another query, or throws because somebody has it or the        *)
(* dispatcher is taking it; the read may also fault (QueryBatcher.tla).      *)
QueryFuture(q) ==
    /\ Go(q, "submit", "get")
    /\ \E r \in Requests :
          /\ status[r] = "accepted" /\ \A p \in Requests : r \notin fut[p]
          /\ fut' = [fut EXCEPT ![q] = {r}]
    /\ UNCHANGED <<using, answer, batcher>>

QuerySubmitThrows(q) ==
    /\ Ends(q, "submit", "error")
    /\ UNCHANGED batcher

QuerySubmitFaults(q) ==
    /\ query[q] = "submit" /\ ~faulted
    /\ Batcher!Crash
    /\ UNCHANGED <<ready, index, metadata, load, search, faulted>>

Settle ==
    /\ ~faulted
    /\ \E r \in Requests : Batcher!Settle(r)
    /\ UNCHANGED <<ready, index, metadata, load, search, faulted>>

(* search() has a plain pointer to the index it begins with. *)
QueryEmbedded(q) ==
    /\ Go(q, "get", "search")
    /\ \E r \in fut[q] : status[r] = "value"
    /\ using' = [using EXCEPT ![q] = index]
    /\ UNCHANGED <<fut, answer, batcher>>

(* Mutant of Failed: the exception of the service is lost. *)
FailedNever(q) == FALSE

Failed(q) == \E r \in fut[q] : status[r] = "error"

QueryFails(q) ==
    /\ Ends(q, "get", "error")
    /\ Failed(q)
    /\ UNCHANGED batcher

QueryAnswered(q) ==
    /\ Ends(q, "search", IF using[q].whole THEN "whole" ELSE "partial")
    /\ UNCHANGED batcher

(* search() throws: the number of results that was asked for is none.        *)
QuerySearchThrows(q) ==
    /\ Ends(q, "search", "error")
    /\ UNCHANGED batcher

(* The index may be freed, or the metadata move, under is_loaded() or        *)
(* search(): a use of freed memory.                                          *)
QueryFaults(q) ==
    /\ Alive
    /\ \/ query[q] = "is_loaded" /\ \E l \in Loaders : Loading(l)
       \/ query[q] = "search" /\ (using[q] # index \/ \E l \in Loaders : Loading(l))
    /\ faulted' = TRUE
    /\ UNCHANGED <<ready, index, metadata, load, search, batcher>>

-------------------------------------------------------------------------------
Load(l) ==
    \/ LoadMetadata(l) \/ LoadFlat(l) \/ LoadAdd(l) \/ LoadBuild(l)
    \/ LoadRefused(l) \/ LoadReturns(l) \/ LoadThrows(l)

Query(q) ==
    \/ QueryReady(q) \/ QuerySubmits(q) \/ QueryRejected(q)
    \/ QueryFuture(q) \/ QuerySubmitThrows(q) \/ QuerySubmitFaults(q)
    \/ QueryEmbedded(q) \/ QueryFails(q) \/ QueryAnswered(q)
    \/ QuerySearchThrows(q)

Next ==
    \/ \E l \in Loaders, kind \in Kinds : LoadBegin(l, kind)
    \/ \E l \in Loaders : Load(l) \/ LoadFaults(l)
    \/ \E q \in Requests : QueryAsync(q) \/ Query(q) \/ QueryFaults(q)
    \/ Settle

Spec == Init /\ [][Next]_pvars

(* Threads that run go on, and the batcher settles what it has accepted. *)
Fairness ==
    /\ \A l \in Loaders : WF_pvars(Load(l))
    /\ \A q \in Requests :
          WF_pvars(Query(q)) /\ WF_pvars(Settle /\ status'[q] # status[q])

FairSpec == Spec /\ Fairness

-------------------------------------------------------------------------------
(* The members, the places of the threads and the outcomes of the futures    *)
(* keep to their types, and a query is over exactly when it has an outcome.  *)
Indexes == [by : Loaders, kind : {"flat", "hnsw"}, whole : BOOLEAN] \cup {NoIndex}

TypeOK ==
    /\ Batcher!STypeOK
    /\ ready \in BOOLEAN /\ faulted \in BOOLEAN
    /\ index \in Indexes /\ metadata \subseteq Loaders
    /\ load \in [Loaders -> [kind : Kinds, at : {"idle", "metadata", "flat", "add",
                                                 "build", "return", "throw", "over"}]]
    /\ query \in [Requests -> {"idle", "is_ready", "is_loaded", "submit", "get",
                               "search", "over"}]
    /\ using \in [Requests -> Indexes]
    /\ answer \in [Requests -> {"none", "empty", "error", "partial", "whole"}]
    /\ \A q \in Requests : query[q] = "over" <=> answer[q] # "none"

(* Queries may run from the start on: until a second load begins, none       *)
(* touches the index while it is built, and none gets an answer from part of *)
(* it, because is_ready() asks the flag first and load_corpus() sets it last. *)
Begun == {l \in Loaders : load[l].at # "idle"}

FirstLoadSafe ==
    Cardinality(Begun) <= 1 =>
        ~faulted /\ \A q \in Requests : answer[q] # "partial"

(* A query that was admitted has an index to search when its embedding is    *)
(* there, however long that took and whatever was loaded meanwhile.          *)
AdmittedLoaded ==
    \A q \in Requests : query[q] \in {"submit", "get", "search"} => IsLoaded

(* The future of query_async() gets a result or an exception, unless the     *)
(* process ends.                                                             *)
EveryQueryEnds ==
    \A q \in Requests : query[q] = "is_ready" ~> query[q] = "over" \/ ~Alive

================================================================================
