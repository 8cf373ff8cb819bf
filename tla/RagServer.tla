------------------------------- MODULE RagServer -------------------------------
(****************************************************************************)
(* The program around the batcher and the index: main() boots, the HTTP     *)
(* server (src/api/http_server.cpp) runs every callback on one libuv loop   *)
(* thread, and a query runs through the pipeline (rag_pipeline.cpp) on that *)
(* thread, which blocks until the batcher has an answer.  The batcher is    *)
(* the service EncodingService, which QueryBatcher implements; the index is *)
(* FaissIndex.  A chunk is what one call of on_read gets of the byte stream.*)
(****************************************************************************)
EXTENDS FaissIndex, Metrics

CONSTANTS
    Conns,          \* connections clients may open
    Requests,       \* the calls of submit() the handlers may make: 1..n
    Messages,       \* requests clients send: a route and the fields of the body
    MaxSent,        \* bound on the messages sent on all connections together
    DefaultWidth,   \* ef_search where search() is called without it
    DefaultTopK,    \* top_k of a query that does not say
    Missing,        \* a field that is not in the body
    NotANumber      \* a top_k that is no number

ASSUME ServerAssumption ==
    /\ MaxSent \in Nat
    /\ DefaultTopK \in Nat
    /\ Requests = 1..MaxSent
    /\ DefaultWidth \in Widths
    /\ \A m \in Messages :
          /\ m.route \in {"query", "index", "health", "metrics", "other"}
          /\ "corpus_path" \in DOMAIN m.fields => m.fields["corpus_path"] \in Paths

VARIABLES
    booted,         \* main() has got to server.start()
    conn,           \* per connection: none, backlog, open, ended, closed or refused
    inbox,          \* per connection: segments not yet read
    sent,           \* per connection: messages sent
    written,        \* per connection: the responses written, [route, status]
    task,           \* the query the loop thread is blocked on, or Idle
    ready,          \* ready_
    metrics,        \* the collector; a duration is named by the query timed
    answer,         \* ids of the results of the last query answered
    status, closed, crashed     \* the batcher, see EncodingService

network == <<conn, inbox, sent>>
batcher == <<status, closed, crashed>>
rvars == <<storeVars, booted, network, written, task, ready, metrics, answer,
           batcher>>

Batcher == INSTANCE EncodingService

Idle == [conn |-> "none"]

(* Mutant of Blocked: the loop runs on until the answer is there. *)
BlockedByAnswer == task # Idle /\ status[task.request] # "accepted"

Blocked == task # Idle

Init ==
    /\ StoreInit
    /\ Batcher!SInit
    /\ booted = FALSE
    /\ conn = [c \in Conns |-> "none"]
    /\ inbox = [c \in Conns |-> <<>>]
    /\ sent = [c \in Conns |-> 0]
    /\ written = [c \in Conns |-> <<>>]
    /\ task = Idle
    /\ ready = FALSE
    /\ metrics = Reset
    /\ answer = <<>>

-------------------------------------------------------------------------------
(* The clients.  A POST travels as a head and a body, which need not arrive  *)
(* together.                                                                 *)
Segments(m) ==
    IF m.route \in {"query", "index"}
    THEN <<[route |-> m.route, fields |-> <<>>], [route |-> "body", fields |-> m.fields]>>
    ELSE <<[route |-> m.route, fields |-> <<>>]>>

Connect(c) ==
    /\ booted /\ ~crashed
    /\ conn[c] = "none"
    /\ conn' = [conn EXCEPT ![c] = "backlog"]
    /\ UNCHANGED <<storeVars, booted, inbox, sent, written, task, ready, metrics,
                   answer, batcher>>

TotalSent == FoldFunction(+, 0, sent)

Send(c, m) ==
    /\ conn[c] \in {"backlog", "open"} /\ ~crashed
    /\ TotalSent < MaxSent
    /\ inbox' = [inbox EXCEPT ![c] = @ \o Segments(m)]
    /\ sent' = [sent EXCEPT ![c] = @ + 1]
    /\ UNCHANGED <<storeVars, booted, conn, written, task, ready, metrics, answer,
                   batcher>>

(* The client closes its side; with a reset, what was not read is lost. *)
HangUp(c) ==
    /\ conn[c] = "open" /\ ~crashed
    /\ conn' = [conn EXCEPT ![c] = "ended"]
    /\ inbox' \in {inbox, [inbox EXCEPT ![c] = <<>>]}
    /\ UNCHANGED <<storeVars, booted, sent, written, task, ready, metrics, answer,
                   batcher>>

-------------------------------------------------------------------------------
(* main() loads the configured corpus, if any, and starts the server whether *)
(* or not that worked.                                                       *)
LoadReturns(p) == Loads(p) /\ ready' = TRUE

(* Mutant of LoadFails: the flag stays as it was. *)
LoadFailsOnly(p) == LoadThrows(p) /\ UNCHANGED ready

LoadFails(p) == LoadThrows(p) /\ ready' = FALSE

Boot ==
    /\ ~booted /\ booted' = TRUE
    /\ \/ UNCHANGED <<storeVars, ready>>
       \/ \E p \in Paths : LoadReturns(p) \/ LoadFails(p)
    /\ UNCHANGED <<network, written, task, metrics, answer, batcher>>

IsReady == ready /\ IsLoaded

OnConnection(c) ==
    /\ ~Blocked /\ ~crashed
    /\ conn[c] = "backlog"
    /\ conn' = [conn EXCEPT ![c] = "open"]
    /\ UNCHANGED <<storeVars, booted, inbox, sent, written, task, ready, metrics,
                   answer, batcher>>

(* uv_accept() fails.  The new handle is deleted while the loop is closing   *)
(* it, which may take the process down.                                      *)
ConnectionRefused(c) ==
    /\ ~Blocked /\ ~crashed
    /\ conn[c] = "backlog"
    /\ conn' = [conn EXCEPT ![c] = "refused"]
    /\ UNCHANGED batcher \/ Batcher!Crash
    /\ UNCHANGED <<storeVars, booted, inbox, sent, written, task, ready, metrics,
                   answer>>

(* on_read() with an error or the end of the stream, after all it had. *)
OnEnd(c) ==
    /\ ~Blocked /\ ~crashed
    /\ conn[c] = "ended" /\ inbox[c] = <<>>
    /\ conn' = [conn EXCEPT ![c] = "closed"]
    /\ UNCHANGED <<storeVars, booted, inbox, sent, written, task, ready, metrics,
                   answer, batcher>>

(* Any number of segments may have arrived when the loop reads. *)
Chunk(c, n) == SubSeq(inbox[c], 1, n)

Read(c, n) ==
    /\ ~Blocked /\ ~crashed
    /\ conn[c] \in {"open", "ended"}
    /\ inbox' = [inbox EXCEPT ![c] = SubSeq(@, n + 1, Len(@))]
    /\ UNCHANGED <<booted, conn, sent, answer>>

Reply(c, route, code) ==
    written' = [written EXCEPT ![c] = Append(@, [route |-> route, status |-> code])]

(* body.find(): the first such field in what came after the head. *)
Field(chunk, f) ==
    LET has == {i \in 2..Len(chunk) : f \in DOMAIN chunk[i].fields}
    IN  IF has = {} THEN Missing
        ELSE chunk[CHOOSE i \in has : \A j \in has : i <= j].fields[f]

(* Health, metrics and whatever else begins a chunk: the reply is ready. *)
Simple(c, n) ==
    LET route == Chunk(c, n)[1].route
    IN  /\ Read(c, n)
        /\ route \notin {"query", "index"}
        /\ Reply(c, route, IF route \in {"health", "metrics"} THEN 200 ELSE 404)
        /\ UNCHANGED <<storeVars, task, ready, metrics, batcher>>

(* handle_index() *)
IndexRejected(c, n) ==
    LET chunk == Chunk(c, n)
    IN  /\ Read(c, n)
        /\ chunk[1].route = "index"
        /\ Field(chunk, "corpus_path") = Missing
        /\ Reply(c, "index", 400)
        /\ UNCHANGED <<storeVars, task, ready, metrics, batcher>>

IndexLoads(c, n) ==
    LET chunk == Chunk(c, n)
        path  == Field(chunk, "corpus_path")
    IN  /\ Read(c, n)
        /\ chunk[1].route = "index"
        /\ path # Missing
        /\ \/ LoadReturns(path) /\ Reply(c, "index", 200)
           \/ LoadFails(path) /\ Reply(c, "index", 500)
        /\ UNCHANGED <<task, metrics, batcher>>

-------------------------------------------------------------------------------
(* handle_query() *)

TopK(chunk) ==
    LET k == Field(chunk, "top_k") IN IF k = Missing THEN DefaultTopK ELSE k

(* stoi() throws, and nothing between here and the loop catches. *)
QueryUnparsed(c, n) ==
    LET chunk == Chunk(c, n)
    IN  /\ Read(c, n)
        /\ chunk[1].route = "query"
        /\ TopK(chunk) = NotANumber
        /\ Batcher!Crash
        /\ UNCHANGED <<storeVars, written, task, ready, metrics>>

QueryRejected(c, n) ==
    LET chunk == Chunk(c, n)
        empty == Field(chunk, "query_text") = Missing
    IN  /\ Read(c, n)
        /\ chunk[1].route = "query"
        /\ TopK(chunk) # NotANumber
        /\ empty \/ ~IsReady
        /\ Reply(c, "query", IF empty THEN 400 ELSE 503)
        /\ UNCHANGED <<storeVars, task, ready, metrics, batcher>>

Submitted == {r \in Requests : status[r] # "none"}

(* The query is submitted, alone, and its future waited for. *)
QueryAccepted(c, n) ==
    LET chunk == Chunk(c, n)
    IN  /\ Read(c, n)
        /\ chunk[1].route = "query"
        /\ TopK(chunk) # NotANumber
        /\ Field(chunk, "query_text") # Missing
        /\ IsReady
        /\ \E r \in Requests \ Submitted :
              /\ \A q \in Requests \ Submitted : r <= q
              /\ Batcher!Accept(r)
              /\ task' = [conn |-> c, request |-> r, top_k |-> TopK(chunk)]
        /\ UNCHANGED <<storeVars, written, ready, metrics>>

(* The embedding service answers the batcher, or submit()'s unlocked read of *)
(* the queue takes the process down.                                         *)
Settle == \E r \in Requests : Batcher!Settle(r) /\ UNCHANGED <<storeVars, booted,
                 network, written, task, ready, metrics, answer>>

SubmitFaults ==
    /\ Blocked
    /\ Batcher!Crash
    /\ UNCHANGED <<storeVars, booted, network, written, task, ready, metrics, answer>>

(* Mutant of Rethrows: an error does not reach future.get(). *)
RethrowsNever == FALSE

(* future.get() rethrows the error; or no vector can have top_k elements.    *)
Rethrows ==
    \/ status[task.request] = "error"
    \/ status[task.request] = "value" /\ task.top_k < 0

QueryThrows ==
    /\ Blocked
    /\ Rethrows
    /\ Batcher!Crash
    /\ UNCHANGED <<storeVars, booted, network, written, task, ready, metrics, answer>>

(* The results of search(): any positions, best first, fewer than asked for  *)
(* when the approximate search finds fewer.                                  *)
Hits(k) ==
    {hits \in SeqOf(Describable, k) : IsInjective(hits)}

Id(chunk) == chunk[2]       \* "chunk_" and the position in its file

(* Mutant of Merge: no result is dropped. *)
MergeAll(results) == results

(* deduplicate_by_id() *)
Merged(kept, chunk) ==
    IF \E i \in DOMAIN kept : Id(kept[i]) = Id(chunk) THEN kept ELSE Append(kept, chunk)

Merge(results) == FoldLeft(Merged, <<>>, results)

Observed(count) ==
    [queries_total |-> Increment(metrics.queries_total), last_result_count |-> count,
     durations |-> Observe(metrics.durations, task.request)]

QueryAnswered ==
    /\ Blocked /\ ~crashed
    /\ status[task.request] = "value" /\ task.top_k >= 0
    /\ Search(DefaultWidth)
    /\ \E hits \in Hits(task.top_k) :
          answer' = Merge([i \in DOMAIN hits |-> store.metadata[hits[i]]])
    /\ metrics' = Observed(Len(answer'))
    /\ Reply(task.conn, "query", 200)
    /\ task' = Idle
    /\ UNCHANGED <<booted, network, ready, batcher>>

-------------------------------------------------------------------------------
OnRead(c) ==
    \E n \in 1..Len(inbox[c]) :
       \/ Simple(c, n)
       \/ IndexRejected(c, n)
       \/ IndexLoads(c, n)
       \/ QueryUnparsed(c, n)
       \/ QueryRejected(c, n)
       \/ QueryAccepted(c, n)

Next ==
    \/ Boot
    \/ \E c \in Conns : Connect(c) \/ HangUp(c) \/ OnEnd(c) \/ OnRead(c)
    \/ \E c \in Conns : OnConnection(c) \/ ConnectionRefused(c)
    \/ \E c \in Conns, m \in Messages : Send(c, m)
    \/ Settle
    \/ SubmitFaults
    \/ QueryThrows
    \/ QueryAnswered

Spec == Init /\ [][Next]_rvars

(* The loop goes on as long as it has something to do, and serves every      *)
(* handle the poll reports before it polls again, so a connection with data  *)
(* is read although others keep the loop busy; on_connection() with an error *)
(* status changes nothing, and the poll reports the connection again; the    *)
(* batcher settles what it has accepted (EncodingService).                   *)
Fairness ==
    /\ \A r \in Requests : WF_rvars(Settle /\ status'[r] # status[r])
    /\ WF_rvars(QueryThrows)
    /\ WF_rvars(QueryAnswered)
    /\ \A c \in Conns : SF_rvars(OnConnection(c)) /\ SF_rvars(OnRead(c))

FairSpec == Spec /\ Fairness

-------------------------------------------------------------------------------
(* The loop thread blocks in one query at a time, so the batcher never holds *)
(* two requests and a batch never has more than one query.                   *)
NothingToBatch ==
    \A q, r \in Requests : status[q] = "accepted" /\ status[r] = "accepted" => q = r

(* The responses to queries with status 200. *)
Success == [route |-> "query", status |-> 200]

Successes ==
    UNION {{c} \X {i \in DOMAIN written[c] : written[c][i] = Success} : c \in Conns}

QueriesAnswered == Cardinality(Successes)

(* The metrics agree with the responses: every query with status 200, and no *)
(* other, is counted and timed, the histogram has the times of the latest    *)
(* ones in their order, and the gauge is the number of results last sent.    *)
MetricsAgree ==
    /\ metrics.queries_total = QueriesAnswered
    /\ metrics.durations =
          LET kept == IF QueriesAnswered < MaxHistogram THEN QueriesAnswered
                      ELSE MaxHistogram
          IN  [i \in 1..kept |-> QueriesAnswered - kept + i]
    /\ metrics.last_result_count = Len(answer)

(* No answer names a chunk twice, although the metadata of several corpora   *)
(* repeats the same ids.                                                     *)
ResultsDistinct ==
    \A i, j \in DOMAIN answer : Id(answer[i]) = Id(answer[j]) => i = j

(* What is_ready() lets through is the HNSW index of a load that succeeded:  *)
(* a load that fails half way leaves a flat index that is_loaded() takes for *)
(* whole, and only the flag keeps queries from it.                           *)
ReadyIndexBuilt == IsReady => store.index.kind = "hnsw"

(* The index that a query was admitted for is the one it searches: while it  *)
(* waits for its embedding nobody loads another or takes it away.            *)
AdmittedIndexSearched ==
    [][task # Idle /\ task' = task => ready' = ready /\ store' = store]_rvars

(* Everything a client sends on a connection that is not refused is read,    *)
(* whatever the other connections do, unless the process ends.               *)
EverythingRead ==
    \A c \in Conns :
       inbox[c] # <<>> ~> inbox[c] = <<>> \/ conn[c] = "refused" \/ crashed

(* One request, one response. *)
OneReplyEach == \A c \in Conns : Len(written[c]) <= sent[c]

================================================================================
