---------------------------- MODULE EncodingService ----------------------------
(****************************************************************************)
(* What QueryBatcher promises the callers of submit(), without its threads, *)
(* queue or clock: a request that is accepted before the batcher closes is  *)
(* settled once, with embeddings or with an error; one that comes later is  *)
(* only settled if somebody calls flush() for it, and is broken when the    *)
(* batcher is destroyed.  QueryBatcher.tla implements this module.          *)
(****************************************************************************)

CONSTANT Requests       \* the calls of submit(), each with its promise

VARIABLES
    status,             \* Requests -> Statuses
    closed,             \* the dispatcher has taken its last look at the queue
    crashed             \* the process is gone

svars == <<status, closed, crashed>>

Statuses == {"none", "accepted", "late", "value", "error", "broken"}

STypeOK ==
    /\ status \in [Requests -> Statuses]
    /\ closed \in BOOLEAN
    /\ crashed \in BOOLEAN

SInit ==
    /\ status = [r \in Requests |-> "none"]
    /\ closed = FALSE
    /\ crashed = FALSE

Resolve(r, from, to) ==
    /\ ~crashed
    /\ status[r] = from
    /\ status' = [status EXCEPT ![r] = to]
    /\ UNCHANGED <<closed, crashed>>

(* A request with no queries is answered on the spot. *)
Answer(r) == Resolve(r, "none", "value")

(* A request reaches the queue. *)
Accept(r) == Resolve(r, "none", IF closed THEN "late" ELSE "accepted")

(* The service delivers an answer, or the reason why there is none. *)
Settle(r) == \E answer \in {"value", "error"} : Resolve(r, "accepted", answer)

(* flush() after the end takes every late request on. *)
Adopt ==
    /\ ~crashed
    /\ closed
    /\ status' = [r \in Requests |->
                    IF status[r] = "late" THEN "accepted" ELSE status[r]]
    /\ UNCHANGED <<closed, crashed>>

(* Destruction breaks the promises still in the queue. *)
Break ==
    /\ ~crashed
    /\ closed
    /\ status' = [r \in Requests |->
                    IF status[r] = "late" THEN "broken" ELSE status[r]]
    /\ UNCHANGED <<closed, crashed>>

Close ==
    /\ ~crashed
    /\ ~closed
    /\ closed' = TRUE
    /\ UNCHANGED <<status, crashed>>

Crash ==
    /\ ~crashed
    /\ crashed' = TRUE
    /\ UNCHANGED <<status, closed>>

SNext ==
    \/ \E r \in Requests : Answer(r) \/ Accept(r) \/ Settle(r)
    \/ Adopt
    \/ Break
    \/ Close
    \/ Crash

(* The safety half, and with it the promise that an accepted request is     *)
(* settled in the end.                                                      *)
SSafe == SInit /\ [][SNext]_svars
SSpec == SSafe /\ \A r \in Requests : WF_svars(Settle(r))

================================================================================
