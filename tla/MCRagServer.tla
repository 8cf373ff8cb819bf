------------------------------ MODULE MCRagServer ------------------------------
(* Instances of RagServer for TLC. *)
EXTENDS RagServer, TLC

CONSTANTS p1, p2, p3, p4, c1, c2

(* Two good files, one with a negative count and one that is not there. *)
MCCorpus ==
    p1 :> File(2, 1, Chunks(p1, 2)) @@ p2 :> File(3, 1, Chunks(p2, 3))
    @@ p3 :> File(-1, 1, <<>>) @@ p4 :> Absent

Query(k) == [route |-> "query", fields |-> [query_text |-> "t", top_k |-> k]]
Index(p) == [route |-> "index", fields |-> [corpus_path |-> p]]
Plain(r) == [route |-> r, fields |-> <<>>]

(* Queries with a good, a broken and a negative top_k, each kind of load, and *)
(* one message of each other route.                                          *)
MCMessages ==
    {Query(3), Query(NotANumber), Query(-1)}
    \cup {Index(p) : p \in Paths} \cup {Plain("health")}

MCRequests == 1..MaxSent

MCSymmetry == Permutations(Conns)

(* Histograms of up to six values of three sizes and, for the indices of the  *)
(* percentiles, of any number of different values up to 200.                 *)
ASSUME MCPercentiles ==
    PercentilesRight((UNION {[1..n -> 1..3] : n \in 0..6}) \cup {[i \in 1..n |-> -i] : n \in 1..200})

================================================================================
