---------------------------- MODULE MCQueryBatcher ----------------------------
(* Instances of QueryBatcher for TLC. *)
EXTENDS QueryBatcher, TLC

CONSTANTS r1, r2, r3

(* Small batches, and one at MaxBatchSize. *)
MCSize == [r \in Requests |-> IF r = r3 THEN 2 ELSE 1]

(* Small batches, and one submit() without queries. *)
MCSizeEmpty == [r \in Requests |-> IF r = r3 THEN 0 ELSE 1]

MCSymmetry == Permutations({r1, r2}) \cup Permutations(Clients)

===============================================================================
