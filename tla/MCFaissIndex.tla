----------------------------- MODULE MCFaissIndex -----------------------------
(* Instances of FaissIndex for TLC. *)
EXTENDS FaissIndex, TLC

CONSTANTS p1, p2, p3, p4, p5

(* Two good files, one whose negative dimension makes its vectors too large,  *)
(* one that is not there, and one whose count is negative too, so that the    *)
(* size fits again and there are no vectors.                                  *)
MCCorpus ==
    p1 :> File(2, 1, Chunks(p1, 2)) @@ p2 :> File(3, 1, Chunks(p2, 3))
    @@ p3 :> File(1, -1, <<>>) @@ p4 :> Absent @@ p5 :> File(-1, -1, <<>>)

===============================================================================
