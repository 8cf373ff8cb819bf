--------------------------- MODULE MCBatchStatistics ---------------------------
(* An instance of BatchStatistics for TLC: batches of one and of three.        *)
EXTENDS BatchStatistics

MCSizes == {1, 3}

================================================================================
