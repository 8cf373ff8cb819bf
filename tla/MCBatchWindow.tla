----------------------------- MODULE MCBatchWindow -----------------------------
(* An instance of BatchWindow for TLC.  An int has sixteen values, -8 to 7, so *)
(* that with three ticks to the millisecond the products of -1, 0, 1 and 2 ms  *)
(* are in its range, those of 3 and 6 ms wrap to a negative and a positive     *)
(* number, and that of -3 ms to a positive one.                                *)
EXTENDS BatchWindow

MCWaits    == {-3, -1, 0, 1, 2, 3, 6}
MCTriggers == {-1, 2}
MCSizes    == {1, 2}

================================================================================
