------------------------------ MODULE MCEmbedding ------------------------------
(* An instance of OnnxEmbedding, and with it CpuEmbedding, for TLC.  With rows *)
(* of two tokens, a and b differ in a zero byte at the end, and b and c only   *)
(* in the first byte and beyond the row; a and c have one hash.                *)
EXTENDS OnnxEmbedding, TLC

CONSTANTS a, b, c

MCSeed  == a :> 2 @@ b :> 3 @@ c :> 2
MCChars == a :> <<1>> @@ b :> <<2, 0>> @@ c :> <<1, 0, 5>>

MCSymmetry == Permutations(Callers)

================================================================================
