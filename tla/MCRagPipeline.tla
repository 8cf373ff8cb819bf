----------------------------- MODULE MCRagPipeline -----------------------------
(* An instance of RagPipeline for TLC. *)
EXTENDS RagPipeline

================================================================================
