------------------------- MODULE MCActivityPipeline -------------------------
(* Small instances of ActivityPipeline for TLC. *)
EXTENDS ActivityPipeline
=============================================================================
