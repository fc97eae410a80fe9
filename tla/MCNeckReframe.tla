--------------------------- MODULE MCNeckReframe ---------------------------
(* Instances of NeckReframe for TLC. *)
EXTENDS NeckReframe
=============================================================================
