------------------------ MODULE MCBoundedAudioQueue ------------------------
(* Instances of BoundedAudioQueue for TLC. *)
EXTENDS BoundedAudioQueue
=============================================================================
