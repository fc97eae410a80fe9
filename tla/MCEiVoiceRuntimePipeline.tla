---------------------- MODULE MCEiVoiceRuntimePipeline ----------------------
(* Instances of EiVoiceRuntimePipeline for TLC. *)
EXTENDS EiVoiceRuntimePipeline
=============================================================================
