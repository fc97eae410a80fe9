------------------------- MODULE MCNativeVoiceLoop -------------------------
(* Instances of NativeVoiceLoop for TLC. *)
EXTENDS NativeVoiceLoop
=============================================================================
