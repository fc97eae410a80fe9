--------------------- MODULE MCOpenClawRealtimeRuntime ---------------------
(* Instances of OpenClawRealtimeRuntime for TLC. *)
EXTENDS OpenClawRealtimeRuntime
=============================================================================
