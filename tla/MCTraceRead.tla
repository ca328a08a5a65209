---------------------------- MODULE MCTraceRead ----------------------------
(* Instances of TraceRead small enough for TLC. *)
EXTENDS TraceRead
=============================================================================
