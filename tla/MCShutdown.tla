----------------------------- MODULE MCShutdown -----------------------------
(* Instances of Shutdown.  No symmetry: the run checks a liveness property. *)
EXTENDS Shutdown
=============================================================================
