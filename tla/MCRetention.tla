---------------------------- MODULE MCRetention ----------------------------
(* Instances of Retention.  No symmetry: the run checks a liveness property. *)
EXTENDS Retention
=============================================================================
