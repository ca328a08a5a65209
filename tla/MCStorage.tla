----------------------------- MODULE MCStorage -----------------------------
(* Instances of Storage small enough for TLC. *)
EXTENDS Storage
=============================================================================
