----------------------------- MODULE MCEviction -----------------------------
(* Sizes and caps of a few bytes, so that caps fall below, on and above sums. *)
EXTENDS Eviction

SmallSizes == {0, 1, 2}
SmallCaps == {0, 1, 3}
=============================================================================
