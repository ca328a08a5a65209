---------------------------- MODULE MCInventory ----------------------------
(* Two keys of one day. *)
EXTENDS Inventory

CONSTANTS k1, k2

\* The listing is sorted by name.
TwoKeys == {k1, k2}
TwoKeysOrder == <<k1, k2>>
=============================================================================
