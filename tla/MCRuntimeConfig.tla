-------------------------- MODULE MCRuntimeConfig --------------------------
(* The requests an operator can make, for TLC. *)
EXTENDS RuntimeConfig, TLC

\* The operator's requests differ in their bodies only.
Symmetry == Permutations(Requests)

Media(v) == [op |-> "media", on |-> v, bytes |-> Absent, age |-> Absent, list |-> "none"]
Knobs(b, a) == [op |-> "retention", on |-> Absent, bytes |-> b, age |-> a, list |-> "none"]
Plugins(op, list) == [op |-> op, on |-> Absent, bytes |-> Absent, age |-> Absent, list |-> list]

\* One body per handler and way through it.
MCBodies ==
    {Media(1), Knobs(0, 1), Knobs(0, Absent), Plugins("delete", "none")}
    \cup {Plugins("plugins", list) : list \in {"good", "bad"}}
    \cup {Plugins("patch", list) : list \in {"better", "bad"}}
============================================================================
