----------------------------- MODULE MCCapture -----------------------------
(* The chunks of a request, for TLC. *)
EXTENDS Capture

\* The directions share their code; the response gets the longer body.
Lens == [d \in Dirs |-> IF d = "req" THEN {1} ELSE {1, 2}]
ShortUpload == [d \in Dirs |-> IF d = "req" THEN 1 ELSE 3]
=============================================================================
