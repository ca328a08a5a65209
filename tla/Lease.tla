------------------------------- MODULE Lease -------------------------------
(***************************************************************************)
(* The lease table of the storage coordinator (internal/storage/lease.go). *)
(*                                                                         *)
(* The coordinator arbitrates who may touch the files of a bucket, one     *)
(* (date, key hash) pair.  Writers, gzip workers and exporters share a     *)
(* bucket by counted leases; eviction excludes them all by a delete mark.  *)
(* Both halves are changed under one mutex, so each operation is one step. *)
(*                                                                         *)
(* A lease object can be released once: its `released` flag turns a second *)
(* call into a no-op.  Here a holder is a process that remembers that it   *)
(* holds, so Release is only taken by a holder and the flag has no         *)
(* counterpart.                                                            *)
(***************************************************************************)
EXTENDS Naturals

CONSTANT Buckets    \* the canonical paths the table is keyed by

VARIABLES
    refs,           \* refs[b]: number of outstanding leases on b
    deleting        \* the buckets that carry the delete mark

leaseVars == <<refs, deleting>>

TableType ==
    /\ refs \in [Buckets -> Nat]
    /\ deleting \subseteq Buckets

\* A process starts with an empty table: neither half is ever persisted.
NoLeases ==
    /\ refs = [b \in Buckets |-> 0]
    /\ deleting = {}

\* The table of a process that has just replaced a crashed one.
ForgetLeases ==
    /\ refs' = [b \in Buckets |-> 0]
    /\ deleting' = {}

\* AcquireLease answers ErrFileBeingDeleted.
Refused(b) == b \in deleting

\* AcquireLease answers a lease.
Acquire(b) ==
    /\ ~ Refused(b)
    /\ refs' = [refs EXCEPT ![b] = @ + 1]
    /\ UNCHANGED deleting

\* MUTANT: the decrement is lost.
ReleaseNothing(b) == UNCHANGED leaseVars

\* Release: the count goes down and an entry at or below zero is dropped.
Release(b) ==
    /\ refs' = [refs EXCEPT ![b] = IF @ > 1 THEN @ - 1 ELSE 0]
    /\ UNCHANGED deleting

IsLeased(b) == refs[b] > 0

\* markDeleting answers false.
MarkRefused(b) == IsLeased(b) \/ b \in deleting

\* markDeleting answers true.
MarkDeleting(b) ==
    /\ ~ MarkRefused(b)
    /\ deleting' = deleting \cup {b}
    /\ UNCHANGED refs

UnmarkDeleting(b) ==
    /\ deleting' = deleting \ {b}
    /\ UNCHANGED refs
=============================================================================
