----------------------------- MODULE BucketLog -----------------------------
(***************************************************************************)
(* What the storage layer promises, without files, leases or an index.     *)
(*                                                                         *)
(* A bucket is a log of entries.  Clients use a bucket between Enter and   *)
(* Leave; while anybody uses it nothing can be removed from it, and its    *)
(* log can only grow at the end.  A remover has the bucket to itself.      *)
(* A crash ends every use and every removal but leaves the logs alone.     *)
(*                                                                         *)
(* Storage.tla, with its handles, plain and compressed files, rotation     *)
(* and reference counts, implements this module.                           *)
(***************************************************************************)
EXTENDS Naturals, Sequences

CONSTANTS Buckets, Clients, Entries

VARIABLES
    log,        \* log[b]: the entries a reader of b finds
    users,      \* users[b]: the clients that use b
    removing    \* the buckets a remover has to itself

logVars == <<log, users, removing>>

Init ==
    /\ log = [b \in Buckets |-> <<>>]
    /\ users = [b \in Buckets |-> {}]
    /\ removing = {}

Enter(c, b) ==
    /\ b \notin removing
    /\ c \notin users[b]
    /\ users' = [users EXCEPT ![b] = @ \cup {c}]
    /\ UNCHANGED <<log, removing>>

Leave(c, b) ==
    /\ c \in users[b]
    /\ users' = [users EXCEPT ![b] = @ \ {c}]
    /\ UNCHANGED <<log, removing>>

\* Only a client that uses the bucket adds to it, and only at the end.
Grow(b, e) ==
    /\ users[b] # {}
    /\ log' = [log EXCEPT ![b] = Append(@, e)]
    /\ UNCHANGED <<users, removing>>

Reserve(b) ==
    /\ users[b] = {}
    /\ b \notin removing
    /\ removing' = removing \cup {b}
    /\ UNCHANGED <<log, users>>

\* Entries disappear only here.
Discard(b) ==
    /\ b \in removing
    /\ log' = [log EXCEPT ![b] = <<>>]
    /\ UNCHANGED <<users, removing>>

Unreserve(b) ==
    /\ b \in removing
    /\ removing' = removing \ {b}
    /\ UNCHANGED <<log, users>>

Crash ==
    /\ users' = [b \in Buckets |-> {}]
    /\ removing' = {}
    /\ UNCHANGED log

Next ==
    \/ \E b \in Buckets :
         \/ \E c \in Clients : Enter(c, b) \/ Leave(c, b)
         \/ \E e \in Entries : Grow(b, e)
         \/ Reserve(b)
         \/ Discard(b)
         \/ Unreserve(b)
    \/ Crash

Spec == Init /\ [][Next]_logVars
=============================================================================
