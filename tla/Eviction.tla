------------------------------ MODULE Eviction ------------------------------
(***************************************************************************)
(* What a tick of the storage monitor deletes (runEviction in              *)
(* internal/storage/eviction.go): the inventory adds up the buckets, a     *)
(* first pass marks the eligible ones oldest first, a second pass deletes  *)
(* them until the cap of the tick is reached.  A bucket is its place in    *)
(* the order of modification times; what a deletion does to the disk and   *)
(* the index, and who holds leases, is in Storage.                         *)
(***************************************************************************)
EXTENDS Integers, FiniteSets, FiniteSetsExt

CONSTANTS
    N,              \* buckets
    Sizes,          \* bytes of a bucket
    ByteCaps,       \* values of max_bytes
    EvictionCap,    \* deletions per tick
    MaxRefusals     \* leased or failing deletions in the run

ASSUME EvictionAssumption ==
    /\ N \in Nat
    /\ Sizes \subseteq Nat
    /\ ByteCaps \subseteq Nat
    /\ EvictionCap \in Nat \ {0}
    /\ MaxRefusals \in Nat

Files == 1..N

\* Modification times, as the rules tell them apart: zero (media without a
\* JSONL file), before the age cutoff, in between, within the idle lag.
Zero == 0
Old == 1
Idle == 2
Fresh == 3
Ages == Zero..Fresh

VARIABLES
    age, size,          \* of the buckets
    maxBytes, ageCap,   \* the retention configuration
    disk,               \* buckets on disk
    pass, pos,          \* where the tick is
    inv, total,         \* Inventory: buckets found, TotalBytes
    current,            \* currentBytes of the first pass
    eligible, deleted, skipped, capHit,
    refusals

inputs == <<age, size, maxBytes, ageCap>>
results == <<eligible, deleted, skipped, capHit>>
vars == <<inputs, disk, pass, pos, inv, total, current, results, refusals>>

\* sort.SliceStable: a bucket's number is its place in the order.
Sorted(a) == \A i, j \in Files : i <= j => a[i] <= a[j]

Init ==
    /\ age \in [Files -> Ages] /\ Sorted(age)
    /\ size \in [Files -> Sizes]
    /\ maxBytes \in ByteCaps
    /\ ageCap \in BOOLEAN
    /\ maxBytes > 0 \/ ageCap
    /\ disk = Files
    /\ pass = "walk" /\ pos = 1
    /\ inv = {} /\ total = 0 /\ current = 0
    /\ eligible = {} /\ deleted = {} /\ skipped = {} /\ capHit = FALSE
    /\ refusals = MaxRefusals

-----------------------------------------------------------------------------
\* walkAndStat: one bucket after the other.
Walk ==
    /\ pass = "walk" /\ pos <= N
    /\ pos' = pos + 1
    /\ IF pos \in disk
       THEN inv' = inv \cup {pos} /\ total' = total + size[pos]
       ELSE UNCHANGED <<inv, total>>
    /\ UNCHANGED <<inputs, disk, pass, current, results, refusals>>

Walked ==
    /\ pass = "walk" /\ pos = N + 1
    /\ pass' = "first" /\ pos' = 1
    /\ current' = total
    /\ UNCHANGED <<inputs, disk, inv, total, results, refusals>>

AgeHit(f) == ageCap /\ age[f] = Old
MediaOrphan(f) == age[f] = Zero /\ size[f] > 0

\* MUTANT: the byte rule will not delete more than the excess.
ByteHitFitting(f) == maxBytes > 0 /\ size[f] <= current - maxBytes

\* MUTANT: the byte rule is content one byte too early.
ByteHitLate(f) == maxBytes > 0 /\ current > maxBytes + 1

ByteHit(f) == maxBytes > 0 /\ current > maxBytes

Hit(f) == AgeHit(f) \/ ByteHit(f) \/ MediaOrphan(f)

\* The first pass: within the lag a bucket is left alone.
Classify ==
    /\ pass = "first" /\ pos <= N
    /\ pos' = pos + 1
    /\ IF pos \in inv /\ age[pos] # Fresh /\ Hit(pos)
       THEN eligible' = eligible \cup {pos} /\ current' = current - size[pos]
       ELSE UNCHANGED <<eligible, current>>
    /\ UNCHANGED <<inputs, disk, pass, inv, total, deleted, skipped, capHit, refusals>>

Classified ==
    /\ pass = "first" /\ pos = N + 1
    /\ pass' = "second" /\ pos' = 1
    /\ UNCHANGED <<inputs, disk, inv, total, current, results, refusals>>

-----------------------------------------------------------------------------
AtFile == pass = "second" /\ pos <= N
SecondFrame == UNCHANGED <<inputs, inv, current, eligible>>

CapReached == Cardinality(deleted) >= EvictionCap

PassOver ==
    /\ AtFile /\ pos \notin eligible
    /\ pos' = pos + 1
    /\ UNCHANGED <<disk, pass, total, deleted, skipped, capHit, refusals>>
    /\ SecondFrame

\* MUTANT: the form the bucket has on disk is not found.
DeleteMisses ==
    /\ AtFile /\ pos \in eligible /\ ~ CapReached
    /\ pos' = pos + 1
    /\ deleted' = deleted \cup {pos}
    /\ total' = total - size[pos]
    /\ UNCHANGED <<disk, pass, skipped, capHit, refusals>>
    /\ SecondFrame

\* deleteIfIdle succeeds.
Delete ==
    /\ AtFile /\ pos \in eligible /\ ~ CapReached
    /\ pos' = pos + 1
    /\ disk' = disk \ {pos}
    /\ deleted' = deleted \cup {pos}
    /\ total' = total - size[pos]
    /\ UNCHANGED <<pass, skipped, capHit, refusals>>
    /\ SecondFrame

\* deleteIfIdle finds a lease, or fails with the files still there or gone.
Refused ==
    /\ AtFile /\ pos \in eligible /\ ~ CapReached
    /\ refusals > 0 /\ refusals' = refusals - 1
    /\ pos' = pos + 1
    /\ skipped' = skipped \cup {pos}
    /\ disk' \in {disk, disk \ {pos}}
    /\ UNCHANGED <<pass, total, deleted, capHit>>
    /\ SecondFrame

HitsCap ==
    /\ AtFile /\ pos \in eligible /\ CapReached
    /\ capHit' = TRUE
    /\ pass' = "done"
    /\ UNCHANGED <<disk, pos, total, deleted, skipped, refusals>>
    /\ SecondFrame

Finishes ==
    /\ pass = "second" /\ pos = N + 1
    /\ pass' = "done"
    /\ UNCHANGED <<disk, pos, total, deleted, skipped, capHit, refusals>>
    /\ SecondFrame

\* The context ends: this was the last tick.
Cancelled ==
    /\ pass = "second"
    /\ pass' = "stopped"
    /\ UNCHANGED <<disk, pos, total, deleted, skipped, capHit, refusals>>
    /\ SecondFrame

\* Between two ticks buckets grow older, the ones still written to excepted.
Ageing(f, a) ==
    CASE age[f] = Fresh -> a \in {Idle, Fresh}
      [] age[f] = Idle -> a \in {Old, Idle}
      [] OTHER -> a = age[f]

NextTick ==
    /\ pass = "done"
    /\ age' \in [Files -> Ages] /\ Sorted(age') /\ \A f \in Files : Ageing(f, age'[f])
    /\ pass' = "walk" /\ pos' = 1
    /\ inv' = {} /\ total' = 0 /\ current' = 0
    /\ eligible' = {} /\ deleted' = {} /\ skipped' = {} /\ capHit' = FALSE
    /\ UNCHANGED <<size, maxBytes, ageCap, disk, refusals>>

Eviction ==
    \/ Walk \/ Walked
    \/ Classify \/ Classified
    \/ PassOver \/ Delete \/ Refused \/ HitsCap \/ Finishes
    \/ NextTick

Next == Eviction \/ Cancelled

Spec == Init /\ [][Next]_vars

\* The ticker keeps ticking and a tick comes to its end.
FairSpec == Init /\ [][Eviction]_vars /\ WF_vars(Eviction)

-----------------------------------------------------------------------------
(* Properties. *)

Bytes(S) == MapThenSumSet(LAMBDA f : size[f], S)

Flags == ageCap \in BOOLEAN /\ capHit \in BOOLEAN

Sets ==
    /\ disk \subseteq Files
    /\ inv \subseteq Files
    /\ eligible \subseteq inv /\ deleted \subseteq eligible /\ skipped \subseteq eligible
    /\ deleted \cap disk = {} /\ deleted \cap skipped = {}

TypeOK ==
    /\ age \in [Files -> Ages] /\ size \in [Files -> Sizes]
    /\ maxBytes \in ByteCaps
    /\ pass \in {"walk", "first", "second", "done", "stopped"}
    /\ pos \in 1..(N + 1)
    /\ total \in Int /\ current \in Int
    /\ refusals \in Nat
    /\ Sets
    /\ Cardinality(deleted) <= EvictionCap
    /\ Flags

\* Marked for the byte cap alone.
ForBytes(f) == ~ AgeHit(f) /\ ~ MediaOrphan(f)

\* Oldest first (glossary.md:77): a bucket goes for the byte cap only with
\* every older bucket that is not within its idle lag.
OldestFirst ==
    \A f, g \in inv :
        f \in eligible /\ ForBytes(f) /\ g < f /\ age[g] # Fresh => g \in eligible

\* Where the byte cap passed a bucket over, it is satisfied for good, and
\* the tick knows only buckets it has already looked at.
Swept ==
    /\ pass = "walk" => \A f \in inv : f < pos
    /\ pass \in {"walk", "first"} => deleted = {} /\ skipped = {}
    /\ pass = "walk" => eligible = {}
    /\ pass = "first" =>
        /\ \A f \in eligible : f < pos
        /\ \A f \in inv :
            f < pos /\ age[f] # Fresh /\ f \notin eligible => maxBytes = 0 \/ current <= maxBytes

\* The second pass meets every bucket once.
Ahead == pass = "second" => \A f \in deleted \cup skipped : f < pos

\* No bucket within its idle lag is marked (StorageEvictionTick).
Lagging == \A f \in eligible : age[f] # Fresh

\* The inductive invariant: OldestFirst needs to know what the walk and the
\* first pass have left behind them.
IInv == TypeOK /\ Swept /\ Ahead /\ Lagging /\ OldestFirst

\* A tick that nothing hindered leaves the directory within its byte cap,
\* or with buckets that are within their lag only; what it publishes as
\* the size is the size on disk.  And no bucket goes for the byte cap when the
\* older ones that go leave the directory within it (evictEligible).
UnderCapUnlessHindered ==
    /\ pass = "done" /\ skipped = {} /\ ~ capHit =>
        /\ total = Bytes(disk)
        /\ \/ maxBytes = 0 \/ total <= maxBytes
           \/ \A f \in disk : age[f] = Fresh
    /\ \A f \in eligible :
        ForBytes(f) => Bytes(inv) - Bytes({g \in eligible : g < f}) > maxBytes

\* Again and again the directory is within its byte cap, or holds only
\* buckets that are still being written to: what one tick was refused a
\* later one deletes.
CatchesUp ==
    []<>(\/ maxBytes = 0 \/ Bytes(disk) <= maxBytes
         \/ \A f \in disk : age[f] = Fresh)

\* retention.md:11: the oldest buckets are evicted until the directory is
\* under the cap, and a bucket that is in use is passed over.
EvictsUntilUnderCap ==
    pass = "done" /\ ~ capHit /\ maxBytes > 0 /\ total > maxBytes =>
        \A f \in disk \ skipped : age[f] = Fresh
=============================================================================
