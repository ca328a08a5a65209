---------------------------- MODULE MonitorProofs ----------------------------
(***************************************************************************)
(* Proofs about the monitor of the storage layer: what a tick evicts, for  *)
(* any number and size of buckets (Eviction), what its walk measures, for  *)
(* any directory (Inventory), and what it publishes beside any number of   *)
(* PUTs (Retention).                                                       *)
(***************************************************************************)
EXTENDS Eviction, Inventory, Retention, FiniteSetTheorems, TLAPS

-----------------------------------------------------------------------------
(* Eviction: the inductive invariant of a tick. *)

LEMMA Sizing == TypeOK => (\A f \in Files : size[f] \in Nat) /\ maxBytes \in Nat
<1> SUFFICES ASSUME TypeOK PROVE (\A f \in Files : size[f] \in Nat) /\ maxBytes \in Nat
  OBVIOUS
<1>1. size \in [Files -> Sizes] /\ maxBytes \in ByteCaps
  BY DEF TypeOK
<1>2. Sizes \subseteq Nat /\ ByteCaps \subseteq Nat
  BY EvictionAssumption
<1> QED BY <1>1, <1>2

LEMMA InitIInv == Init => IInv
<1> SUFFICES ASSUME Init PROVE IInv
  OBVIOUS
<1> USE EvictionAssumption DEF Init, Files, Ages, Zero, Fresh
<1>1. Cardinality(deleted) <= EvictionCap
  BY FS_EmptySet
<1>2. Flags /\ Sets
  BY Zenon DEF Flags, Sets
<1>3. TypeOK
  BY <1>1, <1>2 DEF TypeOK
<1>4. Swept /\ Ahead /\ Lagging /\ OldestFirst
  BY DEF Swept, Ahead, Lagging, OldestFirst
<1> QED BY <1>3, <1>4 DEF IInv

LEMMA WalkKeeps == IInv /\ (Walk \/ Walked) => IInv'
<1> SUFFICES ASSUME IInv, Walk \/ Walked PROVE IInv'
  OBVIOUS
<1> USE EvictionAssumption DEF IInv, Files, inputs, results
<1>1. Flags'
  BY DEF Walk, Walked, TypeOK, Flags
<1>2. Sets'
  <2>1. inv' = inv \/ (inv' = inv \cup {pos} /\ pos \in disk)
    BY DEF Walk, Walked
  <2>2. UNCHANGED <<disk, eligible, deleted, skipped>>
    BY DEF Walk, Walked
  <2> QED BY <2>1, <2>2 DEF TypeOK, Sets
<1>3. TypeOK'
  <2>1. CASE Walk
    <3>1. size[pos] \in Nat /\ total \in Int
      BY <2>1, Sizing DEF Walk, TypeOK
    <3>2. total' \in {total, total + size[pos]}
      BY <2>1 DEF Walk
    <3>3. total' \in Int /\ pos' \in 1..(N + 1)
      BY <2>1, <3>1, <3>2 DEF Walk, TypeOK
    <3> QED BY <1>1, <1>2, <2>1, <3>3, Zenon DEF Walk, TypeOK
  <2>2. CASE Walked
    BY <1>1, <1>2, <2>2 DEF Walked, TypeOK
  <2> QED BY <2>1, <2>2
<1>4. Swept' /\ Ahead' /\ Lagging'
  <2>1. CASE Walk
    <3>1. inv' \subseteq inv \cup {pos}
      BY <2>1 DEF Walk
    <3>2. pass = "walk" /\ pass' = "walk" /\ pos' = pos + 1 /\ pos \in Nat /\ inv \subseteq Nat
      BY <2>1 DEF Walk, TypeOK, Sets
    <3>3. UNCHANGED <<age, eligible, deleted, skipped>>
      BY <2>1 DEF Walk
    <3> QED BY <3>1, <3>2, <3>3 DEF Swept, Ahead, Lagging
  <2>2. CASE Walked
    BY <2>2 DEF Walked, TypeOK, Sets, Swept, Ahead, Lagging
  <2> QED BY <2>1, <2>2
<1>5. OldestFirst'
  <2>1. CASE Walk
    <3>1. eligible' = {}
      BY <2>1 DEF Walk, Swept
    <3> QED BY <3>1 DEF OldestFirst
  <2>2. CASE Walked
    BY <2>2 DEF Walked, OldestFirst, ForBytes, AgeHit, MediaOrphan
  <2> QED BY <2>1, <2>2
<1> QED BY <1>3, <1>4, <1>5

LEMMA FirstKeeps == IInv /\ (Classify \/ Classified) => IInv'
<1> SUFFICES ASSUME IInv, Classify \/ Classified PROVE IInv'
  OBVIOUS
<1> USE EvictionAssumption DEF IInv, Files, inputs, results
<1>1. Flags'
  BY DEF Classify, Classified, TypeOK, Flags
<1>2. Sets'
  BY DEF Classify, Classified, TypeOK, Sets
<1>3. TypeOK'
  <2>1. CASE Classify
    <3>1. current' \in Int
      BY <2>1, Sizing DEF Classify, TypeOK
    <3> QED BY <1>1, <1>2, <2>1, <3>1 DEF Classify, TypeOK
  <2>2. CASE Classified
    BY <1>1, <1>2, <2>2 DEF Classified, TypeOK
  <2> QED BY <2>1, <2>2
<1>4. Ahead' /\ Lagging'
  BY DEF Classify, Classified, TypeOK, Sets, Swept, Ahead, Lagging
<1>5. Swept'
  <2>1. CASE Classify
    <3>1. size[pos] \in Nat /\ maxBytes \in Nat /\ current \in Int
      BY <2>1, Sizing DEF Classify, TypeOK
    <3>2. deleted' = {} /\ skipped' = {} /\ pass' = "first" /\ pos' = pos + 1 /\ pos \in Nat
      BY <2>1 DEF Classify, Swept, TypeOK
    <3>3. CASE pos \in inv /\ age[pos] # Fresh /\ Hit(pos)
      <4>1. eligible' = eligible \cup {pos} /\ current' = current - size[pos] /\ UNCHANGED <<age, inv, maxBytes>>
        BY <2>1, <3>3 DEF Classify
      <4> QED BY <2>1, <3>1, <3>2, <4>1 DEF Classify, Swept, TypeOK, Sets
    <3>4. CASE ~ (pos \in inv /\ age[pos] # Fresh /\ Hit(pos))
      <4>1. UNCHANGED <<eligible, current, age, inv, maxBytes>>
        BY <2>1, <3>4 DEF Classify
      <4>2. pos \in inv /\ age[pos] # Fresh => maxBytes = 0 \/ current <= maxBytes
        BY <3>1, <3>4 DEF Hit, ByteHit
      <4> QED BY <2>1, <3>1, <3>2, <4>1, <4>2 DEF Classify, Swept, TypeOK, Sets
    <3> QED BY <3>3, <3>4
  <2>2. CASE Classified
    BY <2>2 DEF Classified, Swept
  <2> QED BY <2>1, <2>2
<1>6. OldestFirst'
  <2>1. CASE Classify
    <3>1. maxBytes \in Nat /\ current \in Int /\ pos \in Nat /\ inv \subseteq Nat
      BY <2>1, Sizing DEF Classify, TypeOK, Sets
    <3>2. UNCHANGED <<age, size, ageCap, inv, maxBytes>>
      BY <2>1 DEF Classify
    <3>3. eligible' \in {eligible, eligible \cup {pos}}
      BY <2>1 DEF Classify
    <3>4. pos \in eligible' /\ ForBytes(pos) =>
            \A g \in inv : g < pos /\ age[g] # Fresh => g \in eligible
      <4> SUFFICES ASSUME pos \in eligible', ForBytes(pos)
                   PROVE \A g \in inv : g < pos /\ age[g] # Fresh => g \in eligible
        OBVIOUS
      <4>1. pos \notin eligible
        BY <2>1, <3>1 DEF Classify, Swept
      <4>2. Hit(pos)
        BY <2>1, <4>1 DEF Classify
      <4>3. maxBytes > 0 /\ current > maxBytes
        BY <4>2 DEF Hit, ByteHit, ForBytes
      <4> QED BY <2>1, <3>1, <4>3 DEF Classify, Swept
    <3>5. \A f \in inv : ForBytes(f)' <=> ForBytes(f)
      BY <3>2 DEF ForBytes, AgeHit, MediaOrphan
    <3> QED BY <3>2, <3>3, <3>4, <3>5 DEF OldestFirst
  <2>2. CASE Classified
    BY <2>2 DEF Classified, OldestFirst, ForBytes, AgeHit, MediaOrphan
  <2> QED BY <2>1, <2>2
<1> QED BY <1>3, <1>4, <1>5, <1>6

LEMMA SecondKeeps == IInv /\ (PassOver \/ Delete \/ Refused \/ HitsCap \/ Finishes \/ Cancelled) => IInv'
<1> SUFFICES ASSUME IInv, PassOver \/ Delete \/ Refused \/ HitsCap \/ Finishes \/ Cancelled
             PROVE IInv'
  OBVIOUS
<1> USE EvictionAssumption DEF IInv, Files, inputs
<1>1. UNCHANGED <<age, size, maxBytes, ageCap, inv, current, eligible>>
  BY DEF PassOver, Delete, Refused, HitsCap, Finishes, Cancelled, SecondFrame
<1>2. pass = "second" /\ pass' \in {"second", "done", "stopped"}
  BY DEF PassOver, Delete, Refused, HitsCap, Finishes, Cancelled, AtFile
<1>3. Swept' /\ Lagging' /\ OldestFirst'
  BY <1>1, <1>2 DEF Swept, Lagging, OldestFirst, ForBytes, AgeHit, MediaOrphan
<1>4. capHit' \in BOOLEAN
  BY Zenon DEF PassOver, Delete, Refused, HitsCap, Finishes, Cancelled, TypeOK, Flags
<1>5. CASE Delete
  <2>1. pos \in eligible /\ pos \notin deleted /\ pos \notin skipped
    BY <1>2, <1>5 DEF Delete, AtFile, Ahead, TypeOK
  <2>2. Sets'
    BY <1>1, <1>5, <2>1 DEF Delete, TypeOK, Sets
  <2>3. Cardinality(deleted') <= EvictionCap
    <3>1. IsFiniteSet(Files)
      BY FS_Interval
    <3>2. IsFiniteSet(deleted)
      BY <3>1, FS_Subset DEF TypeOK, Sets
    <3>3. Cardinality(deleted) \in Nat /\ Cardinality(deleted') = Cardinality(deleted) + 1
      BY <1>5, <2>1, <3>2, FS_CardinalityType, FS_AddElement DEF Delete
    <3> QED BY <1>5, <3>3 DEF Delete, CapReached
  <2>4. total' \in Int /\ pos' \in 1..(N + 1)
    BY <1>5, Sizing DEF Delete, AtFile, TypeOK
  <2>5. TypeOK'
    BY <1>1, <1>2, <1>4, <1>5, <2>2, <2>3, <2>4, Zenon DEF Delete, TypeOK, Flags
  <2>6. Ahead'
    BY <1>5, <2>4 DEF Delete, Ahead, AtFile, TypeOK, Sets
  <2> QED BY <1>3, <2>5, <2>6
<1>6. CASE Refused
  <2>1. pos \in eligible /\ pos \notin deleted /\ pos \notin skipped
    BY <1>2, <1>6 DEF Refused, AtFile, Ahead, TypeOK
  <2>2. Sets'
    BY <1>1, <1>6, <2>1 DEF Refused, TypeOK, Sets
  <2>3. refusals' \in Nat /\ pos' \in 1..(N + 1)
    BY <1>6 DEF Refused, AtFile, TypeOK
  <2>4. TypeOK'
    BY <1>1, <1>2, <1>4, <1>6, <2>2, <2>3, Zenon DEF Refused, TypeOK, Flags
  <2>5. Ahead'
    BY <1>6 DEF Refused, Ahead, AtFile, TypeOK, Sets
  <2> QED BY <1>3, <2>4, <2>5
<1>7. CASE PassOver \/ HitsCap \/ Finishes \/ Cancelled
  <2>1. UNCHANGED <<disk, total, deleted, skipped, refusals>>
    BY <1>7 DEF PassOver, HitsCap, Finishes, Cancelled
  <2>2. Sets'
    BY <1>1, <2>1 DEF TypeOK, Sets
  <2>3. pos' \in 1..(N + 1)
    BY <1>7 DEF PassOver, HitsCap, Finishes, Cancelled, AtFile, TypeOK
  <2>4. TypeOK'
    BY <1>1, <1>2, <1>4, <2>1, <2>2, <2>3, Zenon DEF TypeOK, Flags
  <2>5. pos' = pos \/ pos' = pos + 1
    BY <1>7 DEF PassOver, HitsCap, Finishes, Cancelled
  <2>6. Ahead'
    BY <1>2, <2>1, <2>5 DEF Ahead, TypeOK, Sets
  <2> QED BY <1>3, <2>4, <2>6
<1> QED BY <1>5, <1>6, <1>7

LEMMA TickKeeps == IInv /\ NextTick => IInv'
<1> SUFFICES ASSUME IInv, NextTick PROVE IInv'
  OBVIOUS
<1> USE EvictionAssumption DEF IInv, Files
<1>1. Cardinality(deleted') <= EvictionCap
  BY FS_EmptySet DEF NextTick
<1>2. Flags' /\ Sets'
  BY DEF NextTick, TypeOK, Flags, Sets
<1>3. TypeOK'
  BY <1>1, <1>2 DEF NextTick, TypeOK
<1>4. Swept' /\ Ahead' /\ Lagging' /\ OldestFirst'
  BY DEF NextTick, Swept, Ahead, Lagging, OldestFirst
<1> QED BY <1>3, <1>4

LEMMA NextIInv == IInv /\ [Next]_vars => IInv'
<1> SUFFICES ASSUME IInv, [Next]_vars PROVE IInv'
  OBVIOUS
<1>1. CASE Next
  BY <1>1, WalkKeeps, FirstKeeps, SecondKeeps, TickKeeps DEF Next, Eviction
<1>2. CASE UNCHANGED vars
  BY <1>2 DEF vars, inputs, results, IInv, TypeOK, Flags, Sets, Swept, Ahead, Lagging, OldestFirst,
       ForBytes, AgeHit, MediaOrphan
<1> QED BY <1>1, <1>2

\* The inductive invariant of the tick.
THEOREM Invariance == Spec => []IInv
BY InitIInv, NextIInv, PTL DEF Spec

\* Every state of a tick is well typed, and it deletes no more than its cap.
THEOREM TypeCorrect == Spec => []TypeOK
<1>1. IInv => TypeOK
  BY DEF IInv
<1> QED BY <1>1, Invariance, PTL

\* The byte cap takes the oldest idle buckets first, whatever the sizes.
THEOREM EvictsOldestFirst == Spec => []OldestFirst
<1>1. IInv => OldestFirst
  BY DEF IInv
<1> QED BY <1>1, Invariance, PTL

\* No bucket within its idle lag is ever marked for deletion.
THEOREM FreshAreSpared == Spec => []Lagging
<1>1. IInv => Lagging
  BY DEF IInv
<1> QED BY <1>1, Invariance, PTL

-----------------------------------------------------------------------------
(* Sums over finite sets, as MapThenSumSet takes them: one element after the *)
(* other, in an order that the choice fixes.                                 *)

Summed(w, S) == MapThenSumSet(LAMBDA f : w[f], S)

\* The element taken first, and the recursion that the sum is a solution of.
First(S) == CHOOSE x \in S : TRUE
Summing(g, w, S) ==
    g = [s \in SUBSET S |-> IF s = {} THEN 0 ELSE w[First(s)] + g[s \ {First(s)}]]

\* A set of numbers has a least one.
LEMMA LeastNat ==
    ASSUME NEW T, T \subseteq Nat, T # {}
    PROVE  \E m \in T : \A n \in T : m <= n
<1>1. PICK m \in T : \A n \in T : ~ (<<n, m>> \in OpToRel(<, Nat))
  BY NatLessThanWellFounded, WFMin
<1>2. \A n \in T : ~ (n < m)
  BY <1>1 DEF OpToRel
<1> QED BY <1>2

\* Of the finite sets with a property one has no smaller one.
LEMMA LeastSet ==
    ASSUME NEW U, IsFiniteSet(U), NEW C, C \subseteq SUBSET U, C # {}
    PROVE  \E T \in C : \A R \in SUBSET T : R # T => R \notin C
<1> DEFINE Q == {Cardinality(T) : T \in C}
<1>1. \A T \in C : IsFiniteSet(T) /\ Cardinality(T) \in Nat
  BY FS_Subset, FS_CardinalityType
<1>2. Q \subseteq Nat /\ Q # {}
  BY <1>1
<1>3. PICK m \in Q : \A n \in Q : m <= n
  <2> HIDE DEF Q
  <2> QED BY <1>2, LeastNat
<1>4. PICK T \in C : Cardinality(T) = m
  OBVIOUS
<1>5. ASSUME NEW R \in SUBSET T, R # T, R \in C PROVE FALSE
  <2>1. Cardinality(R) <= Cardinality(T) /\ Cardinality(R) # Cardinality(T)
    BY <1>1, <1>4, <1>5, FS_Subset
  <2>2. m <= Cardinality(R)
    BY <1>3, <1>5
  <2>3. Cardinality(R) \in Nat /\ Cardinality(T) \in Nat
    BY <1>1, <1>4, <1>5
  <2> QED BY <1>4, <2>1, <2>2, <2>3
<1> QED BY <1>4, <1>5

LEMMA FirstIn == \A S : S # {} => First(S) \in S
BY DEF First

\* The sum is the value of a solution, if there is one.
LEMMA SumSolves ==
    ASSUME NEW w, NEW S, \E g : Summing(g, w, S)
    PROVE  \E g : Summing(g, w, S) /\ Summed(w, S) = g[S]
<1> DEFINE it == CHOOSE g : Summing(g, w, S)
<1>1. Summing(it, w, S)
  OBVIOUS
<1>2. Summed(w, S) = it[S]
  BY DEF Summed, MapThenSumSet, MapThenFoldSet, Summing, First
<1> QED BY <1>1, <1>2

\* Two solutions agree wherever both are defined.
LEMMA SumUnique ==
    ASSUME NEW w, NEW R, IsFiniteSet(R), NEW S \in SUBSET R, NEW g, NEW h, Summing(g, w, S), Summing(h, w, R)
    PROVE  \A s \in SUBSET S : g[s] = h[s]
<1> DEFINE C == {s \in SUBSET S : g[s] # h[s]}
<1>1. SUFFICES ASSUME C # {} PROVE FALSE
  OBVIOUS
<1>2. IsFiniteSet(S)
  BY FS_Subset
<1>3. PICK s \in C : \A r \in SUBSET s : r # s => r \notin C
  <2> HIDE DEF C
  <2>1. C \subseteq SUBSET S
    BY DEF C
  <2> QED BY <1>1, <1>2, <2>1, LeastSet
<1>4. s \in SUBSET S /\ s \in SUBSET R /\ g[s] # h[s]
  OBVIOUS
<1>5. /\ g[s] = IF s = {} THEN 0 ELSE w[First(s)] + g[s \ {First(s)}]
      /\ h[s] = IF s = {} THEN 0 ELSE w[First(s)] + h[s \ {First(s)}]
  BY <1>4 DEF Summing
<1>6. s # {}
  BY <1>4, <1>5
<1>7. s \ {First(s)} \in SUBSET s /\ s \ {First(s)} # s /\ s \ {First(s)} \in SUBSET S
  BY <1>4, <1>6, FirstIn
<1>8. g[s \ {First(s)}] = h[s \ {First(s)}]
  BY <1>3, <1>7
<1> QED BY <1>4, <1>5, <1>6, <1>8

\* There is a solution for every finite set.
LEMMA SumExists ==
    ASSUME NEW w, NEW U, IsFiniteSet(U)
    PROVE  \A S \in SUBSET U : \E g : Summing(g, w, S)
<1> DEFINE C == {S \in SUBSET U : ~ \E g : Summing(g, w, S)}
<1>1. SUFFICES ASSUME C # {} PROVE FALSE
  OBVIOUS
<1>2. PICK T \in C : \A R \in SUBSET T : R # T => R \notin C
  <2>1. C \subseteq SUBSET U
    OBVIOUS
  <2> HIDE DEF C
  <2> QED BY <1>1, <2>1, LeastSet
<1>3. T \in SUBSET U /\ IsFiniteSet(T) /\ ~ \E g : Summing(g, w, T)
  BY FS_Subset
<1>4. \A R \in SUBSET T : R # T => \E g : Summing(g, w, R)
  BY <1>2, <1>3
<1> DEFINE sum(s) == IF s = {} THEN 0 ELSE w[First(s)] + Summed(w, s \ {First(s)})
<1>5. ASSUME NEW r \in SUBSET T, r # T PROVE Summed(w, r) = sum(r)
  <2>1. IsFiniteSet(r)
    BY <1>3, FS_Subset
  <2>2. PICK g : Summing(g, w, r) /\ Summed(w, r) = g[r]
    BY <1>4, <1>5, SumSolves
  <2>3. g[r] = IF r = {} THEN 0 ELSE w[First(r)] + g[r \ {First(r)}]
    BY <2>2 DEF Summing
  <2>4. CASE r = {}
    BY <2>2, <2>3, <2>4
  <2>5. CASE r # {}
    <3> DEFINE q == r \ {First(r)}
    <3>1. q \in SUBSET r /\ q \in SUBSET T /\ q # T
      BY <1>5
    <3>2. PICK h : Summing(h, w, q) /\ Summed(w, q) = h[q]
      BY <1>4, <3>1, SumSolves
    <3>3. h[q] = g[q]
      <4> HIDE DEF q
      <4>1. q \in SUBSET q
        OBVIOUS
      <4> QED BY <2>1, <2>2, <3>1, <3>2, <4>1, SumUnique
    <3> QED BY <2>2, <2>3, <2>5, <3>2, <3>3
  <2> QED BY <2>4, <2>5
<1> DEFINE g == [s \in SUBSET T |-> sum(s)]
<1>6. ASSUME NEW s \in SUBSET T, s # {} PROVE g[s] = w[First(s)] + g[s \ {First(s)}]
  <2>1. s \ {First(s)} \in SUBSET T /\ s \ {First(s)} # T
    BY <1>6, FirstIn
  <2>2. g[s \ {First(s)}] = sum(s \ {First(s)})
    <3> HIDE DEF sum
    <3> QED BY <2>1
  <2>3. Summed(w, s \ {First(s)}) = g[s \ {First(s)}]
    <3> HIDE DEF sum, g
    <3> QED BY <1>5, <2>1, <2>2
  <2>4. g[s] = sum(s)
    <3> HIDE DEF sum
    <3> QED OBVIOUS
  <2>5. sum(s) = w[First(s)] + Summed(w, s \ {First(s)})
    BY <1>6
  <2> HIDE DEF sum, g
  <2> QED BY <2>3, <2>4, <2>5
<1>7. g = [s \in SUBSET T |-> IF s = {} THEN 0 ELSE w[First(s)] + g[s \ {First(s)}]]
  <2>1. g[{}] = 0
    OBVIOUS
  <2>2. g = [s \in SUBSET T |-> g[s]]
    <3> HIDE DEF sum
    <3> QED OBVIOUS
  <2>3. \A s \in SUBSET T : g[s] = IF s = {} THEN 0 ELSE w[First(s)] + g[s \ {First(s)}]
    <3> HIDE DEF g
    <3> QED BY <1>6, <2>1
  <2> HIDE DEF g
  <2> QED BY <2>2, <2>3
<1>8. Summing(g, w, T)
  <2> HIDE DEF g
  <2> QED BY <1>7 DEF Summing
<1> QED BY <1>3, <1>8

\* What the sum takes first, and what is left of it.
LEMMA SumFirst ==
    ASSUME NEW w, NEW S, IsFiniteSet(S)
    PROVE  Summed(w, S) = IF S = {} THEN 0 ELSE w[First(S)] + Summed(w, S \ {First(S)})
<1>1. PICK g : Summing(g, w, S) /\ Summed(w, S) = g[S]
  BY SumExists, SumSolves
<1>2. g[S] = IF S = {} THEN 0 ELSE w[First(S)] + g[S \ {First(S)}]
  BY <1>1 DEF Summing
<1> DEFINE q == S \ {First(S)}
<1>3. q \in SUBSET S
  OBVIOUS
<1>4. PICK h : Summing(h, w, q) /\ Summed(w, q) = h[q]
  <2> HIDE DEF q
  <2> QED BY <1>3, SumExists, SumSolves
<1>5. h[q] = g[q]
  <2> HIDE DEF q
  <2>1. q \in SUBSET q
    OBVIOUS
  <2>2. Summing(h, w, q) /\ Summing(g, w, S)
    BY <1>1, <1>4
  <2>3. \A s \in SUBSET q : h[s] = g[s]
    BY <1>3, <2>2, SumUnique
  <2> QED BY <2>1, <2>3
<1> QED BY <1>1, <1>2, <1>4, <1>5

\* A sum of naturals is a natural, and nothing adds up to nothing.
LEMMA SumType ==
    ASSUME NEW w, NEW U, IsFiniteSet(U), \A x \in U : w[x] \in Nat
    PROVE  Summed(w, {}) = 0 /\ \A S \in SUBSET U : Summed(w, S) \in Nat
<1>1. Summed(w, {}) = 0
  BY SumFirst, FS_EmptySet
<1> DEFINE C == {S \in SUBSET U : Summed(w, S) \notin Nat}
<1>2. ASSUME C # {} PROVE FALSE
  <2>1. C \subseteq SUBSET U
    OBVIOUS
  <2>2. PICK T \in C : \A R \in SUBSET T : R # T => R \notin C
    <3> HIDE DEF C
    <3> QED BY <1>2, <2>1, LeastSet
  <2>3. T \in SUBSET U /\ IsFiniteSet(T) /\ Summed(w, T) \notin Nat
    BY FS_Subset
  <2>4. T # {}
    BY <1>1, <2>3
  <2>5. First(T) \in T /\ T \ {First(T)} \in SUBSET T /\ T \ {First(T)} # T
    BY <2>4, FirstIn
  <2>6. Summed(w, T \ {First(T)}) \in Nat /\ w[First(T)] \in Nat
    BY <2>2, <2>3, <2>5
  <2> QED BY <2>3, <2>4, <2>6, SumFirst
<1> QED BY <1>1, <1>2

\* One more element adds its size, whichever is taken first.
LEMMA SumAdds ==
    ASSUME NEW w, NEW U, IsFiniteSet(U), \A x \in U : w[x] \in Nat,
           NEW S \in SUBSET U, NEW x \in U, x \notin S
    PROVE  Summed(w, S \cup {x}) = Summed(w, S) + w[x]
<1> DEFINE Adds(T) == \A y \in U \ T : Summed(w, T \cup {y}) = Summed(w, T) + w[y]
<1> DEFINE C == {T \in SUBSET U : ~ Adds(T)}
<1>1. ASSUME C # {} PROVE FALSE
  <2>1. C \subseteq SUBSET U
    OBVIOUS
  <2>2. PICK T \in C : \A R \in SUBSET T : R # T => R \notin C
    <3> HIDE DEF C
    <3> QED BY <1>1, <2>1, LeastSet
  <2>3. T \in SUBSET U /\ IsFiniteSet(T) /\ ~ Adds(T)
    BY FS_Subset
  <2>4. \A R \in SUBSET T : R # T => Adds(R)
    <3> HIDE DEF Adds
    <3> QED BY <2>2, <2>3
  <2> HIDE DEF C
  <2>5. PICK y \in U \ T : Summed(w, T \cup {y}) # Summed(w, T) + w[y]
    BY <2>3
  <2> DEFINE V == T \cup {y}
  <2> DEFINE c == First(V)
  <2>6. IsFiniteSet(V) /\ V # {} /\ c \in V /\ V \in SUBSET U
    <3>1. IsFiniteSet(V) /\ V # {} /\ V \in SUBSET U
      BY <2>3, <2>5, FS_AddElement
    <3> HIDE DEF V
    <3> QED BY <3>1, FirstIn
  <2>7. Summed(w, V) = w[c] + Summed(w, V \ {c})
    <3> HIDE DEF V
    <3> QED BY <2>6, SumFirst
  <2>8. w[y] \in Nat /\ w[c] \in Nat /\ \A S1 \in SUBSET U : Summed(w, S1) \in Nat
    BY <2>5, <2>6, SumType
  <2>9. CASE c = y
    <3>1. V \ {c} = T
      BY <2>5, <2>9
    <3>2. Summed(w, T) \in Nat
      BY <2>3, <2>8
    <3>3. Summed(w, V) # Summed(w, T) + w[y]
      BY <2>5
    <3> HIDE DEF V, c
    <3> QED BY <2>7, <2>8, <2>9, <3>1, <3>2, <3>3
  <2>10. CASE c # y
    <3> DEFINE R == T \ {c}
    <3> HIDE DEF c
    <3>1. c \in T /\ R \in SUBSET T /\ R # T /\ V \ {c} = R \cup {y} /\ T = R \cup {c}
      BY <2>6, <2>10
    <3>2. c \in U \ R /\ y \in U \ R /\ R \in SUBSET U
      BY <2>3, <2>5, <3>1
    <3>3. Adds(R)
      <4> HIDE DEF Adds, R
      <4> QED BY <2>4, <3>1
    <3> HIDE DEF R, V
    <3>4. Summed(w, R \cup {y}) = Summed(w, R) + w[y] /\ Summed(w, R \cup {c}) = Summed(w, R) + w[c]
      BY <3>2, <3>3
    <3>5. Summed(w, V) = w[c] + (Summed(w, R) + w[y]) /\ Summed(w, T) = Summed(w, R) + w[c]
      BY <2>7, <3>1, <3>4
    <3>6. Summed(w, R) \in Nat
      BY <2>8, <3>2
    <3>7. Summed(w, V) = Summed(w, T) + w[y]
      BY <2>8, <3>5, <3>6
    <3> QED BY <2>5, <3>7 DEF V
  <2> QED BY <2>9, <2>10
<1>2. Adds(S)
  <2>1. S \notin C
    BY <1>1
  <2> HIDE DEF Adds
  <2> QED BY <2>1
<1> QED BY <1>2

-----------------------------------------------------------------------------
(* What the tick adds up. *)

\* The total is that of the buckets found and not deleted yet, currentBytes that of the
\* ones not marked; the walk has found what lies behind it, the first pass left nothing
\* above the cap that it might take, the second met every marked bucket behind it.
TallyInv ==
    /\ pass = "walk" => inv = {f \in disk : f < pos}
    /\ pass = "first" => inv = disk
    /\ pass \in {"walk", "first"} => total = Summed(size, inv)
    /\ pass # "walk" =>
        /\ current = Summed(size, inv \ eligible)
        /\ current + Summed(size, eligible) = Summed(size, inv)
    /\ pass \in {"second", "done", "stopped"} =>
        /\ total = Summed(size, inv \ deleted)
        /\ \A f \in inv \ eligible : age[f] = Fresh \/ maxBytes = 0 \/ current <= maxBytes
        /\ skipped = {} => disk = inv \ deleted
    /\ pass = "second" => \A f \in eligible : f < pos => f \in deleted \cup skipped
    /\ pass = "done" /\ ~ capHit => eligible \subseteq deleted \cup skipped

\* No bucket goes for the byte cap when the older ones that go leave the directory within it.
NoneInVain ==
    \A f \in eligible : ForBytes(f) => Summed(size, inv) - Summed(size, {g \in eligible : g < f}) > maxBytes

LEMMA Sums ==
    ASSUME TypeOK
    PROVE  /\ Summed(size, {}) = 0
           /\ \A S \in SUBSET Files : Summed(size, S) \in Nat
           /\ \A S \in SUBSET Files, f \in Files :
                f \notin S => Summed(size, S \cup {f}) = Summed(size, S) + size[f]
<1>1. IsFiniteSet(Files)
  BY FS_Interval, EvictionAssumption DEF Files
<1>2. \A f \in Files : size[f] \in Nat
  BY Sizing
<1> QED BY <1>1, <1>2, SumType, SumAdds

LEMMA InitTally == Init => TallyInv /\ NoneInVain
<1> SUFFICES ASSUME Init PROVE TallyInv /\ NoneInVain
  OBVIOUS
<1>1. TypeOK
  BY InitIInv DEF IInv
<1>2. Summed(size, {}) = 0
  BY <1>1, Sums
<1>3. inv = {f \in disk : f < pos}
  BY EvictionAssumption DEF Init, Files
<1> QED BY <1>2, <1>3 DEF Init, TallyInv, NoneInVain

\* The walk adds up the buckets it finds (walkAndStat).
LEMMA WalkTallies == IInv /\ TallyInv /\ NoneInVain /\ (Walk \/ Walked) => (TallyInv /\ NoneInVain)'
<1> SUFFICES ASSUME IInv, TallyInv, NoneInVain, Walk \/ Walked PROVE (TallyInv /\ NoneInVain)'
  OBVIOUS
<1>0. TypeOK /\ Swept /\ Sets /\ N \in Nat
  BY EvictionAssumption DEF IInv, TypeOK
<1>1. pass = "walk" /\ inv = {f \in disk : f < pos} /\ total = Summed(size, inv) /\ eligible = {}
  BY <1>0 DEF Walk, Walked, TallyInv, Swept
<1>2. /\ inv \in SUBSET Files /\ disk \in SUBSET Files /\ pos \in 1..(N + 1)
      /\ \A f \in Files : f \in Nat /\ 1 <= f /\ f <= N
  BY <1>0 DEF Sets, TypeOK, Files
<1>3. NoneInVain'
  <2>1. eligible' = {}
    BY <1>1 DEF Walk, Walked, results
  <2> QED BY <2>1 DEF NoneInVain
<1>4. CASE Walk
  <2>1. pos \in Files /\ pos \notin inv /\ pass' = "walk" /\ pos' = pos + 1 /\ size' = size /\ disk' = disk
    <3>1. pass' = "walk" /\ pos' = pos + 1 /\ size' = size /\ disk' = disk /\ pos <= N
      BY <1>4 DEF Walk, inputs
    <3>2. pos \in Files
      BY <1>0, <1>2, <3>1 DEF Files
    <3>3. \A f \in inv : f < pos
      BY <1>1
    <3> QED BY <1>2, <3>1, <3>2, <3>3
  <2>2. CASE pos \in disk
    <3>1. inv' = inv \cup {pos} /\ total' = total + size[pos]
      BY <1>4, <2>2 DEF Walk
    <3>2. Summed(size, inv \cup {pos}) = Summed(size, inv) + size[pos]
      BY <1>0, <1>2, <2>1, Sums
    <3>3. inv' = {f \in disk' : f < pos'}
      <4>1. \A f \in disk : f < pos + 1 <=> f < pos \/ f = pos
        BY <1>0, <1>2
      <4> QED BY <1>1, <2>1, <2>2, <3>1, <4>1
    <3>4. total' = Summed(size', inv')
      BY <1>1, <2>1, <3>1, <3>2
    <3> QED BY <1>3, <2>1, <3>3, <3>4 DEF TallyInv
  <2>3. CASE pos \notin disk
    <3>1. inv' = inv /\ total' = total
      BY <1>4, <2>3 DEF Walk
    <3>2. inv' = {f \in disk' : f < pos'}
      <4>1. \A f \in disk : f < pos + 1 <=> f < pos
        BY <1>0, <1>2, <2>3
      <4> QED BY <1>1, <2>1, <3>1, <4>1
    <3>3. total' = Summed(size', inv')
      BY <1>1, <2>1, <3>1
    <3> QED BY <1>3, <2>1, <3>2, <3>3 DEF TallyInv
  <2> QED BY <2>2, <2>3
<1>5. CASE Walked
  <2>1. /\ pos = N + 1 /\ pass' = "first" /\ current' = total
        /\ size' = size /\ disk' = disk /\ inv' = inv /\ total' = total /\ eligible' = {}
    BY <1>1, <1>5 DEF Walked, inputs, results
  <2>2. inv = disk
    <3>1. \A f \in disk : f < pos
      BY <1>0, <1>2, <2>1
    <3> QED BY <1>1, <3>1
  <2>3. inv \ {} = inv /\ Summed(size, {}) = 0 /\ Summed(size, inv) \in Nat
    BY <1>0, <1>2, Sums
  <2>4. inv' \ eligible' = inv
    BY <2>1
  <2>5. current' = Summed(size', inv' \ eligible')
    BY <1>1, <2>1, <2>4
  <2>6. current' + Summed(size', eligible') = Summed(size', inv')
    BY <1>1, <2>1, <2>3
  <2> QED BY <1>1, <1>3, <2>1, <2>2, <2>5, <2>6 DEF TallyInv
<1> QED BY <1>4, <1>5

\* The first pass takes the bytes of what it marks off (evictEligible).
LEMMA FirstTallies == IInv /\ TallyInv /\ NoneInVain /\ (Classify \/ Classified) => (TallyInv /\ NoneInVain)'
<1> SUFFICES ASSUME IInv, TallyInv, NoneInVain, Classify \/ Classified PROVE (TallyInv /\ NoneInVain)'
  OBVIOUS
<1>0. TypeOK /\ Swept /\ Sets /\ N \in Nat
  BY EvictionAssumption DEF IInv, TypeOK
<1>1. /\ pass = "first" /\ inv = disk /\ total = Summed(size, inv)
      /\ current = Summed(size, inv \ eligible) /\ current + Summed(size, eligible) = Summed(size, inv)
      /\ deleted = {} /\ skipped = {} /\ \A f \in eligible : f < pos
  BY <1>0 DEF Classify, Classified, TallyInv, Swept
<1>2. inv \in SUBSET Files /\ eligible \in SUBSET Files /\ eligible \subseteq inv /\ pos \in Nat /\ Files \subseteq Nat
  BY <1>0 DEF Sets, TypeOK, Files
<1>3. size' = size /\ age' = age /\ maxBytes' = maxBytes /\ ageCap' = ageCap
      /\ disk' = disk /\ inv' = inv /\ total' = total /\ deleted' = deleted /\ skipped' = skipped
  BY DEF Classify, Classified, inputs, results
<1>4. \A f : ForBytes(f)' <=> ForBytes(f)
  BY <1>3 DEF ForBytes, AgeHit, MediaOrphan
<1>5. CASE Classify /\ eligible' = eligible /\ current' = current
  <2>1. pass' = "first"
    BY <1>5 DEF Classify
  <2>2. NoneInVain'
    <3>1. {g \in eligible' : TRUE} = eligible
      BY <1>5
    <3> QED BY <1>3, <1>4, <1>5 DEF NoneInVain
  <2>3. TallyInv'
    BY <1>1, <1>3, <1>5, <2>1 DEF TallyInv
  <2> QED BY <2>2, <2>3
<1>6. CASE Classify /\ ~ (eligible' = eligible /\ current' = current)
  <2>1. pos \in inv /\ Hit(pos) /\ eligible' = eligible \cup {pos} /\ current' = current - size[pos]
    BY <1>6 DEF Classify
  <2>2. pass' = "first" /\ pos' = pos + 1 /\ pos \notin eligible /\ pos \in Files /\ size[pos] \in Nat
    BY <1>0, <1>1, <1>2, <1>6, <2>1, Sizing DEF Classify
  <2>3. Summed(size, eligible \cup {pos}) = Summed(size, eligible) + size[pos]
    BY <1>0, <1>2, <2>2, Sums
  <2> DEFINE rest == inv \ (eligible \cup {pos})
  <2>4. rest \in SUBSET Files /\ pos \notin rest /\ inv \ eligible = rest \cup {pos}
    BY <1>2, <2>1, <2>2
  <2>5. Summed(size, inv \ eligible) = Summed(size, rest) + size[pos]
    <3> HIDE DEF rest
    <3> QED BY <1>0, <2>2, <2>4, Sums
  <2>6. Summed(size, rest) \in Nat /\ Summed(size, eligible) \in Nat /\ Summed(size, inv) \in Nat
    <3> HIDE DEF rest
    <3> QED BY <1>0, <1>2, <2>4, Sums
  <2>7. current' = Summed(size, rest)
    <3> HIDE DEF rest
    <3> QED BY <1>1, <2>1, <2>2, <2>5, <2>6
  <2>8. current' = Summed(size', inv' \ eligible')
    BY <1>3, <2>1, <2>7
  <2>9. current' + Summed(size', eligible') = Summed(size', inv')
    <3>1. current \in Int
      BY <1>0 DEF TypeOK
    <3>2. current' + (Summed(size, eligible) + size[pos]) = Summed(size, inv)
      BY <1>1, <2>1, <2>2, <2>6, <3>1
    <3> QED BY <1>3, <2>1, <2>3, <3>2
  <2>10. TallyInv'
    BY <1>1, <1>3, <2>2, <2>8, <2>9 DEF TallyInv
  <2>11. NoneInVain'
    <3> SUFFICES ASSUME NEW f \in eligible', ForBytes(f)
                 PROVE  Summed(size, inv) - Summed(size, {g \in eligible' : g < f}) > maxBytes
      BY <1>3, <1>4 DEF NoneInVain
    <3>1. CASE f \in eligible
      <4>1. {g \in eligible' : g < f} = {g \in eligible : g < f}
        BY <1>1, <1>2, <2>1, <3>1
      <4> QED BY <3>1, <4>1 DEF NoneInVain
    <3>2. CASE f = pos
      <4>1. {g \in eligible' : g < f} = eligible
        <5>1. \A g \in eligible \cup {pos} : g < pos <=> g \in eligible
          BY <1>1, <1>2, <2>2
        <5> QED BY <2>1, <3>2, <5>1
      <4>2. maxBytes > 0 /\ current > maxBytes
        BY <2>1, <3>2 DEF Hit, ByteHit, ForBytes
      <4>3. current \in Int /\ maxBytes \in Nat
        BY <1>0, Sizing DEF TypeOK
      <4>4. Summed(size, inv) - Summed(size, eligible) = current
        BY <1>1, <2>6, <4>3
      <4> QED BY <4>1, <4>2, <4>4
    <3> QED BY <2>1, <3>1, <3>2
  <2> QED BY <2>10, <2>11
<1>7. CASE Classified
  <2>1. pos = N + 1 /\ pass' = "second" /\ pos' = 1 /\ eligible' = eligible /\ current' = current
    BY <1>7 DEF Classified, results
  <2>2. NoneInVain'
    BY <1>3, <1>4, <2>1 DEF NoneInVain
  <2>3. \A f \in inv \ eligible : age[f] = Fresh \/ maxBytes = 0 \/ current <= maxBytes
    BY <1>0, <1>1, <1>2, <2>1 DEF Swept, Files
  <2>4. inv \ deleted = inv
    BY <1>1
  <2>5. \A f \in eligible' : ~ (f < pos')
    BY <1>2, <2>1 DEF Files
  <2>6. TallyInv'
    BY <1>1, <1>3, <2>1, <2>3, <2>4, <2>5 DEF TallyInv
  <2> QED BY <2>2, <2>6
<1> QED BY <1>5, <1>6, <1>7

\* The second pass takes the bytes of what it deletes off the total (evictEligible).
LEMMA SecondTallies ==
    IInv /\ TallyInv /\ NoneInVain /\ (PassOver \/ Delete \/ Refused \/ HitsCap \/ Finishes \/ Cancelled)
        => (TallyInv /\ NoneInVain)'
<1> SUFFICES ASSUME IInv, TallyInv, NoneInVain,
                    PassOver \/ Delete \/ Refused \/ HitsCap \/ Finishes \/ Cancelled
             PROVE  (TallyInv /\ NoneInVain)'
  OBVIOUS
<1>0. TypeOK /\ Ahead /\ Sets /\ N \in Nat
  BY EvictionAssumption DEF IInv, TypeOK
<1>1. UNCHANGED <<age, size, maxBytes, ageCap, inv, current, eligible>>
  BY DEF PassOver, Delete, Refused, HitsCap, Finishes, Cancelled, SecondFrame, inputs
<1>2. pass = "second" /\ pass' \in {"second", "done", "stopped"}
  BY DEF PassOver, Delete, Refused, HitsCap, Finishes, Cancelled, AtFile
<1>3. /\ current = Summed(size, inv \ eligible) /\ current + Summed(size, eligible) = Summed(size, inv)
      /\ total = Summed(size, inv \ deleted)
      /\ \A f \in inv \ eligible : age[f] = Fresh \/ maxBytes = 0 \/ current <= maxBytes
      /\ skipped = {} => disk = inv \ deleted
  BY <1>2 DEF TallyInv
<1>a. \A f \in eligible : f < pos => f \in deleted \cup skipped
  BY <1>2 DEF TallyInv
<1>4. inv \in SUBSET Files /\ eligible \subseteq inv /\ deleted \subseteq eligible /\ pos \in Nat /\ Files \subseteq Nat
  BY <1>0 DEF Sets, TypeOK, Files
<1>5. NoneInVain'
  <2>1. \A f : ForBytes(f)' <=> ForBytes(f)
    BY <1>1 DEF ForBytes, AgeHit, MediaOrphan
  <2> QED BY <1>1, <2>1 DEF NoneInVain
<1>6. CASE Delete
  <2>1. pos \in eligible /\ pos \notin deleted /\ pos \in Files /\ size[pos] \in Nat
    BY <1>0, <1>2, <1>4, <1>6, Sizing DEF Delete, AtFile, Ahead
  <2>2. /\ deleted' = deleted \cup {pos} /\ total' = total - size[pos] /\ disk' = disk \ {pos}
        /\ skipped' = skipped /\ pos' = pos + 1 /\ pass' = "second"
    BY <1>2, <1>6 DEF Delete
  <2> DEFINE rest == inv \ (deleted \cup {pos})
  <2>3. rest \in SUBSET Files /\ pos \notin rest /\ inv \ deleted = rest \cup {pos}
    BY <1>4, <2>1
  <2>4. total' = Summed(size, rest)
    <3> HIDE DEF rest
    <3>1. Summed(size, inv \ deleted) = Summed(size, rest) + size[pos] /\ Summed(size, rest) \in Nat
      BY <1>0, <2>1, <2>3, Sums
    <3> QED BY <1>3, <2>1, <2>2, <3>1
  <2>5. total' = Summed(size', inv' \ deleted')
    BY <1>1, <2>2, <2>4
  <2>6. skipped' = {} => disk' = inv' \ deleted'
    BY <1>1, <1>3, <2>2
  <2>7. \A f \in eligible' : f < pos' => f \in deleted' \cup skipped'
    BY <1>1, <1>4, <1>a, <2>2
  <2> QED BY <1>1, <1>3, <1>5, <2>2, <2>5, <2>6, <2>7 DEF TallyInv
<1>7. CASE Refused
  <2>1. /\ skipped' = skipped \cup {pos} /\ pos' = pos + 1 /\ pass' = "second"
        /\ deleted' = deleted /\ total' = total
    BY <1>2, <1>7 DEF Refused
  <2>2. \A f \in eligible' : f < pos' => f \in deleted' \cup skipped'
    BY <1>1, <1>4, <1>a, <2>1
  <2>3. skipped' # {}
    BY <2>1
  <2> QED BY <1>1, <1>3, <1>5, <2>1, <2>2, <2>3 DEF TallyInv
<1>8. CASE PassOver \/ HitsCap \/ Finishes \/ Cancelled
  <2>1. UNCHANGED <<disk, total, deleted, skipped>>
    BY <1>8 DEF PassOver, HitsCap, Finishes, Cancelled
  <2>2. pass' = "second" => \A f \in eligible' : f < pos' => f \in deleted' \cup skipped'
    BY <1>1, <1>4, <1>8, <1>a, <2>1 DEF PassOver, HitsCap, Finishes, Cancelled, AtFile
  <2>3. pass' = "done" /\ ~ capHit' => eligible' \subseteq deleted' \cup skipped'
    <3>1. CASE HitsCap
      BY <3>1 DEF HitsCap
    <3>2. CASE Finishes
      <4>1. \A f \in eligible : f < pos
        BY <1>0, <1>4, <3>2 DEF Finishes, Files
      <4> QED BY <1>1, <1>a, <2>1, <4>1
    <3>3. CASE PassOver \/ Cancelled
      BY <1>2, <3>3 DEF PassOver, Cancelled
    <3> QED BY <1>8, <3>1, <3>2, <3>3
  <2> QED BY <1>1, <1>2, <1>3, <1>5, <2>1, <2>2, <2>3 DEF TallyInv
<1> QED BY <1>6, <1>7, <1>8

LEMMA TickTallies == IInv /\ TallyInv /\ NoneInVain /\ NextTick => (TallyInv /\ NoneInVain)'
<1> SUFFICES ASSUME IInv, NextTick PROVE (TallyInv /\ NoneInVain)'
  OBVIOUS
<1>0. TypeOK /\ Sets
  BY DEF IInv, TypeOK
<1>1. pass' = "walk" /\ pos' = 1 /\ inv' = {} /\ total' = 0 /\ eligible' = {} /\ size' = size /\ disk' = disk
  BY DEF NextTick
<1>2. Summed(size, {}) = 0
  BY <1>0, Sums
<1>3. inv' = {f \in disk' : f < pos'}
  <2>1. \A f \in disk : ~ (f < 1)
    BY <1>0, EvictionAssumption DEF Sets, Files
  <2> QED BY <1>1, <2>1
<1> QED BY <1>1, <1>2, <1>3 DEF TallyInv, NoneInVain

LEMMA NextTally == IInv /\ TallyInv /\ NoneInVain /\ [Next]_vars => (TallyInv /\ NoneInVain)'
<1> SUFFICES ASSUME IInv, TallyInv, NoneInVain, [Next]_vars PROVE (TallyInv /\ NoneInVain)'
  OBVIOUS
<1>1. CASE Next
  BY <1>1, WalkTallies, FirstTallies, SecondTallies, TickTallies DEF Next, Eviction
<1>2. CASE UNCHANGED vars
  BY <1>2 DEF vars, inputs, results, TallyInv, NoneInVain, ForBytes, AgeHit, MediaOrphan
<1> QED BY <1>1, <1>2

\* A tick that nothing hindered leaves the directory within its byte cap, or with buckets
\* within their lag only, publishes the size on disk, and takes nothing in vain (evictEligible).
THEOREM UnderCap == Spec => []UnderCapUnlessHindered
<1>1. Spec => [](TallyInv /\ NoneInVain)
  <2>1. IInv /\ (TallyInv /\ NoneInVain) /\ [Next]_vars => (TallyInv /\ NoneInVain)'
    BY NextTally
  <2> QED BY <2>1, InitTally, Invariance, PTL DEF Spec
<1>2. IInv /\ TallyInv /\ NoneInVain => UnderCapUnlessHindered
  <2> SUFFICES ASSUME IInv, TallyInv, NoneInVain PROVE UnderCapUnlessHindered
    OBVIOUS
  <2>0. \A S : Bytes(S) = Summed(size, S)
    BY DEF Bytes, Summed
  <2>1. ASSUME pass = "done", skipped = {}, ~ capHit
        PROVE  total = Bytes(disk) /\ (maxBytes = 0 \/ total <= maxBytes \/ \A f \in disk : age[f] = Fresh)
    <3>1. deleted = eligible
      BY <2>1 DEF IInv, TypeOK, Sets, TallyInv
    <3>2. disk = inv \ eligible /\ total = Summed(size, disk) /\ current = total
      BY <2>1, <3>1 DEF TallyInv
    <3>3. \A f \in inv \ eligible : age[f] = Fresh \/ maxBytes = 0 \/ current <= maxBytes
      BY <2>1 DEF TallyInv
    <3> QED BY <2>0, <3>2, <3>3
  <2>2. \A f \in eligible : ForBytes(f) => Bytes(inv) - Bytes({g \in eligible : g < f}) > maxBytes
    BY <2>0 DEF NoneInVain
  <2> QED BY <2>1, <2>2 DEF UnderCapUnlessHindered
<1> QED BY <1>1, <1>2, Invariance, PTL

-----------------------------------------------------------------------------
(* Retention: while no two of them overlap, a tick or a PUT has what is in  *)
(* force, and nobody changes it under them.                                 *)

\* The status tells of the last tick that deleted something.
Latest == IF status = Pending THEN evictions = 0 ELSE status.evicted = evictions

NoPut == \A p \in Puts : ~ PutActive(p)

OneByOne ==
    /\ \A p, q \in Puts : PutActive(p) /\ PutActive(q) => p = q
    /\ tpc # "idle" => NoPut

\* What a tick has computed so far.
TickExact ==
    /\ tpc # "idle" => tick.running
    /\ tpc = "walked" => tick.evicted = 0
    /\ tpc \in {"idle", "walked"} => Latest
    /\ tpc = "evicted" => IF tick.evicted = 0 THEN Latest ELSE tick.evicted = evictions
    /\ tpc = "ready" => tick.evicted = evictions
    /\ tpc \in {"evicted", "ready"} => tick.cfg = retention

\* What a PUT has loaded.
PutExact ==
    \A p \in Puts :
        /\ ppc[p] \in {"loaded", "ready"} => pcfg[p] = retention
        /\ ppc[p] = "ready" => pprev[p] = status

Published == ticked => status.running /\ (NoPut => status.cfg = retention)

StatusInv == StatusTypeOK /\ (~ overlapped => OneByOne /\ TickExact /\ PutExact /\ Published)

LEMMA InitStatus == StatusInit => StatusInv
<1> SUFFICES ASSUME StatusInit PROVE StatusInv
  OBVIOUS
<1>1. \A c \in Retentions : Baseline(c) \in Statuses /\ Baseline(c).evicted = 0
  BY RetentionAssumption DEF Baseline, Statuses
<1>2. Off \in Retentions /\ Configs \subseteq Retentions
  BY DEF Retentions
<1>3. /\ retention \in Retentions /\ status \in Statuses \cup {Pending}
      /\ status # Pending => status.evicted = 0
  BY <1>1, <1>2, RetentionAssumption DEF StatusInit
<1>4. StatusTypeOK
  <2>1. tick \in Statuses /\ evictions \in 0..MaxEvictions
    BY <1>1, <1>2, RetentionAssumption DEF StatusInit
  <2>2. /\ ppc \in [Puts -> {"new", "swapped", "loaded", "ready", "done"}]
        /\ pcfg \in [Puts -> Retentions] /\ pprev \in [Puts -> Statuses \cup {Pending}]
    BY <1>2 DEF StatusInit
  <2> QED BY <1>3, <2>1, <2>2 DEF StatusInit, StatusTypeOK
<1>5. OneByOne /\ TickExact /\ PutExact /\ Published
  BY <1>3 DEF StatusInit, OneByOne, NoPut, PutActive, TickExact, Latest, PutExact, Published
<1> QED BY <1>4, <1>5 DEF StatusInv

\* The steps of a tick.
LEMMA TickKeepsStatus == ASSUME StatusInv, Tick PROVE StatusInv'
<1>0. /\ evictions \in Nat /\ evictions \in 0..MaxEvictions /\ MaxEvictions \in Nat /\ MaxBytes \in Nat
      /\ bytes \in 0..MaxBytes /\ tick \in Statuses /\ retention \in Retentions
      /\ status \in Statuses \cup {Pending} /\ Pending \notin Statuses
      /\ tick.bytes \in 0..MaxBytes /\ tick.evicted \in 0..MaxEvictions
      /\ tick.cfg \in Retentions /\ tick.running \in BOOLEAN
  BY RetentionAssumption DEF StatusInv, StatusTypeOK, Statuses
<1>1. UNCHANGED <<retention, putVars>> /\ NoPut' = NoPut
  BY DEF Tick, TickWalks, TickEvicts, TickCarries, TickStores, TickFrame, NoPut, PutActive, putVars
<1>2. CASE TickWalks
  <2>1. tick' = [Baseline(Off) EXCEPT !.bytes = bytes, !.running = TRUE]
    BY <1>2 DEF TickWalks
  <2>2. tick' \in Statuses /\ tick'.evicted = 0 /\ tick'.running
    <3>1. tick' = [cfg |-> Off, bytes |-> bytes, evicted |-> 0, running |-> TRUE]
      BY <2>1 DEF Baseline
    <3>2. Off \in Retentions /\ 0 \in 0..MaxEvictions
      BY <1>0 DEF Retentions
    <3> QED BY <1>0, <3>1, <3>2 DEF Statuses
  <2>3. /\ tpc = "idle" /\ tpc' = "walked" /\ UNCHANGED <<status, bytes, evictions, ticked>>
        /\ overlapped' = (overlapped \/ Busy)
    BY <1>2 DEF TickWalks, world
  <2>4. StatusTypeOK'
    BY <1>1, <2>2, <2>3 DEF StatusInv, StatusTypeOK, putVars, Busy
  <2>5. ASSUME ~ overlapped' PROVE (OneByOne /\ TickExact /\ PutExact /\ Published)'
    <3>1. ~ overlapped /\ NoPut
      BY <2>3, <2>5 DEF Busy, NoPut
    <3> QED BY <1>1, <2>2, <2>3, <3>1 DEF StatusInv, OneByOne, TickExact, PutExact, Published, Latest,
                                          PutActive, putVars
  <2> QED BY <2>4, <2>5 DEF StatusInv
<1>3. CASE TickEvicts
  <2>1. tpc = "walked" /\ tpc' = "evicted" /\ UNCHANGED <<status, ticked, overlapped>>
    BY <1>3 DEF TickEvicts
  <2>2. \/ tick' = [tick EXCEPT !.cfg = retention] /\ UNCHANGED <<bytes, evictions>>
        \/ /\ evictions < MaxEvictions /\ evictions' = evictions + 1 /\ bytes' \in 0..MaxBytes
           /\ \E b \in 0..tick.bytes :
                tick' = [tick EXCEPT !.cfg = retention, !.bytes = b, !.evicted = evictions + 1]
    <3>1. CASE tick' = [tick EXCEPT !.cfg = retention] /\ UNCHANGED world
      BY <3>1 DEF world
    <3>2. ASSUME NEW b \in 0..tick.bytes, evictions < MaxEvictions, evictions' = evictions + 1,
                 bytes' = IF bytes >= tick.bytes - b THEN bytes - (tick.bytes - b) ELSE 0,
                 tick' = [tick EXCEPT !.cfg = retention, !.bytes = b, !.evicted = evictions + 1]
          PROVE  bytes' \in 0..MaxBytes
      <4>1. b \in Nat /\ b <= tick.bytes /\ tick.bytes \in Nat /\ bytes \in Nat /\ bytes <= MaxBytes
        BY <1>0
      <4>2. bytes' \in Nat /\ bytes' <= bytes
        BY <3>2, <4>1
      <4> QED BY <1>0, <4>1, <4>2
    <3> QED BY <1>3, <3>1, <3>2 DEF TickEvicts
  <2>3. /\ tick' \in Statuses /\ tick'.cfg = retention /\ tick'.running = tick.running
        /\ evictions' \in 0..MaxEvictions /\ bytes' \in 0..MaxBytes
        /\ \/ tick'.evicted = tick.evicted /\ evictions' = evictions
           \/ tick'.evicted = evictions + 1 /\ evictions' = evictions + 1
    <3>1. CASE tick' = [tick EXCEPT !.cfg = retention] /\ UNCHANGED <<bytes, evictions>>
      BY <1>0, <3>1 DEF Statuses
    <3>2. ASSUME evictions < MaxEvictions, evictions' = evictions + 1, bytes' \in 0..MaxBytes,
                 NEW b \in 0..tick.bytes,
                 tick' = [tick EXCEPT !.cfg = retention, !.bytes = b, !.evicted = evictions + 1]
          PROVE  /\ tick' \in Statuses /\ tick'.cfg = retention /\ tick'.running = tick.running
                 /\ evictions' \in 0..MaxEvictions /\ tick'.evicted = evictions + 1
      <4>1. b \in 0..MaxBytes /\ evictions + 1 \in 0..MaxEvictions
        BY <1>0, <3>2
      <4> QED BY <1>0, <3>2, <4>1 DEF Statuses
    <3> QED BY <2>2, <3>1, <3>2
  <2>4. StatusTypeOK'
    BY <1>1, <2>1, <2>3 DEF StatusInv, StatusTypeOK, putVars
  <2>5. ASSUME ~ overlapped' PROVE (OneByOne /\ TickExact /\ PutExact /\ Published)'
    BY <1>0, <1>1, <2>1, <2>3, <2>5
       DEF StatusInv, OneByOne, TickExact, PutExact, Published, Latest, PutActive, putVars
  <2> QED BY <2>4, <2>5 DEF StatusInv
<1>4. CASE TickCarries
  <2>1. tpc = "evicted" /\ tpc' = "ready" /\ UNCHANGED <<status, bytes, evictions, ticked, overlapped>>
    BY <1>4 DEF TickCarries, world
  <2>2. tick' = IF tick.evicted = 0 /\ status # Pending THEN [tick EXCEPT !.evicted = status.evicted] ELSE tick
    BY <1>4 DEF TickCarries
  <2>3. /\ tick' \in Statuses /\ tick'.cfg = tick.cfg /\ tick'.running = tick.running
        /\ tick'.evicted = IF tick.evicted = 0 /\ status # Pending THEN status.evicted ELSE tick.evicted
    BY <1>0, <2>2 DEF Statuses
  <2>4. StatusTypeOK'
    BY <1>1, <2>1, <2>3 DEF StatusInv, StatusTypeOK, putVars
  <2>5. ASSUME ~ overlapped' PROVE (OneByOne /\ TickExact /\ PutExact /\ Published)'
    BY <1>1, <2>1, <2>3, <2>5
       DEF StatusInv, OneByOne, TickExact, PutExact, Published, Latest, PutActive, putVars
  <2> QED BY <2>4, <2>5 DEF StatusInv
<1>5. CASE TickStores
  <2>1. /\ tpc = "ready" /\ tpc' = "idle" /\ UNCHANGED <<tick, bytes, evictions, overlapped>>
        /\ status' = tick /\ ticked' = TRUE
    BY <1>5 DEF TickStores, world
  <2>2. status' \in Statuses /\ status' # Pending
    BY <1>0, <2>1
  <2>3. StatusTypeOK'
    BY <1>1, <2>1, <2>2 DEF StatusInv, StatusTypeOK, putVars
  <2>4. ASSUME ~ overlapped' PROVE (OneByOne /\ TickExact /\ PutExact /\ Published)'
    <3>1. NoPut /\ NoPut'
      BY <1>1, <2>1, <2>4 DEF StatusInv, OneByOne
    <3>2. \A p \in Puts : ppc[p] \notin {"loaded", "ready"}
      BY <3>1 DEF NoPut, PutActive
    <3> QED BY <1>1, <2>1, <2>2, <2>4, <3>1, <3>2
            DEF StatusInv, OneByOne, TickExact, PutExact, Published, Latest, PutActive, putVars
  <2> QED BY <2>3, <2>4 DEF StatusInv
<1> QED BY <1>2, <1>3, <1>4, <1>5 DEF Tick

\* The steps of a PUT.
LEMMA PutKeepsStatus ==
    ASSUME StatusInv, NEW p \in Puts, PutRefused(p) \/ PutSwaps(p) \/ Put(p)
    PROVE  StatusInv'
<1>0. /\ status \in Statuses \cup {Pending} /\ Pending \notin Statuses /\ retention \in Retentions
      /\ ppc \in [Puts -> {"new", "swapped", "loaded", "ready", "done"}]
      /\ pcfg \in [Puts -> Retentions] /\ pprev \in [Puts -> Statuses \cup {Pending}]
  BY RetentionAssumption DEF StatusInv, StatusTypeOK
<1>1. UNCHANGED <<bytes, evictions, tpc, tick, ticked>>
  BY DEF PutRefused, PutSwaps, Put, PutLoadsConfig, PutLoadsStatus, PutStores, PutFrame, world, tickVars
<1>2. CASE PutRefused(p)
  <2>1. /\ ppc[p] = "new" /\ ppc' = [ppc EXCEPT ![p] = "done"]
        /\ UNCHANGED <<retention, status, pcfg, pprev, overlapped>>
    BY <1>2 DEF PutRefused, PutMoves
  <2>2. /\ ppc' \in [Puts -> {"new", "swapped", "loaded", "ready", "done"}]
        /\ \A q \in Puts : PutActive(q)' = PutActive(q) /\ (ppc'[q] \in {"loaded", "ready"} => ppc'[q] = ppc[q])
    BY <1>0, <2>1 DEF PutActive
  <2>3. NoPut' = NoPut
    BY <2>2 DEF NoPut
  <2>4. StatusTypeOK'
    BY <1>1, <2>1, <2>2 DEF StatusInv, StatusTypeOK
  <2>5. ASSUME ~ overlapped' PROVE (OneByOne /\ TickExact /\ PutExact /\ Published)'
    BY <1>1, <2>1, <2>2, <2>3, <2>5 DEF StatusInv, OneByOne, TickExact, PutExact, Published, Latest
  <2> QED BY <2>4, <2>5 DEF StatusInv
<1>3. CASE PutSwaps(p)
  <2>1. /\ ppc[p] = "new" /\ ppc' = [ppc EXCEPT ![p] = "swapped"] /\ retention' \in Retentions
        /\ UNCHANGED <<status, pcfg, pprev>> /\ overlapped' = (overlapped \/ Busy)
    BY <1>3 DEF PutSwaps, PutMoves
  <2>2. /\ ppc' \in [Puts -> {"new", "swapped", "loaded", "ready", "done"}]
        /\ ppc'[p] = "swapped" /\ \A q \in Puts : q # p => ppc'[q] = ppc[q]
    BY <1>0, <2>1
  <2>3. StatusTypeOK'
    BY <1>1, <2>1, <2>2 DEF StatusInv, StatusTypeOK, Busy
  <2>4. ASSUME ~ overlapped' PROVE (OneByOne /\ TickExact /\ PutExact /\ Published)'
    <3>1. ~ overlapped /\ tpc = "idle" /\ NoPut
      BY <2>1, <2>4 DEF Busy, NoPut
    <3>2. ~ NoPut' /\ \A q \in Puts : PutActive(q)' => q = p
      BY <2>2, <3>1 DEF NoPut, PutActive
    <3>3. \A q \in Puts : ppc'[q] \notin {"loaded", "ready"}
      BY <2>2, <3>1 DEF NoPut, PutActive
    <3> QED BY <1>1, <2>1, <3>1, <3>2, <3>3 DEF StatusInv, OneByOne, TickExact, PutExact, Published, Latest
  <2> QED BY <2>3, <2>4 DEF StatusInv
<1>4. CASE PutLoadsConfig(p) \/ PutLoadsStatus(p)
  <2>1. /\ UNCHANGED <<retention, status, overlapped>>
        /\ \/ /\ ppc[p] = "swapped" /\ ppc' = [ppc EXCEPT ![p] = "loaded"]
              /\ pcfg' = [pcfg EXCEPT ![p] = retention] /\ pprev' = pprev
           \/ /\ ppc[p] = "loaded" /\ ppc' = [ppc EXCEPT ![p] = "ready"]
              /\ pprev' = [pprev EXCEPT ![p] = status] /\ pcfg' = pcfg
    BY <1>4 DEF PutLoadsConfig, PutLoadsStatus, PutMoves
  <2>2. /\ ppc' \in [Puts -> {"new", "swapped", "loaded", "ready", "done"}]
        /\ pcfg' \in [Puts -> Retentions] /\ pprev' \in [Puts -> Statuses \cup {Pending}]
        /\ \A q \in Puts : PutActive(q)' = PutActive(q)
        /\ \A q \in Puts : q # p => ppc'[q] = ppc[q] /\ pcfg'[q] = pcfg[q] /\ pprev'[q] = pprev[q]
    BY <1>0, <2>1 DEF PutActive
  <2>3. /\ ppc'[p] = "loaded" => pcfg'[p] = retention
        /\ ppc'[p] = "ready" => pcfg'[p] = pcfg[p] /\ pprev'[p] = status /\ ppc[p] = "loaded"
        /\ ppc'[p] \in {"loaded", "ready"}
    BY <1>0, <2>1
  <2>4. NoPut' = NoPut
    BY <2>2 DEF NoPut
  <2>5. StatusTypeOK'
    BY <1>1, <2>1, <2>2 DEF StatusInv, StatusTypeOK
  <2>6. ASSUME ~ overlapped' PROVE (OneByOne /\ TickExact /\ PutExact /\ Published)'
    <3>1. PutExact'
      BY <2>1, <2>2, <2>3, <2>6 DEF StatusInv, PutExact
    <3> QED BY <1>1, <2>1, <2>2, <2>4, <2>6, <3>1 DEF StatusInv, OneByOne, TickExact, Published, Latest
  <2> QED BY <2>5, <2>6 DEF StatusInv
<1>5. CASE PutStores(p)
  <2>1. /\ ppc[p] = "ready" /\ ppc' = [ppc EXCEPT ![p] = "done"] /\ status' = Recomputed(p)
        /\ UNCHANGED <<retention, pcfg, pprev, overlapped>>
    BY <1>5 DEF PutStores, PutMoves
  <2>2. /\ ppc' \in [Puts -> {"new", "swapped", "loaded", "ready", "done"}]
        /\ ppc'[p] = "done" /\ \A q \in Puts : q # p => ppc'[q] = ppc[q]
    BY <1>0, <2>1
  <2>3. /\ status' \in Statuses /\ status' # Pending /\ status'.cfg = pcfg[p]
        /\ pprev[p] = Pending => status'.evicted = 0
        /\ pprev[p] # Pending => status'.evicted = pprev[p].evicted /\ status'.running = pprev[p].running
    <3>1. pcfg[p] \in Retentions /\ pprev[p] \in Statuses \cup {Pending}
      BY <1>0
    <3>2. CASE pprev[p] = Pending
      <4>1. status' = [cfg |-> pcfg[p], bytes |-> 0, evicted |-> 0, running |-> FALSE]
        BY <2>1, <3>2 DEF Recomputed, Baseline
      <4>2. status' \in Statuses
        BY <3>1, <4>1, RetentionAssumption DEF Statuses
      <4> QED BY <1>0, <3>2, <4>1, <4>2
    <3>3. CASE pprev[p] # Pending
      <4>1. status' = [pprev[p] EXCEPT !.cfg = pcfg[p]] /\ pprev[p] \in Statuses
        BY <2>1, <3>1, <3>3 DEF Recomputed
      <4>2. status' \in Statuses /\ status'.cfg = pcfg[p]
            /\ status'.evicted = pprev[p].evicted /\ status'.running = pprev[p].running
        BY <3>1, <4>1 DEF Statuses
      <4> QED BY <1>0, <3>3, <4>2
    <3> QED BY <3>2, <3>3
  <2>4. StatusTypeOK'
    BY <1>1, <2>1, <2>2, <2>3 DEF StatusInv, StatusTypeOK
  <2>5. ASSUME ~ overlapped' PROVE (OneByOne /\ TickExact /\ PutExact /\ Published)'
    <3>1. PutActive(p) /\ tpc = "idle" /\ \A q \in Puts : PutActive(q) => q = p
      BY <2>1, <2>5 DEF StatusInv, OneByOne, NoPut, PutActive
    <3>2. NoPut' /\ \A q \in Puts : ppc'[q] \notin {"loaded", "ready"}
      BY <2>2, <3>1 DEF NoPut, PutActive
    <3>3. pcfg[p] = retention /\ pprev[p] = status /\ Latest /\ Published
      BY <2>1, <2>5, <3>1 DEF StatusInv, PutExact, TickExact
    <3>4. Latest'
      BY <1>0, <1>1, <2>3, <3>3 DEF Latest
    <3>5. Published'
      <4>1. ticked => status # Pending
        BY DEF StatusInv, StatusTypeOK
      <4> QED BY <1>1, <2>1, <2>3, <3>3, <4>1 DEF Published
    <3> QED BY <1>1, <3>1, <3>2, <3>4, <3>5 DEF OneByOne, TickExact, PutExact, NoPut
  <2> QED BY <2>4, <2>5 DEF StatusInv
<1> QED BY <1>2, <1>3, <1>4, <1>5 DEF Put

LEMMA StepStatus == StatusInv /\ [StatusNext]_statusVars => StatusInv'
<1> SUFFICES ASSUME StatusInv, [StatusNext]_statusVars PROVE StatusInv'
  OBVIOUS
<1>1. CASE Traffic
  <2>1. UNCHANGED <<retention, status, evictions, tpc, tick, ppc, pcfg, pprev, ticked, overlapped>>
    BY <1>1 DEF Traffic, tickVars, putVars
  <2>2. bytes' \in 0..MaxBytes
    BY <1>1 DEF Traffic
  <2> QED BY <2>1, <2>2 DEF StatusInv, StatusTypeOK, OneByOne, NoPut, PutActive, TickExact, PutExact,
                            Published, Latest
<1>2. CASE UNCHANGED statusVars
  BY <1>2 DEF statusVars, world, tickVars, putVars, StatusInv, StatusTypeOK, OneByOne, NoPut, PutActive,
              TickExact, PutExact, Published, Latest
<1> QED BY <1>1, <1>2, TickKeepsStatus, PutKeepsStatus DEF StatusNext

\* Whatever ticks and PUTs do, the pointers hold configurations and statuses; and as long
\* as no two of them have overlapped, each has what is in force when it stores.
THEOREM StatusInvariance == StatusSpec => []StatusInv
BY InitStatus, StepStatus, PTL DEF StatusSpec

\* Retention's SerialStatusExact for any number of PUTs, configurations, bytes and
\* evictions: whenever neither a tick nor a PUT is under way, and no two have ever
\* overlapped, the status has, once a tick has published one, the thresholds in force,
\* the last eviction and the engine right (runTick, UpdateConfig, computeStatus).
THEOREM StatusIsExact == StatusSpec => []SerialStatusExact
<1>1. StatusInv => SerialStatusExact
  BY DEF StatusInv, StatusTypeOK, Published, TickExact, Latest, NoPut, Busy, SerialStatusExact
<1> QED BY <1>1, StatusInvariance, PTL

-----------------------------------------------------------------------------
(* Inventory: what the walk has measured so far, each form of a bucket once. *)

Logs == {"plain", "zip"}
Visited(k, t) == \E i \in 1..(at - 1) : KeyAt(i) = k /\ KindAt(i) = t
Part(k, t, x) == IF Visited(k, t) THEN x ELSE 0

\* A log of the bucket has been met.
Dates(k) == \E t \in Logs : Visited(k, t) /\ OnDisk(k)[t] # Absent

\* No more than what the files may have.
Bounded ==
    \A k \in Keys :
        /\ found[k].size <= Part(k, "plain", MaxSize) + Part(k, "zip", MaxSize)
        /\ found[k].media <= Part(k, "media", MaxSize)

\* A bucket that nobody has touched is as it was listed, and as far as it was visited as it
\* was measured.
QuietSoFar ==
    \A k \in Keys \ touched :
        /\ \A t \in {"media", "plain", "zip"} : <<k, t>> \in listed <=> OnDisk(k)[t] # Absent
        /\ found[k] = [size |-> Part(k, "plain", Actual(plain[k])) + Part(k, "zip", Actual(zip[k])),
                       dated |-> Dates(k),
                       media |-> Part(k, "media", Actual(media[k]))]

\* A log that was listed and is gone was removed by its gzip worker, and does not come back.
DatedSoFar ==
    \A k \in Keys, t \in Logs :
        <<k, t>> \in listed =>
            IF OnDisk(k)[t] = Absent THEN gz[k] = "closed" ELSE Visited(k, t) => found[k].dated

WalkInv == WalkTypeOK /\ (wpc = "walk" => Bounded /\ QuietSoFar /\ DatedSoFar)

\* The walk comes to each form of each bucket exactly once (KeyAt, KindAt).
LEMMA Entries ==
    /\ Last \in Nat
    /\ \A i \in 1..Last : KeyAt(i) \in Keys /\ KindAt(i) \in {"media", "plain", "zip"}
    /\ \A i, j \in 1..Last : KeyAt(i) = KeyAt(j) /\ KindAt(i) = KindAt(j) => i = j
    /\ \A k \in Keys, t \in {"media", "plain", "zip"} :
          \E i \in 1..Last : KeyAt(i) = k /\ KindAt(i) = t
<1>1. PICK n \in Nat : n = Len(KeyOrder)
  BY InventoryAssumption
<1>2. /\ \A x \in 1..n : KeyOrder[x] \in Keys
      /\ \A k \in Keys : \E x \in 1..n : KeyOrder[x] = k
      /\ \A x, y \in 1..n : KeyOrder[x] = KeyOrder[y] => x = y
  BY <1>1, InventoryAssumption
<1>3. /\ Len(Kinds) = 3 /\ Kinds[1] = "media" /\ Kinds[2] = "plain" /\ Kinds[3] = "zip"
  BY DEF Kinds
<1>4. /\ Last = 3 * n /\ 3 * n \in Nat
      /\ \A i : KeyAt(i) = KeyOrder[((i - 1) \div 3) + 1] /\ KindAt(i) = Kinds[((i - 1) % 3) + 1]
  BY <1>1, <1>3 DEF Last, KeyAt, KindAt
<1>5. ASSUME NEW i \in 1..(3 * n)
      PROVE  /\ ((i - 1) \div 3) + 1 \in 1..n /\ ((i - 1) % 3) + 1 \in 1..3
             /\ i = 3 * (((i - 1) \div 3) + 1 - 1) + (((i - 1) % 3) + 1)
  OBVIOUS
<1>6. ASSUME NEW x \in 1..n, NEW y \in 1..3
      PROVE  /\ 3 * (x - 1) + y \in 1..(3 * n)
             /\ (((3 * (x - 1) + y) - 1) \div 3) + 1 = x /\ (((3 * (x - 1) + y) - 1) % 3) + 1 = y
  OBVIOUS
<1>7. ASSUME NEW i \in 1..Last
      PROVE  KeyAt(i) \in Keys /\ KindAt(i) \in {"media", "plain", "zip"}
  <2>1. PICK x \in 1..n, y \in 1..3 : x = ((i - 1) \div 3) + 1 /\ y = ((i - 1) % 3) + 1
    BY <1>4, <1>5
  <2>2. KeyAt(i) = KeyOrder[x] /\ KindAt(i) = Kinds[y] /\ (y = 1 \/ y = 2 \/ y = 3)
    BY <1>4, <2>1
  <2> QED BY <1>2, <1>3, <2>2
<1>8. ASSUME NEW i \in 1..Last, NEW j \in 1..Last, KeyAt(i) = KeyAt(j), KindAt(i) = KindAt(j)
      PROVE  i = j
  <2>1. ((i - 1) \div 3) + 1 = ((j - 1) \div 3) + 1
    <3>1. PICK x \in 1..n, y \in 1..n : x = ((i - 1) \div 3) + 1 /\ y = ((j - 1) \div 3) + 1
      BY <1>4, <1>5
    <3>2. KeyOrder[x] = KeyOrder[y]
      BY <1>4, <1>8, <3>1
    <3> QED BY <1>2, <3>1, <3>2
  <2>2. \A y, z \in 1..3 : Kinds[y] = Kinds[z] => y = z
    BY <1>3
  <2>3. ((i - 1) % 3) + 1 = ((j - 1) % 3) + 1
    <3>1. PICK x \in 1..3, y \in 1..3 : x = ((i - 1) % 3) + 1 /\ y = ((j - 1) % 3) + 1
      BY <1>4, <1>5
    <3>2. Kinds[x] = Kinds[y]
      BY <1>4, <1>8, <3>1
    <3> QED BY <2>2, <3>1, <3>2
  <2> QED BY <1>4, <1>5, <2>1, <2>3
<1>9. ASSUME NEW k \in Keys, NEW t \in {"media", "plain", "zip"}
      PROVE  \E i \in 1..Last : KeyAt(i) = k /\ KindAt(i) = t
  <2>1. PICK x \in 1..n : KeyOrder[x] = k
    BY <1>2
  <2>2. PICK y \in 1..3 : Kinds[y] = t
    BY <1>3
  <2>3. PICK i : i = 3 * (x - 1) + y
    OBVIOUS
  <2>4. i \in 1..Last /\ ((i - 1) \div 3) + 1 = x /\ ((i - 1) % 3) + 1 = y
    BY <1>4, <1>6, <2>3
  <2>5. KeyAt(i) = k /\ KindAt(i) = t
    BY <1>4, <2>1, <2>2, <2>4
  <2> QED BY <2>4, <2>5
<1> QED BY <1>4, <1>7, <1>8, <1>9

\* What stat finds of a form.
LEMMA OnDiskIs ==
    ASSUME NEW k
    PROVE  /\ OnDisk(k)["media"] = media[k] /\ OnDisk(k)["plain"] = plain[k] /\ OnDisk(k)["zip"] = zip[k]
  BY DEF OnDisk

LEMMA InitWalk == WalkInit => WalkInv
<1> SUFFICES ASSUME WalkInit PROVE WalkInv
  OBVIOUS
<1>1. MaxSize \in Nat /\ Last \in Nat
  BY InventoryAssumption, Entries
<1> QED BY <1>1 DEF WalkInit, WalkInv, WalkTypeOK, Unseen, Absent

\* The writer and the gzip worker leave what the walk knows of the other buckets.
LEMMA WriterKeepsWalk ==
    ASSUME WalkInv, NEW k \in Keys,
           AppendLine(k) \/ Extract(k) \/ GzipOpens(k) \/ GzipCopies(k) \/ GzipUnlinks(k)
    PROVE  WalkInv'
<1>0. /\ MaxSize \in Nat \ {0} /\ Absent = -1
      /\ plain \in [Keys -> Absent..MaxSize] /\ zip \in [Keys -> Absent..MaxSize]
      /\ media \in [Keys -> Absent..MaxSize] /\ gz \in [Keys -> {"open", "copying", "copied", "closed"}]
  BY InventoryAssumption DEF WalkInv, WalkTypeOK, Absent
<1>1. UNCHANGED <<wpc, at, listed, found>> /\ touched' = touched \cup {k}
  BY DEF AppendLine, Extract, GzipOpens, GzipCopies, GzipUnlinks, Touch, walk
<1>2. \A j, t : Visited(j, t)' = Visited(j, t)
  BY <1>1 DEF Visited
<1>3. /\ plain' \in [Keys -> Absent..MaxSize] /\ zip' \in [Keys -> Absent..MaxSize]
      /\ media' \in [Keys -> Absent..MaxSize] /\ gz' \in [Keys -> {"open", "copying", "copied", "closed"}]
      /\ \A j \in Keys : j # k => plain'[j] = plain[j] /\ zip'[j] = zip[j] /\ media'[j] = media[j]
                                  /\ gz'[j] = gz[j]
      /\ gz[k] # "closed"
      /\ plain'[k] = Absent => plain[k] = Absent \/ gz'[k] = "closed"
      /\ zip'[k] = Absent => zip[k] = Absent \/ gz'[k] = "closed"
  <2>1. CASE AppendLine(k)
    BY <1>0, <2>1 DEF AppendLine
  <2>2. CASE Extract(k)
    BY <1>0, <2>2 DEF Extract
  <2>3. CASE GzipOpens(k)
    BY <1>0, <2>3 DEF GzipOpens
  <2>4. CASE GzipCopies(k)
    BY <1>0, <2>4 DEF GzipCopies
  <2>5. CASE GzipUnlinks(k)
    BY <1>0, <2>5 DEF GzipUnlinks
  <2> QED BY <2>1, <2>2, <2>3, <2>4, <2>5
<1>4. WalkTypeOK'
  BY <1>1, <1>3 DEF WalkInv, WalkTypeOK
<1>5. ASSUME wpc' = "walk" PROVE (Bounded /\ QuietSoFar /\ DatedSoFar)'
  <2>1. Bounded /\ QuietSoFar /\ DatedSoFar
    BY <1>1, <1>5 DEF WalkInv
  <2>2. Bounded'
    BY <1>1, <1>2, <2>1 DEF Bounded, Part
  <2>3. \A j \in Keys : j # k => \A t \in {"media", "plain", "zip"} : OnDisk(j)'[t] = OnDisk(j)[t]
    BY <1>3 DEF OnDisk
  <2>4. QuietSoFar'
    <3> SUFFICES ASSUME NEW j \in Keys \ touched'
                 PROVE  /\ \A t \in {"media", "plain", "zip"} : <<j, t>> \in listed' <=> OnDisk(j)'[t] # Absent
                        /\ found'[j] =
                              [size |-> Part(j, "plain", Actual(plain[j]))' + Part(j, "zip", Actual(zip[j]))',
                               dated |-> Dates(j)', media |-> Part(j, "media", Actual(media[j]))']
      BY DEF QuietSoFar
    <3>1. j \in Keys \ touched /\ j # k
      BY <1>1
    <3>2. /\ \A t \in {"media", "plain", "zip"} : <<j, t>> \in listed <=> OnDisk(j)[t] # Absent
          /\ found[j] = [size |-> Part(j, "plain", Actual(plain[j])) + Part(j, "zip", Actual(zip[j])),
                         dated |-> Dates(j), media |-> Part(j, "media", Actual(media[j]))]
      BY <2>1, <3>1 DEF QuietSoFar
    <3>3. Dates(j)' = Dates(j)
      BY <1>2, <2>3, <3>1 DEF Dates, Logs
    <3>4. plain'[j] = plain[j] /\ zip'[j] = zip[j] /\ media'[j] = media[j]
      BY <1>3, <3>1
    <3>5. /\ Part(j, "plain", Actual(plain[j]))' = Part(j, "plain", Actual(plain[j]))
          /\ Part(j, "zip", Actual(zip[j]))' = Part(j, "zip", Actual(zip[j]))
          /\ Part(j, "media", Actual(media[j]))' = Part(j, "media", Actual(media[j]))
      BY <1>2, <3>4 DEF Part, Actual
    <3> QED BY <1>1, <2>3, <3>1, <3>2, <3>3, <3>5
  <2>5. DatedSoFar'
    <3> SUFFICES ASSUME NEW j \in Keys, NEW t \in Logs, <<j, t>> \in listed'
                 PROVE  IF OnDisk(j)'[t] = Absent THEN gz'[j] = "closed" ELSE Visited(j, t)' => found'[j].dated
      BY DEF DatedSoFar
    <3>1. IF OnDisk(j)[t] = Absent THEN gz[j] = "closed" ELSE Visited(j, t) => found[j].dated
      BY <1>1, <2>1 DEF DatedSoFar
    <3>2. CASE j # k
      <4>1. OnDisk(j)'[t] = OnDisk(j)[t] /\ gz'[j] = gz[j]
        BY <1>3, <2>3, <3>2 DEF Logs
      <4> QED BY <1>1, <1>2, <3>1, <4>1
    <3>3. CASE j = k
      <4>1. OnDisk(k)[t] # Absent
        BY <1>3, <3>1, <3>3
      <4>2. OnDisk(k)'[t] = Absent => gz'[k] = "closed"
        BY <1>3, <4>1 DEF OnDisk, Logs
      <4> QED BY <1>1, <1>2, <3>1, <3>3, <4>1, <4>2
    <3> QED BY <3>2, <3>3
  <2> QED BY <2>2, <2>4, <2>5
<1> QED BY <1>4, <1>5 DEF WalkInv

LEMMA ListsKeepsWalk == ASSUME WalkInv, ListsDay PROVE WalkInv'
<1>1. /\ wpc' = "walk" /\ at' = 1 /\ listed' = Listing /\ touched' = {}
      /\ found' = [k \in Keys |-> Unseen]
      /\ UNCHANGED <<plain, zip, media, gz>>
  BY DEF ListsDay, dayFiles
<1>2. \A k, t : ~ Visited(k, t)'
  BY <1>1 DEF Visited
<1>3. MaxSize \in Nat /\ Last \in Nat
  BY InventoryAssumption, Entries
<1>4. listed' \subseteq Keys \X {"media", "plain", "zip"}
  BY <1>1 DEF Listing
<1>5. WalkTypeOK'
  BY <1>1, <1>3, <1>4 DEF WalkInv, WalkTypeOK, Unseen
<1>6. \A k \in Keys, t \in {"media", "plain", "zip"} : <<k, t>> \in listed' <=> OnDisk(k)'[t] # Absent
  <2>1. \A k \in Keys, t \in {"media", "plain", "zip"} : <<k, t>> \in Listing <=> OnDisk(k)[t] # Absent
    BY DEF Listing
  <2>2. \A k : OnDisk(k)' = OnDisk(k)
    BY <1>1 DEF OnDisk
  <2> QED BY <1>1, <2>1, <2>2
<1>7. \A k \in Keys : found'[k] = [size |-> 0, dated |-> FALSE, media |-> 0]
  BY <1>1 DEF Unseen
<1>8. \A k, t, x : Part(k, t, x)' = 0
  BY <1>2 DEF Part
<1>9. Bounded'
  BY <1>7, <1>8 DEF Bounded
<1>10. QuietSoFar'
  <2>1. \A k : Dates(k)' = FALSE
    BY <1>2 DEF Dates
  <2>2. ASSUME NEW k \in Keys
        PROVE  /\ Part(k, "plain", Actual(plain[k]))' = 0 /\ Part(k, "zip", Actual(zip[k]))' = 0
               /\ Part(k, "media", Actual(media[k]))' = 0
    BY <1>2 DEF Part
  <2>3. ASSUME NEW k \in Keys
        PROVE  found'[k] = [size |-> Part(k, "plain", Actual(plain[k]))' + Part(k, "zip", Actual(zip[k]))',
                            dated |-> Dates(k)', media |-> Part(k, "media", Actual(media[k]))']
    <3>1. Dates(k)' = FALSE
      BY <2>1
    <3>2. Part(k, "plain", Actual(plain[k]))' + Part(k, "zip", Actual(zip[k]))' = 0
      BY <2>2
    <3> QED BY <1>7, <2>2, <3>1, <3>2
  <2> QED BY <1>6, <2>3 DEF QuietSoFar
<1>11. DatedSoFar'
  BY <1>2, <1>6 DEF DatedSoFar, Logs
<1> QED BY <1>1, <1>5, <1>9, <1>10, <1>11 DEF WalkInv

LEMMA VisitsKeepsWalk == ASSUME WalkInv, Visits PROVE WalkInv'
<1>0. /\ MaxSize \in Nat \ {0} /\ Absent = -1 /\ Last \in Nat /\ at \in Nat \ {0}
      /\ plain \in [Keys -> Absent..MaxSize] /\ zip \in [Keys -> Absent..MaxSize]
      /\ media \in [Keys -> Absent..MaxSize]
      /\ found \in [Keys -> [size : 0..(2 * MaxSize), dated : BOOLEAN, media : 0..MaxSize]]
  BY InventoryAssumption, Entries DEF WalkInv, WalkTypeOK, Absent
<1>1. /\ wpc = "walk" /\ at <= Last /\ at' = at + 1
      /\ UNCHANGED <<plain, zip, media, gz, wpc, listed, touched>>
  BY DEF Visits, dayFiles
<1>2. PICK h : h = KeyAt(at)
  OBVIOUS
<1>3. PICK u : u = KindAt(at)
  OBVIOUS
<1>4. at \in 1..Last /\ h \in Keys /\ u \in {"media", "plain", "zip"}
  BY <1>0, <1>1, <1>2, <1>3, Entries
<1>5. ~ Visited(h, u) /\ \A k, t : Visited(k, t)' <=> Visited(k, t) \/ (k = h /\ t = u)
  <2>1. ~ Visited(h, u)
    <3>1. ASSUME NEW i \in 1..(at - 1), KeyAt(i) = h, KindAt(i) = u PROVE FALSE
      <4>1. i \in 1..Last /\ i # at
        BY <1>0, <1>1
      <4> QED BY <1>2, <1>3, <1>4, <3>1, <4>1, Entries
    <3> QED BY <3>1 DEF Visited
  <2>2. \A i : i \in 1..(at' - 1) <=> i \in 1..(at - 1) \/ i = at
    <3>1. at \in Nat \ {0} /\ at' = at + 1
      BY <1>0, <1>1
    <3> QED BY <3>1
  <2>3. ASSUME NEW k, NEW t
        PROVE  Visited(k, t)' <=> Visited(k, t) \/ (k = h /\ t = u)
    <3>1. Visited(k, t)' <=> \E i \in 1..(at' - 1) : KeyAt(i) = k /\ KindAt(i) = t
      BY DEF Visited
    <3>2. Visited(k, t) <=> \E i \in 1..(at - 1) : KeyAt(i) = k /\ KindAt(i) = t
      BY DEF Visited
    <3> QED BY <1>2, <1>3, <2>2, <3>1, <3>2
  <2> QED BY <2>1, <2>3
<1>6. found' = IF Present(h, u) THEN [found EXCEPT ![h] = Measures(h, u)] ELSE found
  BY <1>2, <1>3 DEF Visits
<1>7. Bounded /\ QuietSoFar /\ DatedSoFar
  BY <1>1 DEF WalkInv
<1>8. \A k : OnDisk(k)' = OnDisk(k)
  BY <1>1 DEF OnDisk
\* What the visit makes of the bucket.
<1>9. PICK v : v = IF Present(h, u) THEN OnDisk(h)[u] ELSE 0
  OBVIOUS
<1>10. /\ v \in 0..MaxSize
       /\ Present(h, u) => OnDisk(h)[u] # Absent /\ <<h, u>> \in listed
  <2>1. OnDisk(h)[u] \in Absent..MaxSize
    BY <1>0, <1>4, OnDiskIs
  <2> QED BY <1>0, <1>9, <2>1 DEF Present
<1>11. /\ \A k \in Keys : k # h => found'[k] = found[k]
       /\ found'[h].size = IF u = "media" THEN found[h].size ELSE found[h].size + v
       /\ found'[h].media = IF u = "media" THEN found[h].media + v ELSE found[h].media
       /\ found'[h].dated = (found[h].dated \/ (u # "media" /\ Present(h, u)))
       /\ found'[h] = [size |-> found'[h].size, dated |-> found'[h].dated, media |-> found'[h].media]
       /\ DOMAIN found' = Keys /\ found' = [k \in Keys |-> found'[k]]
  <2>1. found[h] \in [size : 0..(2 * MaxSize), dated : BOOLEAN, media : 0..MaxSize]
    BY <1>0, <1>4
  <2>2. CASE Present(h, u)
    <3>1. found' = [found EXCEPT ![h] = Measures(h, u)] /\ v = OnDisk(h)[u]
      BY <1>6, <1>9, <2>2
    <3>2. found'[h] = Measures(h, u) /\ \A k \in Keys : k # h => found'[k] = found[k]
      BY <1>0, <1>4, <3>1
    <3>3. CASE u = "media"
      <4>1. Measures(h, u) = [found[h] EXCEPT !.media = @ + v]
        BY <3>1, <3>3 DEF Measures
      <4> QED BY <1>0, <2>1, <2>2, <3>1, <3>2, <3>3, <4>1
    <3>4. CASE u # "media"
      <4>1. Measures(h, u) = [found[h] EXCEPT !.size = @ + v, !.dated = TRUE]
        BY <3>1, <3>4 DEF Measures
      <4> QED BY <1>0, <2>1, <2>2, <3>1, <3>2, <3>4, <4>1
    <3> QED BY <3>3, <3>4
  <2>3. CASE ~ Present(h, u)
    <3>1. found' = found /\ v = 0
      BY <1>6, <1>9, <2>3
    <3> QED BY <1>0, <2>1, <2>3, <3>1
  <2> QED BY <2>2, <2>3
<1>12. Bounded'
  <2>1. ASSUME NEW k \in Keys, k # h
        PROVE  /\ found'[k].size <= Part(k, "plain", MaxSize)' + Part(k, "zip", MaxSize)'
               /\ found'[k].media <= Part(k, "media", MaxSize)'
    BY <1>5, <1>7, <1>11, <2>1 DEF Bounded, Part
  <2>2. /\ found'[h].size <= Part(h, "plain", MaxSize)' + Part(h, "zip", MaxSize)'
        /\ found'[h].media <= Part(h, "media", MaxSize)'
    <3>1. /\ found[h].size <= Part(h, "plain", MaxSize) + Part(h, "zip", MaxSize)
          /\ found[h].media <= Part(h, "media", MaxSize)
          /\ found[h].size \in Nat /\ found[h].media \in Nat
      BY <1>0, <1>4, <1>7 DEF Bounded
    <3> QED BY <1>0, <1>4, <1>5, <1>10, <1>11, <3>1 DEF Part
  <2> QED BY <2>1, <2>2 DEF Bounded
<1>13. WalkTypeOK'
  <2>1. \A k \in Keys : found'[k] \in [size : 0..(2 * MaxSize), dated : BOOLEAN, media : 0..MaxSize]
    <3>1. /\ found'[h].size \in 0..(2 * MaxSize) /\ found'[h].media \in 0..MaxSize
          /\ found'[h].dated \in BOOLEAN
      <4>1. found[h].size \in Nat /\ found[h].media \in Nat /\ found[h].dated \in BOOLEAN
        BY <1>0, <1>4
      <4>2. Part(h, "plain", MaxSize)' \in 0..MaxSize /\ Part(h, "zip", MaxSize)' \in 0..MaxSize
            /\ Part(h, "media", MaxSize)' \in 0..MaxSize
        BY <1>0 DEF Part
      <4>3. found'[h].size \in Nat /\ found'[h].media \in Nat /\ found'[h].dated \in BOOLEAN
        BY <1>10, <1>11, <4>1
      <4>4. /\ found'[h].size <= Part(h, "plain", MaxSize)' + Part(h, "zip", MaxSize)'
            /\ found'[h].media <= Part(h, "media", MaxSize)'
        BY <1>4, <1>12 DEF Bounded
      <4> QED BY <1>0, <4>2, <4>3, <4>4
    <3>2. found'[h] \in [size : 0..(2 * MaxSize), dated : BOOLEAN, media : 0..MaxSize]
      BY <1>11, <3>1
    <3> QED BY <1>0, <1>11, <3>2
  <2>2. at' \in 1..(Last + 1)
    BY <1>0, <1>1
  <2> QED BY <1>1, <1>11, <2>1, <2>2 DEF WalkInv, WalkTypeOK
<1>14. QuietSoFar'
  <2> SUFFICES ASSUME NEW k \in Keys \ touched
               PROVE  /\ \A t \in {"media", "plain", "zip"} : <<k, t>> \in listed <=> OnDisk(k)[t] # Absent
                      /\ found'[k] =
                            [size |-> Part(k, "plain", Actual(plain[k]))' + Part(k, "zip", Actual(zip[k]))',
                             dated |-> Dates(k)',
                             media |-> Part(k, "media", Actual(media[k]))']
    BY <1>1, <1>8 DEF QuietSoFar
  <2>1. /\ \A t \in {"media", "plain", "zip"} : <<k, t>> \in listed <=> OnDisk(k)[t] # Absent
        /\ found[k] = [size |-> Part(k, "plain", Actual(plain[k])) + Part(k, "zip", Actual(zip[k])),
                       dated |-> Dates(k),
                       media |-> Part(k, "media", Actual(media[k]))]
    BY <1>7 DEF QuietSoFar
  <2>2. CASE k # h
    <3>1. Dates(k)' = Dates(k)
      BY <1>5, <1>8, <2>2 DEF Dates
    <3>2. /\ Part(k, "plain", Actual(plain[k]))' = Part(k, "plain", Actual(plain[k]))
          /\ Part(k, "zip", Actual(zip[k]))' = Part(k, "zip", Actual(zip[k]))
          /\ Part(k, "media", Actual(media[k]))' = Part(k, "media", Actual(media[k]))
      BY <1>1, <1>5, <2>2 DEF Part, Actual
    <3> QED BY <1>11, <2>1, <2>2, <3>1, <3>2
  <2>3. CASE k = h
    <3>1. Present(h, u) <=> OnDisk(h)[u] # Absent
      BY <1>4, <2>1, <2>3 DEF Present
    <3>2. v = Actual(OnDisk(h)[u])
      BY <1>9, <3>1 DEF Actual
    <3>3. /\ Actual(plain[h]) \in Nat /\ Actual(zip[h]) \in Nat /\ Actual(media[h]) \in Nat
      BY <1>0, <1>4 DEF Actual
    <3>4. /\ found[h].size = Part(h, "plain", Actual(plain[h])) + Part(h, "zip", Actual(zip[h]))
          /\ found[h].media = Part(h, "media", Actual(media[h]))
          /\ found[h].dated = Dates(h)
      BY <2>1, <2>3
    <3>5. found'[h].size = Part(h, "plain", Actual(plain[h]))' + Part(h, "zip", Actual(zip[h]))'
      BY <1>1, <1>4, <1>5, <1>11, <3>2, <3>3, <3>4, OnDiskIs DEF Part, Actual
    <3>6. found'[h].media = Part(h, "media", Actual(media[h]))'
      BY <1>1, <1>4, <1>5, <1>11, <3>2, <3>3, <3>4, OnDiskIs DEF Part, Actual
    <3>7. found'[h].dated = Dates(h)'
      <4>1. Dates(h)' = (Dates(h) \/ (u \in Logs /\ OnDisk(h)[u] # Absent))
        BY <1>5, <1>8 DEF Dates
      <4>2. u \in Logs <=> u # "media"
        BY <1>4 DEF Logs
      <4> QED BY <1>11, <3>1, <3>4, <4>1, <4>2
    <3> QED BY <1>11, <2>1, <2>3, <3>5, <3>6, <3>7
  <2> QED BY <2>2, <2>3
<1>15. DatedSoFar'
  <2> SUFFICES ASSUME NEW k \in Keys, NEW t \in Logs, <<k, t>> \in listed
               PROVE  IF OnDisk(k)[t] = Absent THEN gz[k] = "closed" ELSE Visited(k, t)' => found'[k].dated
    BY <1>1, <1>8 DEF DatedSoFar
  <2>1. IF OnDisk(k)[t] = Absent THEN gz[k] = "closed" ELSE Visited(k, t) => found[k].dated
    BY <1>7 DEF DatedSoFar
  <2>2. CASE OnDisk(k)[t] = Absent
    BY <2>1, <2>2
  <2>3. CASE OnDisk(k)[t] # Absent
    <3>1. found[k].dated => found'[k].dated
      BY <1>11
    <3>2. k = h /\ t = u => found'[k].dated
      BY <1>11, <2>3 DEF Present, Logs
    <3> QED BY <1>5, <2>1, <2>3, <3>1, <3>2
  <2> QED BY <2>2, <2>3
<1> QED BY <1>12, <1>13, <1>14, <1>15 DEF WalkInv

LEMMA StepWalk == WalkInv /\ [WalkNext]_walkVars => WalkInv'
<1> SUFFICES ASSUME WalkInv, [WalkNext]_walkVars PROVE WalkInv'
  OBVIOUS
<1>1. CASE EndsWalk
  BY <1>1 DEF EndsWalk, dayFiles, WalkInv, WalkTypeOK
<1>2. CASE UNCHANGED walkVars
  <2>1. UNCHANGED <<plain, zip, media, gz, wpc, at, listed, found, touched>>
    BY <1>2 DEF walkVars, dayFiles, walk
  <2>2. \A k, t : Visited(k, t)' = Visited(k, t)
    BY <2>1 DEF Visited
  <2>3. \A k : OnDisk(k)' = OnDisk(k)
    BY <2>1 DEF OnDisk
  <2>4. \A k : Dates(k)' = Dates(k)
    BY <2>2, <2>3 DEF Dates
  <2>5. Bounded => Bounded'
    BY <2>1, <2>2 DEF Bounded, Part
  <2>6. QuietSoFar => QuietSoFar'
    BY <2>1, <2>2, <2>3, <2>4 DEF QuietSoFar, Part, Actual
  <2>7. DatedSoFar => DatedSoFar'
    BY <2>1, <2>2, <2>3 DEF DatedSoFar
  <2> QED BY <2>1, <2>5, <2>6, <2>7 DEF WalkInv, WalkTypeOK
<1> QED BY <1>1, <1>2, WriterKeepsWalk, ListsKeepsWalk, VisitsKeepsWalk DEF WalkNext

\* At every entry of the walk, what nobody has touched is measured as far as it was visited,
\* and a listed log that is gone was removed by its gzip worker (walkAndStat, compressInPlace).
THEOREM WalkInvariance == WalkSpec => []WalkInv
BY InitWalk, StepWalk, PTL DEF WalkSpec

\* Inventory's QuietBucketMeasured for any keys, any listing and files of any size: what
\* nobody touches during the walk is measured to the byte, in whichever forms it is, and a
\* log that was listed and is still there is found and dated (walkAndStat).
THEOREM QuietAreMeasured == WalkSpec => []QuietBucketMeasured
<1>1. ASSUME WalkInv, WalkOver PROVE QuietBucketMeasured
  <2>1. Bounded /\ QuietSoFar /\ DatedSoFar
    BY <1>1 DEF WalkInv, WalkOver
  <2>2. \A k \in Keys, t \in {"media", "plain", "zip"} : Visited(k, t)
    <3>1. at - 1 = Last
      BY <1>1, Entries DEF WalkOver
    <3> QED BY <3>1, Entries DEF Visited
  <2>3. ASSUME NEW k \in Keys \ touched
        PROVE  found[k] = [size |-> Actual(plain[k]) + Actual(zip[k]), dated |-> HasLog(k),
                           media |-> Actual(media[k])]
    <3>1. /\ Part(k, "plain", Actual(plain[k])) = Actual(plain[k])
          /\ Part(k, "zip", Actual(zip[k])) = Actual(zip[k])
          /\ Part(k, "media", Actual(media[k])) = Actual(media[k])
      BY <2>2 DEF Part
    <3>2. Dates(k) = HasLog(k)
      BY <2>2, OnDiskIs DEF Dates, Logs, HasLog
    <3>3. found[k] = [size |-> Part(k, "plain", Actual(plain[k])) + Part(k, "zip", Actual(zip[k])),
                      dated |-> Dates(k), media |-> Part(k, "media", Actual(media[k]))]
      BY <2>1 DEF QuietSoFar
    <3> QED BY <3>1, <3>2, <3>3
  <2>4. ASSUME NEW k \in Keys, NEW t \in {"plain", "zip"}, <<k, t>> \in listed, OnDisk(k)[t] # Absent
        PROVE  found[k].dated
    BY <2>1, <2>2, <2>4 DEF DatedSoFar, Logs
  <2> QED BY <2>3, <2>4 DEF QuietBucketMeasured
<1>2. WalkInv => QuietBucketMeasured
  BY <1>1 DEF QuietBucketMeasured
<1> QED BY <1>2, WalkInvariance, PTL
=============================================================================
