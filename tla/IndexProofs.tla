---------------------------- MODULE IndexProofs ----------------------------
(***************************************************************************)
(* Sessions of the index, proved: whatever the requests, the order their   *)
(* rows come in and the buckets that are evicted, a session is what its    *)
(* root begins, and has one key and one system prompt.                     *)
(***************************************************************************)
EXTENDS Index, SequenceTheorems, FiniteSetTheorems, WellFoundedInduction, TLAPS

Fields == {"content", "message", "input"}
Turns == [role : Roles \cup {Virtual}, field : Fields, value : Seq(Seq(Roles \cup Contents))]

\* What a row says of its request and of its root.
RowFits(t) ==
    /\ row[t].request \in Requests
    /\ row[t].key = row[t].request.key
    /\ row[t].turns = Build(row[t].request)
    /\ row[t].root # t => row[row[t].root].turns # <<>>

\* The inductive invariant: the rows of the table have been inserted, and with what every
\* row says goes what it shares with its root.
SessionInv ==
    /\ rows \subseteq Inserted
    /\ \A t \in Inserted : RowFits(t)
    /\ RootIsPrefix

-----------------------------------------------------------------------------
(* Build. *)

LEMMA CanonicalType ==
    ASSUME NEW items \in Seq(Messages), NEW field \in Fields
    PROVE  /\ Canonical(items, field) \in Seq(Turns)
           /\ \A i \in DOMAIN Canonical(items, field) : Canonical(items, field)[i].role # Virtual
  <1> DEFINE c == Canonical(items, field)
  <1>1. DOMAIN c = 1..Len(items) /\ Len(items) \in Nat
    BY DEF Canonical
  <1>2. ASSUME NEW i \in 1..Len(items)
        PROVE  c[i] \in Turns /\ c[i].role # Virtual
    <2>1. items[i] \in Messages
      OBVIOUS
    <2>2. c[i] = Spoken(items[i].role, field, <<<<items[i].content>>>>)
      BY <1>1 DEF Canonical
    <2>3. <<<<items[i].content>>>> \in Seq(Seq(Roles \cup Contents))
      BY <2>1 DEF Messages
    <2>4. items[i].role \in Roles /\ items[i].role # Virtual
      BY <2>1 DEF Messages, Roles, Virtual
    <2> QED BY <2>2, <2>3, <2>4 DEF Spoken, Turns
  <1> QED BY <1>1, <1>2 DEF Canonical

LEMMA VirtualType ==
    ASSUME NEW q \in Requests
    PROVE  /\ VirtualTurns(q) \in Seq(Turns)
           /\ q.system \in {"absent", "null"} => VirtualTurns(q) = <<>>
           /\ q.system \notin {"absent", "null"} =>
                VirtualTurns(q) = <<Spoken(Virtual, "content", <<<<q.system>>>>)>>
  <1>1. CASE q.system \in {"absent", "null"}
    BY <1>1 DEF VirtualTurns
  <1>2. CASE q.system \notin {"absent", "null"}
    <2>1. q.system \in Contents
      BY <1>2, IndexAssumption
    <2>2. <<<<q.system>>>> \in Seq(Seq(Roles \cup Contents))
      BY <2>1
    <2>3. Spoken(Virtual, "content", <<<<q.system>>>>) \in Turns
      BY <2>2 DEF Spoken, Turns, Fields
    <2> QED BY <1>2, <2>3 DEF VirtualTurns
  <1> QED BY <1>1, <1>2

LEMMA OpaqueType ==
    ASSUME NEW items \in Seq(Messages)
    PROVE  OpaqueTurn(items) \in Turns /\ OpaqueTurn(items).role # Virtual
  <1> DEFINE S == Seq(Roles \cup Contents)
             e(i) == <<items[i].role, items[i].content>>
             v == [i \in DOMAIN items |-> e(i)]
  <1>1. ASSUME NEW i \in 1..Len(items)
        PROVE  e(i) \in S
    <2>1. items[i] \in Messages
      OBVIOUS
    <2> QED BY <2>1 DEF Messages
  <1>2. v \in Seq(S)
    <2>1. DOMAIN items = 1..Len(items) /\ Len(items) \in Nat
      OBVIOUS
    <2> HIDE DEF S, e
    <2> QED BY <1>1, <2>1
  <1>3. OpaqueTurn(items) = Spoken("user", "input", v)
    BY DEF OpaqueTurn
  <1> HIDE DEF v
  <1>4. Spoken("user", "input", v) \in Turns
    BY <1>2 DEF Spoken, Turns, Fields, Roles
  <1>5. Spoken("user", "input", v).role # Virtual
    BY DEF Spoken, Virtual
  <1> QED BY <1>3, <1>4, <1>5

\* The turns of a request, and how the first of them tells its system prompt.
LEMMA BuildType ==
    ASSUME NEW q \in Requests
    PROVE  /\ Build(q) \in Seq(Turns)
           /\ Build(q) # <<>> /\ SystemOf(q) = "absent" => Build(q)[1].role # Virtual
           /\ Build(q) # <<>> /\ SystemOf(q) # "absent" =>
                Build(q)[1].role = Virtual /\ Build(q)[1].value = <<<<SystemOf(q)>>>>
  <1>1. /\ q.items \in Seq(Messages)
        /\ q.path \in {"chat", "messages", "responses", "other"}
        /\ q.form \in {"none", "text", "messages", "mixed"}
    BY IndexAssumption
  <1> DEFINE c == Canonical(q.items, "content")
             m == Canonical(q.items, "message")
             o == <<OpaqueTurn(q.items)>>
  <1>2. /\ c \in Seq(Turns) /\ \A i \in DOMAIN c : c[i].role # Virtual
        /\ m \in Seq(Turns) /\ \A i \in DOMAIN m : m[i].role # Virtual
        /\ o \in Seq(Turns) /\ \A i \in DOMAIN o : o[i].role # Virtual
    BY <1>1, CanonicalType, OpaqueType DEF Fields
  <1>3. ASSUME NEW s \in Seq(Turns), \A i \in DOMAIN s : s[i].role # Virtual, q.path # "chat"
        PROVE  LET b == VirtualTurns(q) \o s IN
                  /\ b \in Seq(Turns)
                  /\ b # <<>> /\ SystemOf(q) = "absent" => b[1].role # Virtual
                  /\ b # <<>> /\ SystemOf(q) # "absent" =>
                        b[1].role = Virtual /\ b[1].value = <<<<SystemOf(q)>>>>
    <2>1. CASE q.system \in {"absent", "null"}
      <3>1. VirtualTurns(q) = <<>> /\ SystemOf(q) = "absent"
        BY <2>1, <1>3, VirtualType DEF SystemOf
      <3>2. VirtualTurns(q) \o s = s
        BY <3>1
      <3>3. s # <<>> => 1 \in DOMAIN s
        OBVIOUS
      <3> QED BY <3>1, <3>2, <3>3, <1>3
    <2>2. CASE q.system \notin {"absent", "null"}
      <3> DEFINE w == Spoken(Virtual, "content", <<<<q.system>>>>)
      <3>1. VirtualTurns(q) = <<w>> /\ SystemOf(q) = q.system /\ <<w>> \in Seq(Turns)
        BY <2>2, <1>3, VirtualType DEF SystemOf
      <3>2. w.role = Virtual /\ w.value = <<<<q.system>>>>
        BY DEF Spoken
      <3>3. <<w>> \o s \in Seq(Turns) /\ (<<w>> \o s)[1] = w
        BY <3>1
      <3> QED BY <3>1, <3>2, <3>3, <2>2
    <2> QED BY <2>1, <2>2
  <1>4. CASE ~ q.parses \/ q.path = "other"
    <2>1. Build(q) = <<>>
      BY <1>4 DEF Build
    <2> QED BY <2>1
  <1>5. CASE q.parses /\ q.path = "chat"
    <2>1. Build(q) = c /\ SystemOf(q) = "absent"
      BY <1>5 DEF Build, FromChat, SystemOf
    <2>2. c # <<>> => 1 \in DOMAIN c
      BY <1>2
    <2> QED BY <2>1, <2>2, <1>2
  <1>6. CASE q.parses /\ q.path = "messages"
    <2>1. Build(q) = <<>> \/ Build(q) = VirtualTurns(q) \o c
      BY <1>6 DEF Build, FromAnthropic
    <2>2. q.path # "chat"
      BY <1>6
    <2>3. <<>> \in Seq(Turns)
      OBVIOUS
    <2> HIDE DEF c
    <2> QED BY <2>1, <2>2, <2>3, <1>2, <1>3
  <1>7. CASE q.parses /\ q.path = "responses"
    <2>1. \E s \in {<<>>, c, m, o} : Build(q) = VirtualTurns(q) \o s
      BY <1>7, <1>1 DEF Build, FromResponses
    <2>2. ASSUME NEW s \in {<<>>, c, m, o}
          PROVE  s \in Seq(Turns) /\ \A i \in DOMAIN s : s[i].role # Virtual
      <3>1. <<>> \in Seq(Turns) /\ \A i \in DOMAIN <<>> : <<>>[i].role # Virtual
        OBVIOUS
      <3> HIDE DEF c, m, o
      <3> QED BY <1>2, <3>1
    <2>3. q.path # "chat"
      BY <1>7
    <2> HIDE DEF c, m, o
    <2> QED BY <2>1, <2>2, <2>3, <1>3
  <1> QED BY <1>1, <1>4, <1>5, <1>6, <1>7

-----------------------------------------------------------------------------
(* Prefixes. *)

LEMMA PrefixSelf ==
    ASSUME NEW s \in Seq(Turns)
    PROVE  IsPrefixOf(s, s)
  BY DEF IsPrefixOf

LEMMA PrefixTrans ==
    ASSUME NEW a \in Seq(Turns), NEW b \in Seq(Turns), NEW c \in Seq(Turns),
           IsPrefixOf(a, b), IsPrefixOf(b, c)
    PROVE  IsPrefixOf(a, c)
  <1>1. Len(a) \in Nat /\ Len(b) \in Nat /\ Len(c) \in Nat
    OBVIOUS
  <1> HIDE DEF Turns
  <1> QED BY <1>1 DEF IsPrefixOf

\* What a stored hash is looked up by: no empty list, and a beginning of the turns.
LEMMA StrictPrefix ==
    ASSUME NEW turns \in Seq(Turns), NEW h \in StrictPrefixHashes(turns)
    PROVE  h \in Seq(Turns) /\ h # <<>> /\ IsPrefixOf(h, turns)
  <1>1. PICK k \in 1..(Len(turns) - 1) : h = SubSeq(turns, 1, k)
    BY DEF StrictPrefixHashes
  <1>2. Len(turns) \in Nat /\ k \in 1..Len(turns)
    BY <1>1
  <1>3. /\ h \in Seq(Turns) /\ Len(h) = k
        /\ \A i \in 1..k : h[i] = turns[i]
    BY <1>1, <1>2
  <1> QED BY <1>2, <1>3 DEF IsPrefixOf

-----------------------------------------------------------------------------
(* The invariant. *)

LEMMA SessionInit ==
    Init => SessionInv
  BY DEF Init, SessionInv, Inserted, RootIsPrefix

\* What is inserted: a row of its own session, or one of that of its parent.
LEMMA EntryFits ==
    ASSUME SessionInv, NEW t \in Traces, NEW q \in Sent[t], t \notin Inserted,
           NEW entry,
           \/ entry = Row(q, 0, t)
           \/ \E u \in Parents(q.key, Build(q)) : entry = Row(q, u, row[u].root)
    PROVE  /\ entry.request \in Requests /\ entry.request = q
           /\ entry.key = q.key /\ entry.turns = Build(q)
           /\ \/ entry.root = t
              \/ /\ entry.root \in Inserted
                 /\ row[entry.root].root = entry.root
                 /\ row[entry.root].key = entry.key
                 /\ row[entry.root].turns # <<>>
                 /\ IsPrefixOf(row[entry.root].turns, entry.turns)
  <1>1. q \in Requests
    BY IndexAssumption
  <1>2. CASE entry = Row(q, 0, t)
    BY <1>1, <1>2 DEF Row
  <1>3. ASSUME NEW u \in Parents(q.key, Build(q)), entry = Row(q, u, row[u].root)
        PROVE  /\ row[u].root \in Inserted
               /\ row[row[u].root].root = row[u].root
               /\ row[row[u].root].key = q.key
               /\ row[row[u].root].turns # <<>>
               /\ IsPrefixOf(row[row[u].root].turns, Build(q))
    <2>1. /\ u \in Inserted /\ row[u].key = q.key
          /\ row[u].turns \in StrictPrefixHashes(Build(q))
      BY DEF Parents, Candidates, SessionInv
    <2> DEFINE r == row[u].root
    <2>2. r \in Inserted /\ row[r].root = r /\ row[r].key = row[u].key
          /\ IsPrefixOf(row[r].turns, row[u].turns)
      BY <2>1 DEF SessionInv, RootIsPrefix
    <2>3. RowFits(u) /\ RowFits(r)
      BY <2>1, <2>2 DEF SessionInv
    <2>4. Build(q) \in Seq(Turns) /\ row[r].turns \in Seq(Turns)
      BY <1>1, <2>3, BuildType DEF RowFits
    <2>5. row[u].turns \in Seq(Turns) /\ row[u].turns # <<>> /\ IsPrefixOf(row[u].turns, Build(q))
      BY <2>1, <2>4, StrictPrefix
    <2>6. IsPrefixOf(row[r].turns, Build(q))
      BY <2>2, <2>4, <2>5, PrefixTrans
    <2>7. row[r].turns # <<>>
      BY <2>3, <2>5 DEF RowFits
    <2> QED BY <2>1, <2>2, <2>6, <2>7
  <1> QED BY <1>1, <1>2, <1>3 DEF Row

LEMMA AppendKeeps ==
    ASSUME SessionInv, NEW t \in Traces, AppendTrace(t)
    PROVE  SessionInv'
  <1>1. PICK q \in Sent[t] :
            /\ t \notin Inserted /\ rows' = rows \cup {t}
            /\ \E entry \in
                    IF Parents(q.key, Build(q)) = {} THEN {Row(q, 0, t)}
                    ELSE {Row(q, u, row[u].root) : u \in Parents(q.key, Build(q))} :
                row' = [u \in Inserted \cup {t} |-> IF u = t THEN entry ELSE row[u]]
    BY DEF AppendTrace
  <1>2. PICK entry :
            /\ \/ entry = Row(q, 0, t)
               \/ \E u \in Parents(q.key, Build(q)) : entry = Row(q, u, row[u].root)
            /\ row' = [u \in Inserted \cup {t} |-> IF u = t THEN entry ELSE row[u]]
    BY <1>1
  <1>3. /\ Inserted' = Inserted \cup {t} /\ row'[t] = entry
        /\ \A u \in Inserted : row'[u] = row[u]
    BY <1>1, <1>2 DEF Inserted
  <1>4. /\ entry.request \in Requests /\ entry.request = q
        /\ entry.key = q.key /\ entry.turns = Build(q)
        /\ \/ entry.root = t
           \/ /\ entry.root \in Inserted
              /\ row[entry.root].root = entry.root
              /\ row[entry.root].key = entry.key
              /\ row[entry.root].turns # <<>>
              /\ IsPrefixOf(row[entry.root].turns, entry.turns)
    BY <1>1, <1>2, EntryFits
  <1>5. (rows \subseteq Inserted)'
    BY <1>1, <1>3 DEF SessionInv
  <1>6. \A u \in Inserted : row[u].root \in Inserted /\ row[u].root # t
    BY <1>1 DEF SessionInv, RootIsPrefix
  <1>7. ASSUME NEW u \in Inserted'
        PROVE  RowFits(u)'
    <2>1. CASE u = t
      BY <2>1, <1>1, <1>3, <1>4 DEF RowFits
    <2>2. CASE u \in Inserted
      BY <2>2, <1>3, <1>6 DEF RowFits, SessionInv
    <2> QED BY <2>1, <2>2, <1>3
  <1>8. RootIsPrefix'
    <2>1. ASSUME NEW u \in Inserted'
          PROVE  LET root == row'[u].root IN
                 /\ root \in Inserted' /\ row'[root].root = root
                 /\ row'[root].key = row'[u].key
                 /\ IsPrefixOf(row'[root].turns, row'[u].turns)
      <3>1. CASE u = t
        <4>1. Build(q) \in Seq(Turns)
          BY <1>4, BuildType
        <4>2. IsPrefixOf(entry.turns, entry.turns)
          BY <4>1, <1>4, PrefixSelf
        <4> QED BY <3>1, <4>2, <1>1, <1>3, <1>4
      <3>2. CASE u \in Inserted
        BY <3>2, <1>3, <1>6 DEF SessionInv, RootIsPrefix
      <3> QED BY <3>1, <3>2, <1>3
    <2> QED BY <2>1 DEF RootIsPrefix
  <1> QED BY <1>5, <1>7, <1>8 DEF SessionInv

\* Nothing else writes a row; an eviction takes rows out of the table, not out of the history.
LEMMA OthersKeep ==
    ASSUME SessionInv, row' = row, rows' \subseteq rows
    PROVE  SessionInv'
  BY DEF SessionInv, RootIsPrefix, RowFits, Inserted

LEMMA SessionStep ==
    SessionInv /\ [Next]_vars => SessionInv'
  <1> SUFFICES ASSUME SessionInv, [Next]_vars
               PROVE  SessionInv'
    OBVIOUS
  <1>1. ASSUME NEW t \in Traces, AppendTrace(t)
        PROVE  SessionInv'
    BY <1>1, AppendKeeps
  <1>2. ASSUME NEW key \in Keys, NEW d \in 1..MaxDay, DeleteBucket(key, d)
        PROVE  SessionInv'
    BY <1>2, OthersKeep DEF DeleteBucket
  <1>3. CASE Midnight
    BY <1>3, OthersKeep DEF Midnight
  <1>4. CASE StartsPaging \/ NextPage \/ LastPage
    BY <1>4, OthersKeep DEF StartsPaging, NextPage, LastPage
  <1>5. CASE UNCHANGED vars
    BY <1>5, OthersKeep DEF vars
  <1> QED BY <1>1, <1>2, <1>3, <1>4, <1>5 DEF Next

\* Every trace of a session begins with all the turns of the one that names it, and both are
\* of one key (findParentTx), whatever has been evicted.
THEOREM SessionRoots ==
    Spec => []RootIsPrefix
  <1>1. Init => SessionInv
    BY SessionInit
  <1>2. SessionInv /\ [Next]_vars => SessionInv'
    BY SessionStep
  <1>3. SessionInv => RootIsPrefix
    BY DEF SessionInv
  <1> QED BY <1>1, <1>2, <1>3, PTL DEF Spec

\* A trace that is not its own root begins with the first turn of the root, and the first
\* turn tells the system prompt.
LEMMA RootSystem ==
    ASSUME SessionInv, NEW t \in Inserted, row[t].root # t
    PROVE  SystemOf(row[t].request) = SystemOf(row[row[t].root].request)
  <1> DEFINE r == row[t].root
             a == row[r].turns
             b == row[t].turns
  <1>1. r \in Inserted /\ IsPrefixOf(a, b)
    BY DEF SessionInv, RootIsPrefix
  <1>2. RowFits(t) /\ RowFits(r)
    BY <1>1 DEF SessionInv
  <1>3. /\ row[t].request \in Requests /\ row[r].request \in Requests
        /\ a = Build(row[r].request) /\ b = Build(row[t].request) /\ a # <<>>
    BY <1>2 DEF RowFits
  <1>4. a \in Seq(Turns) /\ b \in Seq(Turns)
    BY <1>3, BuildType
  <1>5. b # <<>> /\ a[1] = b[1]
    BY <1>1, <1>3, <1>4 DEF IsPrefixOf
  <1>6. (SystemOf(row[t].request) = "absent") <=> (SystemOf(row[r].request) = "absent")
    BY <1>3, <1>5, BuildType
  <1>7. CASE SystemOf(row[t].request) = "absent"
    BY <1>6, <1>7
  <1>8. CASE SystemOf(row[t].request) # "absent"
    <2>1. <<<<SystemOf(row[t].request)>>>> = <<<<SystemOf(row[r].request)>>>>
      BY <1>3, <1>5, <1>6, <1>8, BuildType
    <2> QED BY <2>1
  <1> QED BY <1>7, <1>8

\* The traces of a session have one system prompt, or all of them none, in whichever place
\* their protocols carry it (fromAnthropic, fromResponses).
THEOREM SessionSystem ==
    Spec => []SessionsShareSystem
  <1>1. SessionInv => SessionsShareSystem
    <2> SUFFICES ASSUME SessionInv, NEW t \in Inserted, NEW u \in Inserted,
                        row[t].root = row[u].root
                 PROVE  SystemOf(row[t].request) = SystemOf(row[u].request)
      BY DEF SessionsShareSystem
    <2> QED BY RootSystem
  <1>2. Init => SessionInv
    BY SessionInit
  <1>3. SessionInv /\ [Next]_vars => SessionInv'
    BY SessionStep
  <1> QED BY <1>1, <1>2, <1>3, PTL DEF Spec

-----------------------------------------------------------------------------
(* Continuations. *)

LEMMA GreatestOfFinite ==
    ASSUME NEW S, S \subseteq Nat, S # {}, IsFiniteSet(S)
    PROVE  \E m \in S : \A n \in S : n <= m
  <1> DEFINE Up(n) == {k \in S : n <= k}
             Ups == {Up(n) : n \in S}
  <1>1. \A n \in S : Up(n) \in FiniteSubsetsOf(Nat)
    <2>1. \A n \in S : IsFiniteSet(Up(n)) /\ Up(n) \subseteq Nat
      BY FS_Subset
    <2> QED BY <2>1 DEF FiniteSubsetsOf
  <1>2. Ups \subseteq FiniteSubsetsOf(Nat) /\ Ups # {}
    BY <1>1
  <1>3. \E s \in Ups : \A u \in Ups : ~ (<<u, s>> \in StrictSubsetOrdering(Nat))
    <2> HIDE DEF Ups
    <2> QED BY <1>2, FS_StrictSubsetOrderingWellFounded, WFMin
  <1>4. PICK m \in S : \A n \in S : ~ (<<Up(n), Up(m)>> \in StrictSubsetOrdering(Nat))
    BY <1>3
  <1>5. ASSUME NEW n \in S, m < n PROVE FALSE
    <2>1. Up(n) \subseteq Up(m) /\ m \in Up(m) /\ m \notin Up(n)
      <3>1. m \in Nat /\ n \in Nat /\ \A k \in S : k \in Nat
        OBVIOUS
      <3>2. \A k \in S : n <= k => m <= k
        BY <1>5, <3>1
      <3>3. ~ (n <= m) /\ m <= m
        BY <1>5, <3>1
      <3> QED BY <3>2, <3>3, Zenon
    <2>2. Up(n) \in SUBSET Nat /\ Up(m) \in SUBSET Nat /\ Up(n) # Up(m)
      BY <2>1
    <2> HIDE DEF Up
    <2> QED BY <1>4, <2>1, <2>2, Zenon DEF StrictSubsetOrdering
  <1> QED BY <1>5

LEMMA ImageIsFinite ==
    ASSUME NEW S, IsFiniteSet(S), NEW f, DOMAIN f = S
    PROVE  IsFiniteSet({f[x] : x \in S})
  <1> DEFINE T == {f[x] : x \in S}
             g == [x \in S |-> f[x]]
  <1>1. g \in Surjection(S, T)
    BY DEF Surjection
  <1> QED BY <1>1, FS_Surjection

\* The history is finite at every moment, and without an eviction it is the table.
JoinInv ==
    /\ IsFiniteSet(Inserted)
    /\ orderly => rows = Inserted
    /\ ContinuationsJoin

LEMMA RowTurns ==
    ASSUME SessionInv, NEW t \in Inserted
    PROVE  row[t].turns \in Seq(Turns) /\ Len(row[t].turns) \in Nat
  <1>1. row[t].turns \in Seq(Turns)
    BY BuildType DEF SessionInv, RowFits
  <1> QED BY <1>1, LenProperties

\* findParentTx finds a parent if there is a candidate.
LEMMA ParentExists ==
    ASSUME SessionInv, IsFiniteSet(Inserted), Inserted \subseteq Traces,
           NEW key, NEW turns, Candidates(key, turns) # {}
    PROVE  \E t \in Parents(key, turns) :
              \A u \in Candidates(key, turns) : Len(row[u].turns) <= Len(row[t].turns)
  <1> DEFINE found == Candidates(key, turns)
             len(t) == Len(row[t].turns)
             lens == {len(t) : t \in found}
  <1>1. found \subseteq Inserted /\ IsFiniteSet(found)
    <2>1. found \subseteq Inserted
      BY DEF Candidates, SessionInv
    <2> QED BY <2>1, FS_Subset
  <1>2. \A t \in found : len(t) \in Nat /\ Stamp[t] \in Nat
    BY <1>1, RowTurns, IndexAssumption
  <1> HIDE DEF found, len
  <1>3. IsFiniteSet(lens) /\ lens \subseteq Nat /\ lens # {}
    <2>1. IsFiniteSet(lens)
      <3> DEFINE f == [t \in found |-> len(t)]
      <3>1. IsFiniteSet({f[t] : t \in found})
        <4>1. DOMAIN f = found
          OBVIOUS
        <4> HIDE DEF f
        <4> QED BY <1>1, <4>1, ImageIsFinite
      <3>2. {f[t] : t \in found} = lens
        OBVIOUS
      <3> QED BY <3>1, <3>2
    <2> QED BY <1>2, <2>1 DEF found
  <1>4. PICK k \in found : \A u \in found : len(u) <= len(k)
    <2>1. \E n \in lens : \A o \in lens : o <= n
      <3> HIDE DEF lens
      <3> QED BY <1>3, GreatestOfFinite
    <2> QED BY <2>1
  <1> DEFINE longest == {t \in found : len(t) = len(k)}
             stamps == {Stamp[t] : t \in longest}
  <1>5. IsFiniteSet(stamps) /\ stamps \subseteq Nat /\ stamps # {}
    <2>1. IsFiniteSet(longest)
      BY <1>1, FS_Subset
    <2>2. IsFiniteSet(stamps)
      <3> HIDE DEF longest
      <3> DEFINE f == [t \in longest |-> Stamp[t]]
      <3>1. IsFiniteSet({f[t] : t \in longest})
        <4>1. DOMAIN f = longest
          OBVIOUS
        <4> HIDE DEF f
        <4> QED BY <2>1, <4>1, ImageIsFinite
      <3>2. {f[t] : t \in longest} = stamps
        OBVIOUS
      <3> QED BY <3>1, <3>2
    <2> QED BY <1>2, <1>4, <2>2
  <1>6. PICK t \in longest : \A u \in longest : Stamp[u] <= Stamp[t]
    <2>1. \E n \in stamps : \A o \in stamps : o <= n
      <3> HIDE DEF stamps
      <3> QED BY <1>5, GreatestOfFinite
    <2> QED BY <2>1
  <1>7. t \in found /\ \A u \in found : len(u) <= len(t)
    BY <1>4, <1>6
  <1>8. \A u \in found : len(u) < len(t) \/ (len(u) = len(t) /\ Stamp[u] <= Stamp[t])
    BY <1>2, <1>4, <1>6, <1>7
  <1>9. t \in Parents(key, turns)
    BY <1>7, <1>8 DEF Parents, found, len
  <1> QED BY <1>7, <1>9 DEF found, len

\* Of two beginnings of one list the shorter begins the longer.
LEMMA PrefixOfPrefix ==
    ASSUME NEW a \in Seq(Turns), NEW b \in Seq(Turns), NEW c \in Seq(Turns),
           IsPrefixOf(a, c), IsPrefixOf(b, c), Len(a) <= Len(b)
    PROVE  IsPrefixOf(a, b)
  <1>1. Len(a) \in Nat /\ Len(b) \in Nat /\ Len(c) \in Nat
    OBVIOUS
  <1> HIDE DEF Turns
  <1> QED BY <1>1 DEF IsPrefixOf

\* A beginning that is not the whole has a hash that is looked up.
LEMMA PrefixIsHashed ==
    ASSUME NEW a \in Seq(Turns), NEW c \in Seq(Turns), a # <<>>,
           IsPrefixOf(a, c), ~ IsPrefixOf(c, a)
    PROVE  a \in StrictPrefixHashes(c)
  <1>1. Len(a) \in Nat \ {0} /\ Len(c) \in Nat
    BY EmptySeq, LenProperties
  <1>2. Len(a) <= Len(c) /\ \A i \in 1..Len(a) : a[i] = c[i]
    BY DEF IsPrefixOf
  <1>3. Len(a) # Len(c)
    BY <1>2 DEF IsPrefixOf
  <1>4. Len(a) \in 1..(Len(c) - 1)
    BY <1>1, <1>2, <1>3
  <1> DEFINE s == SubSeq(c, 1, Len(a))
  <1>5. \A i \in 1..Len(a) : c[i] \in Turns
    BY <1>1, <1>4, ElementOfSeq
  <1>6. s \in Seq(Turns) /\ Len(s) = Len(a) /\ \A i \in 1..Len(a) : s[i] = c[i]
    BY <1>1, <1>5, SubSeqProperties
  <1> HIDE DEF s
  <1>7. a = s
    BY <1>2, <1>6, SeqEqual
  <1> QED BY <1>4, <1>7 DEF s, StrictPrefixHashes

\* A new row joins the session of every row that it continues.
LEMMA AppendJoins ==
    ASSUME SessionInv, JoinInv, NEW t \in Traces, Inserted \subseteq Traces, AppendTrace(t)
    PROVE  JoinInv'
  <1>1. PICK q \in Sent[t] :
            /\ t \notin Inserted /\ rows' = rows \cup {t}
            /\ \E entry \in
                    IF Parents(q.key, Build(q)) = {} THEN {Row(q, 0, t)}
                    ELSE {Row(q, u, row[u].root) : u \in Parents(q.key, Build(q))} :
                row' = [u \in Inserted \cup {t} |-> IF u = t THEN entry ELSE row[u]]
            /\ orderly' = (orderly /\ \A u \in Inserted :
                                row[u].key = q.key /\ Build(q) # <<>> => ~ IsPrefixOf(Build(q), row[u].turns))
    BY DEF AppendTrace
  <1>2. PICK entry :
            /\ \/ Parents(q.key, Build(q)) = {} /\ entry = Row(q, 0, t)
               \/ \E u \in Parents(q.key, Build(q)) : entry = Row(q, u, row[u].root)
            /\ row' = [u \in Inserted \cup {t} |-> IF u = t THEN entry ELSE row[u]]
    BY <1>1
  <1>3. /\ Inserted' = Inserted \cup {t} /\ row'[t] = entry
        /\ \A u \in Inserted : row'[u] = row[u]
    BY <1>1, <1>2 DEF Inserted
  <1>4. entry.key = q.key /\ entry.turns = Build(q) /\ q \in Requests
    BY <1>2, IndexAssumption DEF Row
  <1>5. IsFiniteSet(Inserted)'
    BY <1>3, FS_AddElement DEF JoinInv
  <1>6. (orderly => rows = Inserted)'
    BY <1>1, <1>3 DEF JoinInv
  <1>7. ASSUME orderly', NEW v \in Inserted, row[v].key = q.key, row[v].turns # <<>>,
               IsPrefixOf(row[v].turns, Build(q))
        PROVE  row[v].root = entry.root
    <2>0. Build(q) # <<>>
      BY <1>4, <1>7, BuildType, RowTurns DEF IsPrefixOf
    <2>1. orderly /\ ~ IsPrefixOf(Build(q), row[v].turns)
      BY <1>1, <1>7, <2>0
    <2>2. Build(q) \in Seq(Turns) /\ row[v].turns \in Seq(Turns)
      BY <1>4, BuildType, RowTurns
    <2>3. v \in Candidates(q.key, Build(q))
      BY <1>7, <2>1, <2>2, PrefixIsHashed DEF Candidates, JoinInv
    <2>4. \E p \in Parents(q.key, Build(q)) : TRUE
      BY <2>3, ParentExists DEF JoinInv
    <2>5. PICK p \in Parents(q.key, Build(q)) : entry = Row(q, p, row[p].root)
      BY <1>2, <2>4
    <2>6. p \in Candidates(q.key, Build(q)) /\ Len(row[v].turns) <= Len(row[p].turns)
      <3>1. /\ p \in Candidates(q.key, Build(q))
            /\ \/ Len(row[v].turns) < Len(row[p].turns)
               \/ Len(row[v].turns) = Len(row[p].turns)
        BY <2>3, <2>5 DEF Parents
      <3>2. p \in Inserted
        BY <3>1 DEF Candidates, SessionInv
      <3> QED BY <3>1, <3>2, RowTurns
    <2>7. /\ p \in Inserted /\ row[p].key = q.key
          /\ row[p].turns \in Seq(Turns) /\ IsPrefixOf(row[p].turns, Build(q))
      BY <2>2, <2>6, StrictPrefix DEF Candidates, SessionInv
    <2>8. IsPrefixOf(row[v].turns, row[p].turns)
      BY <1>7, <2>2, <2>6, <2>7, PrefixOfPrefix
    <2>9. row[v].root = row[p].root
      BY <1>7, <2>1, <2>7, <2>8 DEF JoinInv, ContinuationsJoin
    <2> QED BY <2>5, <2>9 DEF Row
  <1>8. ContinuationsJoin'
    <2> SUFFICES ASSUME orderly', NEW v \in Inserted', NEW w \in Inserted',
                        row'[v].key = row'[w].key, row'[v].turns # <<>>,
                        IsPrefixOf(row'[v].turns, row'[w].turns)
                 PROVE  row'[v].root = row'[w].root
      BY DEF ContinuationsJoin
    <2>1. CASE v \in Inserted /\ w \in Inserted
      <3>1. orderly
        BY <1>1
      <3> QED BY <1>3, <2>1, <3>1 DEF JoinInv, ContinuationsJoin
    <2>2. CASE v \in Inserted /\ w = t
      BY <1>3, <1>4, <1>7, <2>2
    <2>3. CASE v = t /\ w \in Inserted
      BY <1>1, <1>3, <1>4, <2>3
    <2>4. CASE v = t /\ w = t
      BY <2>4
    <2> QED BY <1>3, <2>1, <2>2, <2>3, <2>4
  <1> QED BY <1>5, <1>6, <1>8 DEF JoinInv

LEMMA OthersJoin ==
    ASSUME JoinInv, row' = row, ~ orderly' \/ (orderly' = orderly /\ rows' = rows)
    PROVE  JoinInv'
  BY DEF JoinInv, ContinuationsJoin, Inserted

IndexInv == SessionInv /\ JoinInv /\ Inserted \subseteq Traces

LEMMA IndexInit ==
    Init => IndexInv
  <1> SUFFICES ASSUME Init PROVE IndexInv
    OBVIOUS
  <1>1. Inserted = {}
    BY DEF Init, Inserted
  <1> QED BY <1>1, SessionInit, FS_EmptySet DEF IndexInv, JoinInv, ContinuationsJoin, Init

LEMMA IndexStep ==
    IndexInv /\ [Next]_vars => IndexInv'
  <1> SUFFICES ASSUME IndexInv, [Next]_vars
               PROVE  IndexInv'
    OBVIOUS
  <1>1. SessionInv /\ JoinInv /\ Inserted \subseteq Traces /\ SessionInv'
    BY SessionStep DEF IndexInv
  <1>2. ASSUME NEW t \in Traces, AppendTrace(t)
        PROVE  IndexInv'
    <2>1. JoinInv'
      BY <1>1, <1>2, AppendJoins
    <2>2. Inserted' = Inserted \cup {t}
      BY <1>2 DEF AppendTrace, Inserted
    <2> QED BY <1>1, <2>1, <2>2 DEF IndexInv
  <1>3. ASSUME NEW key \in Keys, NEW d \in 1..MaxDay, DeleteBucket(key, d)
        PROVE  IndexInv'
    BY <1>1, <1>3, OthersJoin DEF IndexInv, DeleteBucket, Inserted
  <1>4. CASE Midnight \/ StartsPaging \/ NextPage \/ LastPage \/ UNCHANGED vars
    <2>1. UNCHANGED <<rows, row, orderly>>
      BY <1>4 DEF Midnight, StartsPaging, NextPage, LastPage, vars
    <2> QED BY <1>1, <2>1, OthersJoin DEF IndexInv, Inserted
  <1> QED BY <1>2, <1>3, <1>4 DEF Next

\* As long as nothing is evicted, sent twice, or finished before what it continues, two
\* traces of one key of which one continues the other are in one session: findParentTx
\* finds the longest beginning, and that is in the session of every shorter one.
THEOREM SessionsJoin ==
    Spec => []ContinuationsJoin
  <1>1. IndexInv => ContinuationsJoin
    BY DEF IndexInv, JoinInv
  <1> QED BY <1>1, IndexInit, IndexStep, PTL DEF Spec

-----------------------------------------------------------------------------
(* The list, and a client that pages through it. *)

LEMMA OlderOrder ==
    ASSUME NEW t \in Traces, NEW u \in Traces, NEW v \in Traces
    PROVE  /\ ~ Older(t, Stamp[t], t)
           /\ Older(t, Stamp[u], u) => ~ Older(u, Stamp[t], t) /\ t # u
           /\ t # u => Older(t, Stamp[u], u) \/ Older(u, Stamp[t], t)
           /\ Older(t, Stamp[u], u) /\ Older(u, Stamp[v], v) => Older(t, Stamp[v], v)
  <1>1. /\ t \in Nat /\ u \in Nat /\ v \in Nat
        /\ Stamp[t] \in Nat /\ Stamp[u] \in Nat /\ Stamp[v] \in Nat
    BY IndexAssumption
  <1> QED BY <1>1 DEF Older

\* Sorted has every row that the query found once, in the order of the list.
LEMMA SortedList ==
    ASSUME IsFiniteSet(rows), rows \subseteq Traces
    PROVE  LET n == Cardinality(Found) IN
           /\ n \in Nat /\ DOMAIN Sorted = 1..n
           /\ \A i \in 1..n : Sorted[i] \in Found
           /\ \A t \in Found : Place(t) \in 1..n /\ Sorted[Place(t)] = t
           /\ \A i, j \in 1..n : i < j => Older(Sorted[j], Stamp[Sorted[i]], Sorted[i])
  <1> DEFINE n == Cardinality(Found)
             Before(t) == {u \in Found : u = t \/ Older(t, Stamp[u], u)}
  <1>1. Found \subseteq Traces /\ IsFiniteSet(Found) /\ n \in Nat
    <2>1. Found \subseteq rows
      BY DEF Found
    <2> QED BY <2>1, FS_Subset, FS_CardinalityType
  <1>2. \A t \in Found : Place(t) = Cardinality(Before(t))
    BY DEF Place
  <1> HIDE DEF n
  <1>3. ASSUME NEW t \in Found
        PROVE  IsFiniteSet(Before(t)) /\ Cardinality(Before(t)) \in 1..n
    <2>1. Before(t) \in SUBSET Found /\ t \in Before(t)
      OBVIOUS
    <2> HIDE DEF Before
    <2>2. IsFiniteSet(Before(t)) /\ Cardinality(Before(t)) <= n /\ Cardinality(Before(t)) \in Nat
      BY <1>1, <2>1, FS_Subset, FS_CardinalityType DEF n
    <2>3. Cardinality(Before(t)) # 0
      BY <2>1, <2>2, FS_EmptySet
    <2> QED BY <1>1, <2>2, <2>3
  <1>4. ASSUME NEW t \in Found, NEW u \in Found, Older(t, Stamp[u], u)
        PROVE  Cardinality(Before(u)) < Cardinality(Before(t))
    <2>1. \A v \in Found : Older(u, Stamp[v], v) => Older(t, Stamp[v], v)
      BY <1>1, <1>4, OlderOrder
    <2>2. t \notin Before(u) /\ t \in Before(t)
      BY <1>1, <1>4, OlderOrder
    <2>3. Before(u) \in SUBSET Before(t)
      BY <1>4, <2>1
    <2> HIDE DEF Before
    <2>4. /\ Cardinality(Before(u)) <= Cardinality(Before(t))
          /\ Cardinality(Before(u)) # Cardinality(Before(t))
      BY <1>3, <2>2, <2>3, FS_Subset
    <2> QED BY <1>1, <1>3, <2>4
  <1> HIDE DEF Before
  <1>5. ASSUME NEW t \in Found, NEW u \in Found
        PROVE  /\ Older(t, Stamp[u], u) <=> Place(u) < Place(t)
               /\ Place(t) = Place(u) => t = u
    <2>1. Place(t) \in 1..n /\ Place(u) \in 1..n
      BY <1>2, <1>3
    <2>2. CASE t = u
      BY <1>1, <2>1, <2>2, OlderOrder
    <2>3. CASE t # u
      <3>1. Older(t, Stamp[u], u) \/ Older(u, Stamp[t], t)
        BY <1>1, <2>3, OlderOrder
      <3>2. Older(t, Stamp[u], u) => Place(u) < Place(t)
        BY <1>2, <1>4
      <3>3. Older(u, Stamp[t], t) => Place(t) < Place(u)
        BY <1>2, <1>4
      <3> QED BY <1>1, <2>1, <3>1, <3>2, <3>3
    <2> QED BY <2>2, <2>3
  <1>6. \A i \in 1..n : \E t \in Found : Place(t) = i
    <2> DEFINE p == [t \in Found |-> Place(t)]
               I == {p[t] : t \in Found}
    <2>1. p \in Surjection(Found, I)
      BY DEF Surjection
    <2>2. p \in Injection(Found, I)
      BY <1>5 DEF Injection, IsInjective
    <2>3. I \subseteq 1..n
      BY <1>2, <1>3
    <2> HIDE DEF p, I
    <2>4. Cardinality(I) = n
      BY <1>1, <2>1, <2>2, FS_Surjection DEF n
    <2>5. IsFiniteSet(1..n) /\ Cardinality(1..n) = n
      BY <1>1, FS_Interval
    <2>6. I = 1..n
      BY <2>3, <2>4, <2>5, FS_Subset
    <2> QED BY <2>6 DEF I, p
  <1>7. DOMAIN Sorted = 1..n /\ \A i \in 1..n : Sorted[i] \in Found /\ Place(Sorted[i]) = i
    <2>1. Sorted = [i \in 1..n |-> CHOOSE t \in Found : Place(t) = i]
      BY DEF Sorted, n
    <2> QED BY <1>6, <2>1
  <1>8. \A t \in Found : Place(t) \in 1..n /\ Sorted[Place(t)] = t
    BY <1>2, <1>3, <1>5, <1>7
  <1>9. \A i, j \in 1..n : i < j => Older(Sorted[j], Stamp[Sorted[i]], Sorted[i])
    BY <1>5, <1>7
  <1> QED BY <1>1, <1>7, <1>8, <1>9 DEF n

\* A list that goes down as the pages do.
Descends(s) == \A i, j \in DOMAIN s : i < j => Older(s[j], Stamp[s[i]], s[i])
Shown(t) == \E i \in DOMAIN seen : seen[i] = t

\* While the client pages: its cursor is the last row it was shown, and each steady row
\* has been shown or comes after the cursor.
PageInv ==
    /\ steady \subseteq rows
    /\ seen \in Seq(Traces) /\ Descends(seen)
    /\ page \in [on: BOOLEAN, filter: Filters \cup {NoPage.filter}, limit: Limits \cup {1},
                 ts: Nat, id: Nat]
    /\ page.on =>
        /\ ~ HasCursor => seen = <<>>
        /\ HasCursor => /\ seen # <<>> /\ page.id = seen[Len(seen)]
                        /\ page.ts = Stamp[page.id]
        /\ \A t \in steady :
            /\ Matches(page.filter, t)
            /\ Shown(t) \/ (HasCursor => Older(t, page.ts, page.id))
    /\ ~ page.on => \A t \in steady : Shown(t)

LEMMA UpTo ==
    ASSUME NEW n \in Nat, NEW i \in 1..n
    PROVE  i = n \/ i < n
  OBVIOUS

\* What a page shows is put after what was shown.
LEMMA PageExtends ==
    ASSUME IndexInv, PageInv, page.on, NEW more \in Seq(Traces),
           Len(more) <= Cardinality(Found), \A i \in 1..Len(more) : more[i] = Sorted[i]
    PROVE  /\ seen \o more \in Seq(Traces) /\ Descends(seen \o more)
           /\ Len(seen \o more) = Len(seen) + Len(more)
           /\ \A i \in 1..Len(seen) : (seen \o more)[i] = seen[i]
           /\ \A i \in 1..Len(more) : (seen \o more)[Len(seen) + i] = Sorted[i]
  <1> DEFINE s == seen \o more
             n == Cardinality(Found)
  <1>1. /\ seen \in Seq(Traces) /\ Len(seen) \in Nat /\ Len(more) \in Nat
        /\ DOMAIN seen = 1..Len(seen)
    BY LenProperties DEF PageInv
  <1>2. /\ s \in Seq(Traces) /\ Len(s) = Len(seen) + Len(more)
        /\ \A i \in 1..(Len(seen) + Len(more)) :
              s[i] = IF i <= Len(seen) THEN seen[i] ELSE more[i - Len(seen)]
    BY <1>1, ConcatProperties
  <1> HIDE DEF s
  <1>3. \A i \in 1..Len(seen) : s[i] = seen[i] /\ seen[i] \in Traces
    <2>1. \A i \in 1..Len(seen) : i \in 1..(Len(seen) + Len(more)) /\ i <= Len(seen)
      BY <1>1
    <2> QED BY <1>1, <1>2, <2>1, ElementOfSeq
  <1>4. \A i \in 1..Len(more) : s[Len(seen) + i] = Sorted[i]
    <2>1. ASSUME NEW i \in 1..Len(more)
          PROVE  /\ Len(seen) + i \in 1..(Len(seen) + Len(more)) /\ ~ (Len(seen) + i <= Len(seen))
                 /\ (Len(seen) + i) - Len(seen) = i
      BY <1>1
    <2> QED BY <1>2, <2>1
  <1>5. IsFiniteSet(rows) /\ rows \subseteq Traces /\ Found \subseteq rows
    <2>1. rows \in SUBSET Inserted /\ IsFiniteSet(Inserted) /\ Inserted \subseteq Traces
      BY DEF IndexInv, SessionInv, JoinInv
    <2> QED BY <2>1, FS_Subset DEF Found
  <1>6. /\ n \in Nat
        /\ \A i \in 1..n : Sorted[i] \in Found
        /\ \A i, j \in 1..n : i < j => Older(Sorted[j], Stamp[Sorted[i]], Sorted[i])
    BY <1>5, SortedList
  <1> HIDE DEF n
  <1>7. Len(more) <= n
    BY DEF n
  <1>8. ASSUME NEW i \in 1..Len(seen), NEW k \in 1..Len(more)
        PROVE  Older(Sorted[k], Stamp[seen[i]], seen[i])
    <2>1. HasCursor /\ page.id = seen[Len(seen)] /\ page.ts = Stamp[page.id]
      <3>1. seen # <<>>
        BY <1>1, <1>8
      <3> QED BY <3>1 DEF PageInv
    <2>2. Len(seen) \in 1..Len(seen) /\ seen[Len(seen)] \in Traces /\ seen[i] \in Traces
      BY <1>1, <1>3, <1>8
    <2>3. Sorted[k] \in Found /\ Sorted[k] \in Traces
      BY <1>1, <1>5, <1>6, <1>7
    <2>4. Older(Sorted[k], Stamp[page.id], page.id)
      BY <2>1, <2>3 DEF Found
    <2>5. CASE i = Len(seen)
      BY <2>1, <2>4, <2>5
    <2>6. CASE i < Len(seen)
      <3>1. Older(seen[Len(seen)], Stamp[seen[i]], seen[i])
        BY <1>1, <2>2, <2>6 DEF PageInv, Descends
      <3> QED BY <2>1, <2>2, <2>3, <2>4, <3>1, OlderOrder
    <2>7. i = Len(seen) \/ i < Len(seen)
      BY <1>1, UpTo, ZenonT(30)
    <2> QED BY <2>5, <2>6, <2>7
  <1>9. Descends(s)
    <2> SUFFICES ASSUME NEW i \in 1..(Len(seen) + Len(more)), NEW j \in 1..(Len(seen) + Len(more)),
                        i < j
                 PROVE  Older(s[j], Stamp[s[i]], s[i])
      BY <1>1, <1>2 DEF Descends
    <2>1. CASE j \in 1..Len(seen)
      <3>1. i \in 1..Len(seen)
        BY <1>1, <2>1
      <3> QED BY <1>1, <1>3, <2>1, <3>1 DEF PageInv, Descends
    <2>2. CASE j \notin 1..Len(seen) /\ i \in 1..Len(seen)
      <3>1. PICK k \in 1..Len(more) : j = Len(seen) + k
        <4>1. j - Len(seen) \in 1..Len(more) /\ j = Len(seen) + (j - Len(seen))
          BY <1>1, <2>2
        <4> QED BY <4>1
      <3> QED BY <1>3, <1>4, <1>8, <2>2, <3>1
    <2>3. CASE j \notin 1..Len(seen) /\ i \notin 1..Len(seen)
      <3>1. PICK k \in 1..Len(more), l \in 1..Len(more) : j = Len(seen) + k /\ i = Len(seen) + l
        <4>1. /\ j - Len(seen) \in 1..Len(more) /\ j = Len(seen) + (j - Len(seen))
              /\ i - Len(seen) \in 1..Len(more) /\ i = Len(seen) + (i - Len(seen))
          BY <1>1, <2>3
        <4> QED BY <4>1
      <3>2. l < k /\ l \in 1..n /\ k \in 1..n
        BY <1>1, <1>6, <1>7, <3>1
      <3> QED BY <1>4, <1>6, <3>1, <3>2
    <2> QED BY <2>1, <2>2, <2>3
  <1> QED BY <1>2, <1>3, <1>4, <1>9 DEF s

\* What was shown stays shown, and a row that the page has is shown.
LEMMA PageShows ==
    ASSUME IndexInv, PageInv, page.on, NEW more \in Seq(Traces),
           Len(more) <= Cardinality(Found), \A i \in 1..Len(more) : more[i] = Sorted[i],
           seen' = seen \o more
    PROVE  /\ \A t : Shown(t) => Shown(t)'
           /\ \A t \in steady : Shown(t)' \/ (t \in Found /\ ~ (Place(t) <= Len(more)))
  <1>1. /\ seen' \in Seq(Traces) /\ Len(seen') = Len(seen) + Len(more)
        /\ \A i \in 1..Len(seen) : seen'[i] = seen[i]
        /\ \A i \in 1..Len(more) : seen'[Len(seen) + i] = Sorted[i]
    BY PageExtends
  <1>2. /\ Len(seen) \in Nat /\ Len(more) \in Nat
        /\ DOMAIN seen = 1..Len(seen) /\ DOMAIN seen' = 1..(Len(seen) + Len(more))
    BY <1>1, LenProperties DEF PageInv
  <1>3. \A t : Shown(t) => Shown(t)'
    <2>1. ASSUME NEW t, NEW i \in 1..Len(seen), seen[i] = t PROVE Shown(t)'
      <3>1. i \in 1..(Len(seen) + Len(more)) /\ seen'[i] = t
        BY <1>1, <1>2, <2>1
      <3> QED BY <1>2, <3>1 DEF Shown
    <2> QED BY <1>2, <2>1 DEF Shown
  <1>4. ASSUME NEW t \in steady, ~ Shown(t)', t \notin Found \/ Place(t) <= Len(more)
        PROVE  FALSE
    <2>1. t \in Found
      BY <1>3, <1>4 DEF PageInv, Found
    <2>2. IsFiniteSet(rows) /\ rows \subseteq Traces
      <3>1. rows \in SUBSET Inserted /\ IsFiniteSet(Inserted) /\ Inserted \subseteq Traces
        BY DEF IndexInv, SessionInv, JoinInv
      <3> QED BY <3>1, FS_Subset
    <2>3. Place(t) \in 1..Cardinality(Found) /\ Sorted[Place(t)] = t /\ Cardinality(Found) \in Nat
      BY <2>1, <2>2, SortedList
    <2>4. Place(t) \in 1..Len(more)
      BY <1>2, <1>4, <2>1, <2>3
    <2>5. Len(seen) + Place(t) \in DOMAIN seen' /\ seen'[Len(seen) + Place(t)] = t
      BY <1>1, <1>2, <2>3, <2>4
    <2> QED BY <1>4, <2>5 DEF Shown
  <1> QED BY <1>3, <1>4

LEMMA PageInit ==
    Init => PageInv
  <1> SUFFICES ASSUME Init PROVE PageInv
    OBVIOUS
  <1>1. page = NoPage /\ seen = <<>> /\ steady = {} /\ rows = {}
    BY DEF Init
  <1>2. page \in [on: BOOLEAN, filter: Filters \cup {NoPage.filter}, limit: Limits \cup {1},
                  ts: Nat, id: Nat] /\ ~ page.on
    BY <1>1 DEF NoPage
  <1>3. seen \in Seq(Traces) /\ Descends(seen)
    BY <1>1 DEF Descends
  <1> QED BY <1>1, <1>2, <1>3 DEF PageInv

\* Rows come and go; the client has done nothing.
LEMMA RowsPage ==
    ASSUME PageInv, UNCHANGED <<page, seen>>, steady' \subseteq steady, steady' \subseteq rows',
           \A t \in steady' : row'[t] = row[t]
    PROVE  PageInv'
  <1>1. ASSUME NEW t \in steady', Matches(page.filter, t) PROVE Matches(page.filter, t)'
    BY <1>1 DEF Matches
  <1>2. (HasCursor' <=> HasCursor) /\ \A t : Shown(t)' <=> Shown(t)
    BY DEF HasCursor, Shown
  <1>3. page'.on => \A t \in steady' :
            /\ Matches(page.filter, t)'
            /\ Shown(t)' \/ (HasCursor' => Older(t, page'.ts, page'.id))
    BY <1>1, <1>2 DEF PageInv
  <1> QED BY <1>2, <1>3 DEF PageInv, Descends

LEMMA PageStep ==
    ASSUME IndexInv, PageInv, [Next]_vars
    PROVE  PageInv'
  <1>0. rows \subseteq Inserted /\ steady \subseteq rows
    BY DEF IndexInv, SessionInv, PageInv
  <1>1. ASSUME NEW t \in Traces, AppendTrace(t)
        PROVE  PageInv'
    <2>1. /\ t \notin Inserted /\ rows' = rows \cup {t} /\ UNCHANGED <<page, seen, steady>>
          /\ \E entry : row' = [u \in Inserted \cup {t} |-> IF u = t THEN entry ELSE row[u]]
      BY <1>1 DEF AppendTrace, paging
    <2>2. \A u \in steady' : row'[u] = row[u]
      BY <1>0, <2>1
    <2> QED BY <1>0, <2>1, <2>2, RowsPage
  <1>2. ASSUME NEW key \in Keys, NEW d \in 1..MaxDay, DeleteBucket(key, d)
        PROVE  PageInv'
    BY <1>0, <1>2, RowsPage DEF DeleteBucket
  <1>3. CASE Midnight \/ UNCHANGED vars
    BY <1>0, <1>3, RowsPage DEF Midnight, vars, paging
  <1>4. CASE StartsPaging
    <2>1. PICK f \in Filters, limit \in Limits :
              /\ page' = [NoPage EXCEPT !.on = TRUE, !.filter = f, !.limit = limit]
              /\ seen' = <<>> /\ steady' = {t \in rows : Matches(f, t)}
              /\ UNCHANGED <<rows, row, day, orderly>>
      BY <1>4 DEF StartsPaging
    <2>2. page' = [on |-> TRUE, filter |-> f, limit |-> limit, ts |-> 0, id |-> 0]
      BY <2>1 DEF NoPage
    <2>3. page' \in [on: BOOLEAN, filter: Filters \cup {NoPage.filter}, limit: Limits \cup {1},
                     ts: Nat, id: Nat]
      BY <2>2
    <2>4. ~ HasCursor'
      BY <2>2 DEF HasCursor
    <2>5. \A t \in steady' : Matches(page.filter, t)'
      BY <2>1, <2>2 DEF Matches
    <2>6. (seen \in Seq(Traces))' /\ Descends(seen)' /\ (steady \subseteq rows)'
      BY <2>1 DEF Descends
    <2> QED BY <2>1, <2>2, <2>3, <2>4, <2>5, <2>6 DEF PageInv
  <1>5. ASSUME page.on
        PROVE  /\ IsFiniteSet(rows) /\ rows \subseteq Traces /\ Found \subseteq Traces
               /\ Cardinality(Found) \in Nat /\ page.limit \in Nat \ {0}
               /\ \A i \in 1..Cardinality(Found) : Sorted[i] \in Found
               /\ DOMAIN Sorted = 1..Cardinality(Found)
    <2>1. IsFiniteSet(rows) /\ rows \subseteq Traces /\ Found \subseteq rows
      <3>1. rows \in SUBSET Inserted /\ IsFiniteSet(Inserted) /\ Inserted \subseteq Traces
        BY DEF IndexInv, SessionInv, JoinInv
      <3> QED BY <3>1, FS_Subset DEF Found
    <2>2. page.limit \in Nat \ {0}
      <3>1. page.limit \in Limits \cup {1}
        BY DEF PageInv
      <3>2. Limits \subseteq Nat \ {0}
        BY IndexAssumption
      <3>3. \A x \in Limits \cup {1} : x \in Nat \ {0}
        BY <3>2
      <3> QED BY <3>1, <3>3
    <2> QED BY <2>1, <2>2, SortedList
  <1>6. CASE NextPage
    <2> DEFINE more == SubSeq(Sorted, 1, page.limit)
               n == Cardinality(Found)
               L == page.limit
    <2>1. /\ page.on /\ n > L /\ seen' = seen \o more
          /\ page' = [page EXCEPT !.ts = Stamp[Sorted[L]], !.id = Sorted[L]]
          /\ UNCHANGED <<rows, row, day, steady, orderly>>
      BY <1>6 DEF NextPage
    <2>2. L \in Nat \ {0} /\ n \in Nat /\ L \in 1..n
      BY <1>5, <2>1
    <2>3. \A i \in 1..L : Sorted[i] \in Traces
      BY <1>5, <2>1, <2>2
    <2>4. more \in Seq(Traces) /\ Len(more) = L /\ \A i \in 1..L : more[i] = Sorted[i]
      BY <2>2, <2>3, SubSeqProperties
    <2> HIDE DEF more, n
    <2>5. /\ seen' \in Seq(Traces) /\ Descends(seen)'
          /\ Len(seen') = Len(seen) + L /\ Len(seen) \in Nat
          /\ seen'[Len(seen) + L] = Sorted[L]
      <3>1. L \in 1..L /\ L <= n
        BY <2>2
      <3>2. Descends(seen)' <=> Descends(seen \o more)
        BY <2>1 DEF Descends
      <3>3. Len(seen) \in Nat
        BY LenProperties DEF PageInv
      <3> QED BY <2>1, <2>4, <3>1, <3>2, <3>3, PageExtends, ZenonT(60) DEF n
    <2>6. /\ page'.on /\ page'.ts = Stamp[Sorted[L]] /\ page'.id = Sorted[L]
          /\ page'.filter = page.filter
          /\ page' \in [on: BOOLEAN, filter: Filters \cup {NoPage.filter},
                        limit: Limits \cup {1}, ts: Nat, id: Nat]
      <3>1. Stamp[Sorted[L]] \in Nat /\ Sorted[L] \in Nat
        BY <2>2, <2>3, IndexAssumption, SMTT(60)
      <3> QED BY <2>1, <3>1 DEF PageInv
    <2>7. HasCursor'
      <3>1. Stamp[Sorted[L]] \in Nat \ {0}
        BY <2>2, <2>3, IndexAssumption
      <3> QED BY <2>6, <3>1 DEF HasCursor
    <2>8. seen' # <<>> /\ page'.id = seen'[Len(seen')] /\ page'.ts = Stamp[page'.id]
      <3>1. Len(seen') # 0
        BY <2>2, <2>5
      <3> QED BY <2>5, <2>6, <3>1
    <2>9. ASSUME NEW t \in steady
          PROVE  /\ Matches(page.filter, t)'
                 /\ Shown(t)' \/ Older(t, page'.ts, page'.id)
      <3>1. Matches(page.filter, t)'
        BY <2>1, <2>6 DEF PageInv, Matches
      <3>2. Shown(t)' \/ (t \in Found /\ ~ (Place(t) <= L))
        BY <2>1, <2>2, <2>4, PageShows DEF n
      <3>3. ASSUME t \in Found, ~ (Place(t) <= L)
            PROVE  Older(t, page'.ts, page'.id)
        <4>1. Place(t) \in 1..n /\ Sorted[Place(t)] = t
          BY <1>5, <2>1, <3>3, SortedList DEF n
        <4>2. L < Place(t)
          BY <2>2, <3>3, <4>1
        <4> QED BY <1>5, <2>1, <2>2, <2>6, <4>1, <4>2, SortedList DEF n
      <3> QED BY <3>1, <3>2, <3>3
    <2> HIDE DEF L
    <2>10. (steady \subseteq rows)'
      BY <1>0, <2>1
    <2> QED BY <2>1, <2>5, <2>6, <2>7, <2>8, <2>9, <2>10 DEF PageInv
  <1>7. CASE LastPage
    <2> DEFINE n == Cardinality(Found)
    <2>1. /\ page.on /\ seen' = seen \o Sorted /\ page' = [page EXCEPT !.on = FALSE]
          /\ UNCHANGED <<rows, row, day, steady, orderly>>
      BY <1>7 DEF LastPage
    <2>2. Sorted \in Seq(Traces) /\ Len(Sorted) = n /\ n \in Nat
      <3>1. DOMAIN Sorted = 1..n /\ n \in Nat /\ \A i \in 1..n : Sorted[i] \in Traces
        BY <1>5, <2>1
      <3>2. Sorted = [i \in 1..n |-> Sorted[i]]
        BY DEF Sorted
      <3> HIDE DEF n
      <3> QED BY <3>1, <3>2
    <2>3. seen' \in Seq(Traces) /\ Descends(seen)'
      <3>1. Descends(seen)' <=> Descends(seen \o Sorted)
        BY <2>1 DEF Descends
      <3> QED BY <2>1, <2>2, <3>1, PageExtends
    <2>4. /\ ~ page'.on
          /\ page' \in [on: BOOLEAN, filter: Filters \cup {NoPage.filter},
                        limit: Limits \cup {1}, ts: Nat, id: Nat]
      BY <2>1 DEF PageInv
    <2>5. \A t \in steady : Shown(t)'
      <3>1. \A t \in steady : Shown(t)' \/ (t \in Found /\ ~ (Place(t) <= n))
        <4>1. Len(Sorted) <= Cardinality(Found) /\ \A i \in 1..Len(Sorted) : Sorted[i] = Sorted[i]
          BY <2>2
        <4>2. \A t \in steady : Shown(t)' \/ (t \in Found /\ ~ (Place(t) <= Len(Sorted)))
          BY <2>1, <2>2, <4>1, PageShows
        <4> QED BY <2>2, <4>2
      <3>2. \A t \in Found : Place(t) \in 1..n
        BY <1>5, <2>1, SortedList
      <3> QED BY <2>2, <3>1, <3>2
    <2>6. (steady \subseteq rows)'
      BY <1>0, <2>1
    <2> QED BY <2>1, <2>3, <2>4, <2>5, <2>6 DEF PageInv
  <1> QED BY <1>1, <1>2, <1>3, <1>4, <1>6, <1>7 DEF Next

\* A client that follows the cursors to their end has been shown every row that was there all
\* the time once, in the order of the list, and no other row twice (listTraces).
THEOREM PagesList ==
    Spec => []ListedOnce
  <1>1. IndexInv /\ PageInv => ListedOnce
    BY DEF PageInv, ListedOnce, Descends, Shown, Older
  <1>2. Init => IndexInv /\ PageInv
    BY IndexInit, PageInit
  <1>3. IndexInv /\ PageInv /\ [Next]_vars => (IndexInv /\ PageInv)'
    BY IndexStep, PageStep
  <1> QED BY <1>1, <1>2, <1>3, PTL DEF Spec
=============================================================================
