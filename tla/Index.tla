------------------------------- MODULE Index -------------------------------
(***************************************************************************)
(* The SQLite index: sessions that are inferred when a row is inserted     *)
(* (internal/session, store/sqlite/insert.go), rows that go with their     *)
(* bucket (delete.go), and a client that pages through a list of them      *)
(* (query.go, api/traces.go).  A row is inserted when its response is      *)
(* over, so rows come in another order than their requests did.            *)
(***************************************************************************)
EXTENDS Naturals, Sequences, FiniteSets

CONSTANTS
    Traces,         \* identifiers, numbered in their order
    Stamp,          \* ts_start of each, in milliseconds
    Requests,       \* requests of clients
    Sent,           \* which of them a trace may be of
    Keys, Contents,
    Filters, Limits,
    MaxDay

Any == "any"
Virtual == "__apilog_system__"
Roles == {"system", "user", "assistant"}

\* JSON of equal value may be spelled in several ways.
Messages == [role : Roles, content : Contents, spelling : Nat]

ASSUME IndexAssumption ==
    /\ Traces \subseteq Nat /\ Stamp \in [Traces -> Nat \ {0}]
    /\ \A t, u \in Traces : t < u => Stamp[t] <= Stamp[u]
    /\ Requests \subseteq
        [key : Keys, path : {"chat", "messages", "responses", "other"}, parses : BOOLEAN,
         system : Contents \cup {"absent", "null"}, form : {"none", "text", "messages", "mixed"},
         items : Seq(Messages)]
    /\ Sent \in [Traces -> SUBSET Requests]
    /\ Limits \subseteq Nat \ {0} /\ MaxDay \in Nat \ {0}

-----------------------------------------------------------------------------
(* internal/session. *)

\* One object of the array: which role, what it has beside it, and its value.
Spoken(role, field, value) == [role |-> role, field |-> field, value |-> value]

\* buildVirtualSystem, for a system prompt that is set.
VirtualTurns(q) ==
    IF q.system \in {"absent", "null"} THEN <<>> ELSE <<Spoken(Virtual, "content", <<<<q.system>>>>)>>

\* canonicalize: keys are sorted and white space is dropped.
Canonical(items, field) ==
    [i \in DOMAIN items |-> Spoken(items[i].role, field, <<<<items[i].content>>>>)]

\* buildOpaqueTurn: the input as one value.
OpaqueTurn(items) ==
    Spoken("user", "input", [i \in DOMAIN items |-> <<items[i].role, items[i].content>>])

FromChat(q) == Canonical(q.items, "content")

FromAnthropic(q) == IF q.items = <<>> THEN <<>> ELSE VirtualTurns(q) \o Canonical(q.items, "content")

\* A text becomes a message of the user; items that are messages have a type as well.
FromResponses(q) ==
    VirtualTurns(q) \o
        CASE q.form = "none" -> <<>>
          [] q.form = "text" -> Canonical(q.items, "content")
          [] q.form = "messages" /\ q.items # <<>> -> Canonical(q.items, "message")
          [] OTHER -> <<OpaqueTurn(q.items)>>

\* MUTANT: the system prompt is left out.
BuildBare(q) == IF q.parses THEN Canonical(q.items, "content") ELSE <<>>

\* The turns of a request, with none for a request that has no session.
Build(q) ==
    IF ~ q.parses \/ q.path = "other" THEN <<>> ELSE
    CASE q.path = "chat" -> FromChat(q)
      [] q.path = "messages" -> FromAnthropic(q)
      [] OTHER -> FromResponses(q)

\* MUTANT: the loop ends before the shortest.
LongPrefixHashes(turns) == {SubSeq(turns, 1, k) : k \in 2..(Len(turns) - 1)}

\* A hash stands for the turns it was taken of.
StrictPrefixHashes(turns) == {SubSeq(turns, 1, k) : k \in 1..(Len(turns) - 1)}

-----------------------------------------------------------------------------
VARIABLES
    rows,           \* what is in the table
    row,            \* every row there has been; its hash is that of its turns
    day,
    page,           \* the client: its filter and limit, and the cursor it has
    seen,           \* what it was shown
    steady,         \* the rows that have been there, and in its list, all the time
    orderly         \* no row came after one that continues or repeats it, or was evicted

paging == <<page, seen, steady>>
vars == <<rows, row, day, paging, orderly>>

NoPage == [on |-> FALSE, filter |-> [since |-> 0, key |-> Any, root |-> 0], limit |-> 1, ts |-> 0, id |-> 0]

Init ==
    /\ rows = {} /\ row = [t \in {} |-> {}]
    /\ day = 1
    /\ page = NoPage /\ seen = <<>> /\ steady = {}
    /\ orderly = TRUE

Inserted == DOMAIN row

\* MUTANT: the key is not asked for.
CandidatesOfAll(key, turns) == {t \in rows : row[t].turns \in StrictPrefixHashes(turns)}

\* findParentTx.
Candidates(key, turns) == {t \in rows : row[t].key = key /\ row[t].turns \in StrictPrefixHashes(turns)}

\* The longest; of several the most recent; of several of one millisecond any.
Parents(key, turns) ==
    LET found == Candidates(key, turns)
    IN {t \in found : \A u \in found :
            \/ Len(row[u].turns) < Len(row[t].turns)
            \/ Len(row[u].turns) = Len(row[t].turns) /\ Stamp[u] <= Stamp[t]}

IsPrefixOf(s, t) == Len(s) <= Len(t) /\ \A i \in 1..Len(s) : s[i] = t[i]

Row(q, parent, root) ==
    [request |-> q, key |-> q.key, turns |-> Build(q), parent |-> parent, root |-> root, day |-> day]

\* AppendTrace, one transaction.
AppendTrace(t) == \E q \in Sent[t] :
    LET turns == Build(q) IN
    /\ t \notin Inserted
    /\ rows' = rows \cup {t}
    /\ \E entry \in
            IF Parents(q.key, turns) = {} THEN {Row(q, 0, t)}
            ELSE {Row(q, u, row[u].root) : u \in Parents(q.key, turns)} :
        row' = [u \in Inserted \cup {t} |-> IF u = t THEN entry ELSE row[u]]
    /\ orderly' = (orderly /\ \A u \in Inserted :
            row[u].key = q.key /\ turns # <<>> => ~ IsPrefixOf(turns, row[u].turns))
    /\ UNCHANGED <<day, paging>>

\* DeleteByJSONLPath, for the bucket of a key and a day.
DeleteBucket(key, d) ==
    LET gone == {t \in rows : row[t].key = key /\ row[t].day = d} IN
    /\ gone # {}
    /\ rows' = rows \ gone /\ steady' = steady \ gone
    /\ orderly' = FALSE
    /\ UNCHANGED <<row, day, page, seen>>

Midnight == day < MaxDay /\ day' = day + 1 /\ UNCHANGED <<rows, row, paging, orderly>>

-----------------------------------------------------------------------------
(* listTraces and List. *)

\* buildListConds.
Matches(f, t) ==
    /\ Stamp[t] >= f.since
    /\ f.key \in {Any, row[t].key}
    /\ f.root \in {0, row[t].root}

\* ts_start DESC, id DESC.
Older(t, ts, id) == Stamp[t] < ts \/ (Stamp[t] = ts /\ t < id)

HasCursor == page.ts > 0 \/ page.id > 0

\* MUTANT: the cursor is a time.
FoundByTime == {t \in rows : Matches(page.filter, t) /\ (HasCursor => Stamp[t] < page.ts)}

\* The rows that the query finds, and their order.
Found == {t \in rows : Matches(page.filter, t) /\ (HasCursor => Older(t, page.ts, page.id))}
Place(t) == Cardinality({u \in Found : u = t \/ Older(t, Stamp[u], u)})
Sorted == [i \in 1..Cardinality(Found) |-> CHOOSE t \in Found : Place(t) = i]

StartsPaging == \E f \in Filters, limit \in Limits :
    /\ ~ page.on
    /\ page' = [NoPage EXCEPT !.on = TRUE, !.filter = f, !.limit = limit]
    /\ seen' = <<>> /\ steady' = {t \in rows : Matches(f, t)}
    /\ UNCHANGED <<rows, row, day, orderly>>

\* One row more than the limit is asked for; the cursor is the last one that is shown.
NextPage ==
    /\ page.on /\ Cardinality(Found) > page.limit
    /\ seen' = seen \o SubSeq(Sorted, 1, page.limit)
    /\ page' = [page EXCEPT !.ts = Stamp[Sorted[page.limit]], !.id = Sorted[page.limit]]
    /\ UNCHANGED <<rows, row, day, steady, orderly>>

LastPage ==
    /\ page.on /\ Cardinality(Found) <= page.limit
    /\ seen' = seen \o Sorted
    /\ page' = [page EXCEPT !.on = FALSE]
    /\ UNCHANGED <<rows, row, day, steady, orderly>>

Next ==
    \/ \E t \in Traces : AppendTrace(t)
    \/ \E key \in Keys, d \in 1..MaxDay : DeleteBucket(key, d)
    \/ Midnight
    \/ StartsPaging \/ NextPage \/ LastPage

Spec == Init /\ [][Next]_vars

-----------------------------------------------------------------------------
(* Properties. *)

TypeOK ==
    /\ rows \subseteq Inserted /\ Inserted \subseteq Traces
    /\ \A t \in Inserted : row[t].request \in Requests /\ row[t].root \in Inserted
    /\ day \in 1..MaxDay /\ orderly \in BOOLEAN
    /\ steady \subseteq rows

\* Each trace of a session has been sent by the key of the trace that the session is named
\* after, and begins with all the turns of that one, which is a root itself: whatever
\* order they came in, and whichever of those between have been evicted (AppendTrace).
RootIsPrefix ==
    \A t \in Inserted :
        LET root == row[t].root IN
        /\ root \in Inserted /\ row[root].root = root
        /\ row[root].key = row[t].key
        /\ IsPrefixOf(row[root].turns, row[t].turns)

SystemOf(q) ==
    IF q.path = "chat" \/ q.system = "null" THEN "absent" ELSE q.system

\* The traces of a session have one system prompt, or all of them none, across the
\* protocols that have it in another place (fromAnthropic, fromResponses).
SessionsShareSystem ==
    \A t, u \in Inserted :
        row[t].root = row[u].root => t = u \/ SystemOf(row[t].request) = SystemOf(row[u].request)

\* As long as nothing is evicted, sent twice, or finished before what it continues, two
\* traces of one key of which one continues the other are in one session. A trace without
\* turns (an embedding) continues nothing, and nothing continues it.
ContinuationsJoin ==
    orderly =>
        \A t, u \in Inserted :
            /\ row[t].key = row[u].key /\ row[t].turns # <<>>
            /\ IsPrefixOf(row[t].turns, row[u].turns)
            => row[t].root = row[u].root

\* A client that follows the cursors to their end has been shown every row that was there
\* all the time once, in the order of the list, and no other row twice, whatever was
\* inserted and evicted between the pages.
ListedOnce ==
    /\ \A i, j \in DOMAIN seen : i < j =>
        \/ Stamp[seen[j]] < Stamp[seen[i]]
        \/ Stamp[seen[j]] = Stamp[seen[i]] /\ seen[j] < seen[i]
    /\ ~ page.on => \A t \in steady : \E i \in DOMAIN seen : seen[i] = t

(* What comments say, and the code does not keep. *)

\* ARCHITECTURE.md:379: the session of a trace is that of the conversation it continues.
AlwaysJoined ==
    \A t, u \in Inserted :
        /\ row[t].key = row[u].key /\ row[t].turns # <<>>
        /\ IsPrefixOf(row[t].turns, row[u].turns) /\ Len(row[t].turns) < Len(row[u].turns)
        => row[t].root = row[u].root
=============================================================================
