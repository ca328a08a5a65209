------------------------------ MODULE MCIndex ------------------------------
(* Four traces, two of them of one millisecond: a conversation of three    *)
(* turns that a client may repeat, fork, spell anew, or hold in another    *)
(* protocol, and requests that have no session.                            *)
EXTENDS Index

MCTraces == 1..4
MCStamp == <<1, 2, 2, 3>>

Said(role, content, spelling) == [role |-> role, content |-> content, spelling |-> spelling]
Asked(path, system, form, items) ==
    [key |-> "k1", path |-> path, parses |-> TRUE, system |-> system, form |-> form, items |-> items]

A == Said("user", "a", 0)
B == Said("assistant", "b", 0)
C == Said("user", "c", 0)

First == Asked("chat", "absent", "messages", <<A>>)
Second == Asked("chat", "absent", "messages", <<A, B>>)
Third == Asked("chat", "absent", "messages", <<Said("user", "a", 1), B, C>>)
Fork == Asked("messages", "null", "messages", <<A, C>>)
Prompted == Asked("messages", "s", "messages", <<A>>)
PromptedOn == Asked("responses", "s", "text", <<A>>)
PromptedMore == Asked("messages", "s", "messages", <<A, B>>)
Mixed == Asked("responses", "s", "mixed", <<A>>)
NoInput == Asked("responses", "s", "none", <<>>)
Elsewhere == [Second EXCEPT !.key = "k2"]
Cut == [Second EXCEPT !.parses = FALSE]

MCSent == <<{First, Prompted, NoInput},
            {Second, PromptedOn, Fork},
            {First, Elsewhere, Cut},
            {Third, PromptedMore, Mixed}>>
MCRequests == UNION {MCSent[t] : t \in MCTraces}
MCFilters == {[NoPage.filter EXCEPT !.key = "k1", !.since = 2], [NoPage.filter EXCEPT !.root = 1]}
=============================================================================
