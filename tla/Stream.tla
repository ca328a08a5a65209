------------------------------- MODULE Stream -------------------------------
(***************************************************************************)
(* A streamed response under AFTER plugins: the goroutine of               *)
(* modifyStreamingResponse (cmd/api-log/plugin_wiring.go), which takes     *)
(* frames from the upstream body (internal/sse/scanner.go), passes them    *)
(* through StreamDispatcher (internal/plugin/v2/stream.go) and writes them *)
(* into a pipe that the reverse proxy copies to the client.  The           *)
(* dispatcher keeps back the last text of a block, so that a plugin can    *)
(* append to it before the block ends.                                     *)
(***************************************************************************)
EXTENDS Integers, Sequences, SequencesExt

CONSTANTS
    Protocols,      \* wire formats: messages, responses, chat, gemini
    MaxEvents,      \* frames of a response
    MaxBlocks,      \* content blocks of a response
    MaxPanics       \* callbacks that panic

ASSUME StreamAssumption ==
    /\ Protocols \subseteq {"messages", "responses", "chat", "gemini"}
    /\ MaxEvents \in Nat /\ MaxBlocks \in Nat /\ MaxPanics \in Nat

Classes == {"content", "reasoning", "tool", "stop", "terminal", "other", "done"}
Blocks == 0..MaxBlocks

\* A frame: its place in the response, its class, the index on the wire and the block it is really of.
Frames == [n : 1..MaxEvents, class : Classes, block : Blocks, inst : Blocks]

\* A frame that is written, with the callbacks that have run on its text.
Written == [n : 1..MaxEvents, class : Classes, block : Blocks, inst : Blocks, delta : 0..1, last : 0..1]

VARIABLES
    proto,      \* the protocol of this response
    kind,       \* the block that is open upstream, and how many there have been
    blocks,
    over,       \* the terminator has come
    ended,      \* how the upstream body ended
    got,        \* the frames it has sent
    pending,    \* the frame held back for each block index
    gpc,        \* the goroutine: reading, writing, done
    out,        \* what it has left to write
    pipe,       \* open, ended, failed, or closed by the reader
    sent,       \* what the client has received
    panics

upVars == <<proto, kind, blocks, over>>
vars == <<upVars, ended, got, pending, gpc, out, pipe, sent, panics>>

NoneHeld == [b \in {} |-> 0]

Init ==
    /\ proto \in Protocols
    /\ kind = "none" /\ blocks = 0 /\ over = FALSE /\ ended = "no"
    /\ got = <<>> /\ pending = NoneHeld
    /\ gpc = "read" /\ out = <<>> /\ pipe = "open" /\ sent = <<>>
    /\ panics = 0

-----------------------------------------------------------------------------
(* What the protocols allow, as Classify sees it. *)

InBlocks == proto \in {"messages", "responses"}
ClassOfKind(k) == CASE k = "text" -> "content" [] k = "thinking" -> "reasoning" [] OTHER -> "tool"

\* Responses has one virtual block, and an event of its own for the end of a text only.
WireIndex == IF proto = "messages" THEN blocks ELSE 0
StopClass == IF proto = "messages" \/ kind = "text" THEN "stop" ELSE "other"

Frame(class) == [n |-> Len(got) + 1, class |-> class, block |-> WireIndex, inst |-> blocks]

Coming == {Frame(class) : class \in Classes}

\* Pings, starts of a block, a role, a finish_reason, usage.
Unclassified(f) == f = Frame("other") /\ UNCHANGED <<kind, blocks, over>>

OpensBlock(f) ==
    /\ InBlocks /\ kind = "none" /\ blocks < MaxBlocks
    /\ kind' \in {"text", "thinking", "tool"} /\ blocks' = blocks + 1
    /\ f = Frame("other")
    /\ UNCHANGED over

Delta(f) ==
    /\ IF InBlocks THEN kind # "none" /\ f = Frame(ClassOfKind(kind))
                   ELSE \E class \in {"content", "tool"} : f = Frame(class)
    /\ UNCHANGED <<kind, blocks, over>>

StopsBlock(f) ==
    /\ InBlocks /\ kind # "none" /\ kind' = "none"
    /\ f = Frame(StopClass)
    /\ UNCHANGED <<blocks, over>>

\* message_stop and response.completed, with or without the stop of the last block before
\* them, and Chat's data: [DONE], which the scanner keeps to itself.
Terminates(f) ==
    /\ \/ InBlocks /\ f = Frame("terminal")
       \/ proto = "chat" /\ f = Frame("done")
    /\ over' = TRUE
    /\ UNCHANGED <<kind, blocks>>

Arrives(f) ==
    /\ ended = "no" /\ ~ over /\ Len(got) < MaxEvents
    /\ \/ Unclassified(f) \/ OpensBlock(f) \/ Delta(f) \/ StopsBlock(f) \/ Terminates(f)
    /\ got' = Append(got, f)
    /\ UNCHANGED <<proto, ended>>

-----------------------------------------------------------------------------
(* StreamDispatcher. *)

Marked(f, delta, last) ==
    [n |-> f.n, class |-> f.class, block |-> f.block, inst |-> f.inst, delta |-> delta, last |-> last]
Raw(f) == Marked(f, 0, 0)

\* In ascending order. Where the code walks the map in any order there is one other text at most.
Sorted(S) ==
    CHOOSE s \in [1..Cardinality(S) -> S] : \A i, j \in DOMAIN s : i < j => s[i] < s[j]
Held(S) == [i \in 1..Len(Sorted(S)) |-> pending[Sorted(S)[i]]]

ApplyLast(o) == [o EXCEPT !.last = 1]

Others(b) == Held(DOMAIN pending \ {b})
Own(b) == Held(DOMAIN pending \cap {b})
FlushAll == [i \in DOMAIN Held(DOMAIN pending) |-> ApplyLast(Held(DOMAIN pending)[i])]

\* The text before it was not the last one.
HandleContentDelta(f) ==
    /\ out' = Others(f.block) \o Own(f.block)
    /\ pending' = [b \in {f.block} |-> Marked(f, 1, 0)]

HandleContentBlockStop(f) ==
    /\ out' = Others(f.block) \o [i \in DOMAIN Own(f.block) |-> ApplyLast(Own(f.block)[i])] \o <<Raw(f)>>
    /\ pending' = NoneHeld

\* MUTANT: the terminator goes first and the end of the stream flushes.
HandleTerminalFirst(f) == out' = <<Raw(f)>> /\ UNCHANGED pending

HandleTerminal(f) == out' = FlushAll \o <<Raw(f)>> /\ pending' = NoneHeld

\* MUTANT: what is held back goes out in front of any other frame.
PassesOnFlushing(f) ==
    /\ out' = Held(DOMAIN pending) \o <<Marked(f, IF f.class = "reasoning" THEN 1 ELSE 0, 0)>>
    /\ pending' = NoneHeld

\* Reasoning has its own transforms; tools and the rest are left as they are.
PassesOn(f) ==
    /\ out' = <<Marked(f, IF f.class = "reasoning" THEN 1 ELSE 0, 0)>>
    /\ UNCHANGED pending

Process(f) ==
    \/ f.class = "content" /\ HandleContentDelta(f)
    \/ f.class = "stop" /\ HandleContentBlockStop(f)
    \/ f.class = "terminal" /\ HandleTerminal(f)
    \/ f.class \in {"reasoning", "tool", "other"} /\ PassesOn(f)
    \/ f.class = "done" /\ out' = <<>> /\ UNCHANGED pending

\* Whether plugin code runs.
Calls(f) ==
    \/ f.class \in {"content", "reasoning"}
    \/ f.class = "stop" /\ f.block \in DOMAIN pending
    \/ f.class = "terminal" /\ pending # NoneHeld

-----------------------------------------------------------------------------
(* The goroutine and its pipe. *)

Scans == \E f \in Coming :
    /\ gpc = "read" /\ gpc' = "write"
    /\ Arrives(f)
    /\ Process(f)
    /\ UNCHANGED <<pipe, sent, panics>>

\* The recover closes the pipe with an error.
ScanPanics == \E f \in Coming :
    /\ gpc = "read" /\ gpc' = "done"
    /\ Arrives(f)
    /\ Calls(f) /\ panics < MaxPanics /\ panics' = panics + 1
    /\ pipe' = IF pipe = "open" THEN "failed" ELSE pipe
    /\ UNCHANGED <<pending, out, sent>>

Breaks(how) ==
    /\ gpc = "read" /\ ended = "no" /\ ended' = how
    /\ gpc' = "write" /\ out' = FlushAll /\ pending' = NoneHeld
    /\ UNCHANGED <<upVars, got, pipe, sent, panics>>

UpstreamEnds == Breaks("eof")

\* MUTANT: the error is logged and the loop goes on.
UpstreamFailsOn == gpc = "read" /\ UNCHANGED vars

\* A reset, the idle watchdog, or the cancellation once the client is gone: logged, and the same.
UpstreamFails == Breaks("error")

FlushPanics ==
    /\ gpc = "read" /\ ended = "no" /\ ended' \in {"eof", "error"}
    /\ pending # NoneHeld /\ panics < MaxPanics /\ panics' = panics + 1
    /\ gpc' = "done" /\ pipe' = IF pipe = "open" THEN "failed" ELSE pipe
    /\ UNCHANGED <<upVars, got, pending, out, sent>>

\* A pipe has no buffer: the write returns when the copy loop has taken the frame.
Writes ==
    /\ gpc = "write" /\ out # <<>> /\ pipe = "open"
    /\ sent' = Append(sent, Head(out)) /\ out' = Tail(out)
    /\ UNCHANGED <<upVars, ended, got, pending, gpc, pipe, panics>>

WriteFails ==
    /\ gpc = "write" /\ out # <<>> /\ pipe = "closed"
    /\ gpc' = "done"
    /\ UNCHANGED <<upVars, ended, got, pending, out, pipe, sent, panics>>

ReadsOn ==
    /\ gpc = "write" /\ out = <<>> /\ ended = "no"
    /\ gpc' = "read"
    /\ UNCHANGED <<upVars, ended, got, pending, out, pipe, sent, panics>>

ClosesPipe ==
    /\ gpc = "write" /\ out = <<>> /\ ended # "no"
    /\ gpc' = "done"
    /\ pipe' = IF pipe = "open" THEN "ended" ELSE pipe
    /\ UNCHANGED <<upVars, ended, got, pending, out, sent, panics>>

\* The copy to the client failed: the proxy closes the body and cancels the request.
ReaderCloses ==
    /\ pipe = "open" /\ pipe' = "closed"
    /\ UNCHANGED <<upVars, ended, got, pending, gpc, out, sent, panics>>

Rests == gpc = "done" /\ UNCHANGED vars

Next ==
    \/ Scans \/ ScanPanics \/ UpstreamEnds \/ UpstreamFails \/ FlushPanics
    \/ Writes \/ WriteFails \/ ReadsOn \/ ClosesPipe
    \/ ReaderCloses \/ Rests

Spec == Init /\ [][Next]_vars

\* The goroutine runs, the copy loop takes what it writes or leaves, and a
\* cancelled request ends the read; the upstream itself owes nothing.
Fairness ==
    /\ WF_vars(Writes \/ WriteFails) /\ WF_vars(ReadsOn) /\ WF_vars(ClosesPipe)
    /\ WF_vars(pipe = "closed" /\ UpstreamFails)

FairSpec == Spec /\ Fairness

-----------------------------------------------------------------------------
(* Properties. *)

TypeOK ==
    /\ proto \in Protocols
    /\ kind \in {"none", "text", "thinking", "tool"} /\ blocks \in Blocks /\ over \in BOOLEAN
    /\ ended \in {"no", "eof", "error"}
    /\ got \in Seq(Frames) /\ out \in Seq(Written) /\ sent \in Seq(Written)
    /\ DOMAIN pending \subseteq Blocks /\ \A b \in DOMAIN pending : pending[b] \in Written
    /\ gpc \in {"read", "write", "done"} /\ pipe \in {"open", "ended", "failed", "closed"}
    /\ panics \in 0..MaxPanics

LastOfBlock(f) == \A i \in DOMAIN got : got[i].class = "content" /\ got[i].inst = f.inst => got[i].n <= f.n

\* What every frame is written as, once.
Expected(f) ==
    CASE f.class = "content" -> Marked(f, 1, IF LastOfBlock(f) THEN 1 ELSE 0)
      [] f.class = "reasoning" -> Marked(f, 1, 0)
      [] OTHER -> Raw(f)

\* A stream that ended without an error has every frame once; the transforms ran on each
\* text, those for the last text on the last of each block and no other, and nothing ran
\* on tool calls (StreamDispatcher, WrapStream).
WholeStream ==
    pipe = "ended" =>
        /\ ToSet(sent) = {Expected(f) : f \in {g \in ToSet(got) : g.class # "done"}}
        /\ IsInjective(sent)

\* Texts keep their order, and none comes after the end of its block or of the stream;
\* nothing else changes its place, and what passes a text that is held back belongs to
\* none (handleContentBlockStop, Process).
TextInPlace ==
    \A i, j \in DOMAIN sent : i < j =>
        /\ sent[j].class = "content" =>
            /\ sent[i].class = "content" => sent[i].n < sent[j].n
            /\ sent[i].class = "stop" => sent[i].inst # sent[j].inst
            /\ sent[i].class # "terminal"
        /\ sent[j].n < sent[i].n =>
            sent[j].class = "content" /\ sent[i].class \in {"reasoning", "tool", "other"}

\* When the body has ended or the reader has left, the goroutine ends (modifyStreamingResponse).
GoroutineEnds == (ended # "no" \/ pipe = "closed") ~> gpc = "done"

(* What comments and documents say, and the code does not do. *)

\* stream.go:553-555: what is flushed is flushed "to preserve ordering" (handleContentDelta).
OrderKept == \A i, j \in DOMAIN sent : i < j => sent[i].n < sent[j].n

\* plugin-b-c-spec.md:679: the upstream's terminal done is forwarded.
DoneForwarded ==
    pipe = "ended" /\ (\E i \in DOMAIN got : got[i].class = "done") =>
        \E i \in DOMAIN sent : sent[i].class = "done"

\* plugin-b-c-spec.md:533: a panicking plugin produces no mutation, and the proxy continues.
PanicChangesNothing == panics > 0 => pipe # "failed"
=============================================================================
