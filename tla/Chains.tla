------------------------------- MODULE Chains -------------------------------
(***************************************************************************)
(* A request that goes through the plugins: the handler of                 *)
(* cmd/api-log/main.go, plugin_wiring.go, and the registry                 *)
(* (internal/plugin/v2/registry.go), whose list of instances an operator   *)
(* replaces meanwhile.  Every chain loads the list when it begins, so that *)
(* the BEFORE and the AFTER chain of a request may run different ones.     *)
(***************************************************************************)
EXTENDS Builtins

CONSTANTS
    Requests,       \* requests of clients
    Lists,          \* configurations of the registry
    Answers,        \* what an upstream answers
    Tokens,         \* what texts are made of, and what rules look for
    MaxReloads

\* A configuration is a list of instances.
ASSUME ChainsAssumption ==
    /\ MaxReloads \in Nat /\ <<>> \in Lists
    /\ \A list \in Lists : list \in Seq({list[i] : i \in DOMAIN list})

\* The first token of an interceptor's response is the mark of its type: it is in no text
\* of an upstream or of another plugin, and no rule looks for it.
Marks == {"blocks", "replaces"}
Unmarked == Seq(Tokens \ Marks)
UnmarkedRules == Seq([match : Tokens \ Marks, replace : Unmarked])
UnmarkedBlocks == {b \in [type : BlockTypes, text : Seq(Tokens)] : b.type = "text" => b.text \in Unmarked}

ASSUME MarksAssumption ==
    /\ Marks \cup {Newline} \subseteq Tokens /\ Others \subseteq Marks \cup {"panics", "hollow"}
    /\ \A answer \in Answers : IsResponse(answer.body) /\ answer.body.blocks \in Seq(UnmarkedBlocks)
    /\ \A list \in Lists : \A i \in DOMAIN list :
          /\ list[i].type = "text-append" => list[i].down \in Unmarked
          /\ list[i].type = "text-replace" => list[i].down \in UnmarkedRules

\* Where texts are made of tokens, so is what plugins put into requests.  In a Chat body the
\* result of a tool is a turn and never a part; a string is text.
Parts == [type : PartTypes, text : Seq(Tokens), extra : BOOLEAN]
Turns == [role : STRING, str : BOOLEAN, parts : Seq(Parts)]
Rules == Seq([match : Tokens, replace : Seq(Tokens)])

HasShape(p, turn) ==
    /\ p = "chat" => \A i \in DOMAIN turn.parts : turn.parts[i].type # "tool_result"
    /\ p = "messages" /\ turn.str => \A i \in DOMAIN turn.parts : turn.parts[i].type = "text"

ASSUME ShapesAssumption ==
    /\ \A r \in Requests :
          /\ r.body \in [json : Jsons, extra : BOOLEAN, model : STRING, system : Seq(Tokens),
                         turns : Seq(Turns), tools : Seq(Parts)]
          /\ r.body.json = "fits" => \A i \in DOMAIN r.body.turns : HasShape(DetectProtocol(r.path), r.body.turns[i])
    /\ \A list \in Lists : \A i \in DOMAIN list :
          /\ list[i].type = "text-append" => list[i].up \in Seq(Tokens)
          /\ list[i].type = "text-replace" => list[i].up \in Rules

VARIABLES
    request,                    \* given
    live, reloads,              \* the registry
    pc,
    chain, at, luck,            \* the list a chain runs, how far it is, and its draws
    view, mutated,              \* the request or response as the chain sees it, and whether it is another
    stashed, parsed,            \* the request that the AFTER chain gets
    forward,                    \* the body for the upstream
    reply, cbs,                 \* the response on its way, and the callbacks for its stream
    marker,                     \* the plugin that intercepted
    past                        \* the lists in force since a chain could have begun

chainVars == <<chain, at, luck, view, mutated>>
requestVars == <<stashed, parsed, forward>>
vars == <<request, live, reloads, pc, chainVars, requestVars, reply, cbs, marker, past>>

Proto == DetectProtocol(request.path)
NoView == NothingLifted(NoRequest)
NoMarker == [id |-> "", type |-> "", hook |-> ""]
NoReply == [status |-> 0, body |-> NoResponse]
BadGateway == [status |-> 502, body |-> NoResponse]

\* The body has been read and closed, and nothing was put in its place.
Consumed == NoBody

Healthy(list) == \A i \in DOMAIN list : Inits(list[i])

Init ==
    /\ request \in Requests
    /\ live \in {list \in Lists : Healthy(list)} /\ reloads = 0
    /\ pc = "arrive"
    /\ chain = <<>> /\ at = 1 /\ luck = FALSE /\ view = NoView /\ mutated = FALSE
    /\ stashed = FALSE /\ parsed = NoView /\ forward = request.body
    /\ reply = NoReply /\ cbs = NoCallbacks /\ marker = NoMarker
    /\ past = {live}

-----------------------------------------------------------------------------
(* The registry. *)

\* All or nothing: an instance that cannot be built keeps the old list.
Reload == \E list \in Lists :
    /\ reloads < MaxReloads /\ reloads' = reloads + 1
    /\ pc # "done"
    /\ live' = IF Healthy(list) THEN list ELSE live
    /\ past' = past \cup {live'}
    /\ UNCHANGED <<request, pc, chainVars, requestVars, reply, cbs, marker>>

\* MUTANT: a chain walks the list that is in force.
InForceNow == live

\* A chain walks the list it has loaded.
InForce == chain

\* IterateBefore, IterateAfter and WrapStreamDispatcher begin.
Loads(from, to) ==
    /\ pc = from /\ pc' = to
    /\ chain' = live /\ at' = 1 /\ luck' \in BOOLEAN /\ mutated' = FALSE
    /\ UNCHANGED <<request, live, reloads, stashed, parsed, forward, reply, marker, past>>

Here == InForce[at]

\* Disabled instances and those without the hook are skipped.
Answer(hook) ==
    IF ~ Here.enabled THEN Continue
    ELSE IF hook = "before" THEN IF HasBefore(Here) THEN OnBefore(Here, view, request.path, luck) ELSE Continue
    ELSE IF HasAfter(Here) THEN OnAfter(Here, view, request.path, luck) ELSE Continue

Calls(p) == pc = p /\ at \in DOMAIN InForce
Over(p) == pc = p /\ at \notin DOMAIN InForce

PassesOn(p, hook) ==
    /\ Calls(p) /\ Answer(hook).action = "continue"
    /\ at' = at + 1
    /\ UNCHANGED <<request, live, reloads, pc, chain, luck, view, mutated, requestVars, reply, cbs, marker, past>>

Mutates(p, hook) ==
    /\ Calls(p) /\ Answer(hook).action = "mutate"
    /\ at' = at + 1 /\ view' = Answer(hook).to /\ mutated' = TRUE
    /\ UNCHANGED <<request, live, reloads, pc, chain, luck, requestVars, reply, cbs, marker, past>>

\* MUTANT: the one that blocked the request stays on record.
FirstMarker(hook) ==
    IF marker # NoMarker THEN marker ELSE [id |-> Here.id, type |-> Here.type, hook |-> hook]

Marker(hook) == [id |-> Here.id, type |-> Here.type, hook |-> hook]

\* The chain ends, and recordIntercept.
Intercepts(p, hook, to) ==
    /\ Calls(p) /\ Answer(hook).action = "intercept"
    /\ reply' = Answer(hook).response
    /\ marker' = Marker(hook)
    /\ pc' = to /\ past' = IF to = "enterAfter" THEN {live} ELSE past
    /\ UNCHANGED <<request, live, reloads, chainVars, requestVars, cbs>>

-----------------------------------------------------------------------------
(* The handler. *)

HasAnyPlugins == \E i \in DOMAIN live : live[i].enabled /\ (HasBefore(live[i]) \/ HasAfter(live[i]))

ForwardsAsIs ==
    /\ pc = "arrive" /\ ~ HasAnyPlugins
    /\ pc' = "upstream"
    /\ UNCHANGED <<request, live, reloads, chainVars, requestVars, reply, cbs, marker, past>>

\* readAndResetBody; a body that is too long, or breaks off, is gone when that is known.
GivesUpBuffering ==
    /\ pc = "arrive" /\ HasAnyPlugins /\ request.size # "fits"
    /\ pc' = "upstream" /\ forward' = Consumed
    /\ UNCHANGED <<request, live, reloads, chainVars, stashed, parsed, reply, cbs, marker, past>>

Buffers ==
    /\ pc = "arrive" /\ HasAnyPlugins /\ request.size = "fits"
    /\ pc' = "enterBefore"
    /\ parsed' = ParseRequest(Proto, request.body)
    /\ past' = {live}
    /\ UNCHANGED <<request, live, reloads, chainVars, stashed, forward, reply, cbs, marker>>

EntersBefore == Loads("enterBefore", "before") /\ view' = parsed /\ UNCHANGED cbs

\* applyBeforeHooks: when the body cannot be built the original one goes on, and the
\* view stays what the chain made of it.
Rebuilds ==
    /\ Over("before")
    /\ pc' = "upstream"
    /\ stashed' = TRUE /\ parsed' = view
    /\ forward' = IF mutated /\ BuildRequest(Proto, view) # NoBody THEN BuildRequest(Proto, view) ELSE forward
    /\ UNCHANGED <<request, live, reloads, chainVars, reply, cbs, marker, past>>

\* Dial errors, and a body that ends before its Content-Length.
UpstreamUnreachable ==
    /\ pc = "upstream" /\ pc' = "done"
    /\ reply' = BadGateway
    /\ UNCHANGED <<request, live, reloads, chainVars, requestVars, cbs, marker, past>>

\* makeModifyResponse, and the reading of a response that is no stream: one that breaks
\* off is served empty, one that is too long cut, and neither goes through the chain.
UpstreamAnswers == \E answer \in Answers :
    /\ pc = "upstream"
    /\ past' = {live}
    /\ reply' = [status |-> answer.status,
                 body |-> IF ~ stashed \/ answer.stream \/ answer.size = "fits" THEN answer.body
                          ELSE IF answer.size = "fails" THEN NoResponse ELSE BrokenResponse]
    /\ pc' = IF ~ stashed THEN "done"
             ELSE IF answer.stream THEN "enterStream"
             ELSE IF answer.size = "fits" THEN "enterAfter" ELSE "done"
    /\ UNCHANGED <<request, live, reloads, chainVars, requestVars, cbs, marker>>

\* modifyBufferedResponse, and runAfterChainOnIntercept for the reply of a BEFORE plugin.
EntersAfter == Loads("enterAfter", "after") /\ view' = ParseResponse(Proto, reply.body) /\ UNCHANGED cbs

WritesReply ==
    /\ Over("after")
    /\ pc' = "done"
    /\ reply' = IF mutated /\ IsBuilt(BuildResponse(Proto, view)) THEN [reply EXCEPT !.body = BuildResponse(Proto, view)]
                ELSE reply
    /\ UNCHANGED <<request, live, reloads, chainVars, requestVars, cbs, marker, past>>

\* With a stream there is no response to look at.
EntersStream ==
    Loads("enterStream", "stream") /\ cbs' = NoCallbacks /\ view' = ParseResponse(Proto, NoResponse)

RegistersNext ==
    /\ Calls("stream") /\ ~ (Here.enabled /\ HasAfter(Here) /\ Answer("after").action = "intercept")
    /\ at' = at + 1
    /\ cbs' = IF Here.enabled /\ HasAfter(Here) THEN Registers(Here, cbs, request.path, luck) ELSE cbs
    /\ UNCHANGED <<request, live, reloads, pc, chain, luck, view, mutated, requestVars, reply, marker, past>>

\* The tokens of texts through which a delta may end.
Places(blocks) == UNION {{i} \X DOMAIN blocks[i].text : i \in {j \in DOMAIN blocks : blocks[j].type = "text"}}
Shared(cuts, i) == {place[2] : place \in {cut \in cuts : cut[1] = i}}

\* MUTANT: the callbacks run in the order opposite to their registration.
StreamedBackwards(cuts) == [reply EXCEPT !.body.blocks = [i \in DOMAIN @ |->
    Transform(Proto, @[i], [each |-> Reverse(cbs.each), last |-> cbs.last], Shared(cuts, i))]]

Streamed(cuts) == [reply EXCEPT !.body.blocks =
    [i \in DOMAIN @ |-> Transform(Proto, @[i], cbs, Shared(cuts, i))]]

Streams == \E cuts \in SUBSET Places(reply.body.blocks) :
    /\ Over("stream")
    /\ pc' = "done"
    /\ reply' = Streamed(cuts)
    /\ UNCHANGED <<request, live, reloads, chainVars, requestVars, cbs, marker, past>>

Done == pc = "done" /\ UNCHANGED vars

Next ==
    \/ Reload
    \/ ForwardsAsIs \/ GivesUpBuffering \/ Buffers
    \/ EntersBefore \/ PassesOn("before", "before") \/ Mutates("before", "before")
    \/ Intercepts("before", "before", "enterAfter") \/ Rebuilds
    \/ UpstreamUnreachable \/ UpstreamAnswers
    \/ EntersAfter \/ PassesOn("after", "after") \/ Mutates("after", "after")
    \/ Intercepts("after", "after", "done") \/ WritesReply
    \/ EntersStream \/ RegistersNext \/ Intercepts("stream", "after", "done") \/ Streams
    \/ Done

Spec == Init /\ [][Next]_vars

-----------------------------------------------------------------------------
(* Properties. *)

TypeOK ==
    /\ request \in Requests /\ live \in Lists /\ chain \in Lists
    /\ reloads \in 0..MaxReloads /\ past \subseteq Lists
    /\ at \in Nat \ {0} /\ {mutated, stashed, luck} \subseteq BOOLEAN
    /\ pc \in {"arrive", "enterBefore", "before", "upstream", "enterAfter", "after", "enterStream", "stream", "done"}
    /\ marker.hook \in {"", "before", "after"}

\* Disabled instances, those that panic and those that intercept with nothing have no say.
HasSay(inst) == inst.enabled /\ inst.type \notin {"panics", "hollow"}

Step(answered, v) == IF answered.action = "mutate" THEN answered.to ELSE v

\* What an instance makes of what those in front of it have made.
Made(hook, inst, v, path, drawn) ==
    IF ~ HasSay(inst) THEN v ELSE
    CASE hook = "before" -> IF HasBefore(inst) THEN Step(OnBefore(inst, v, path, drawn), v) ELSE v
      [] hook = "after" -> IF HasAfter(inst) THEN Step(OnAfter(inst, v, path, drawn), v) ELSE v
      [] hook = "stream" -> Registers(inst, v, path, drawn)

\* What a list makes of it.
MadeBy(hook, list, v0, path, drawn) ==
    LET made[n \in 0..Len(list)] == IF n = 0 THEN v0 ELSE Made(hook, list[n], made[n - 1], path, drawn)
    IN made[Len(list)]

BeforeOf(list, v0) == MadeBy("before", list, v0, request.path, luck)
AfterOf(list, r0) == MadeBy("after", list, r0, request.path, luck)
CallbacksOf(list) == MadeBy("stream", list, NoCallbacks, request.path, luck)

LetsPass(list, type) ==
    \A i \in DOMAIN list : HasSay(list[i]) /\ list[i].type = type => ~ Covers(list[i].routes, request.path)

\* Whatever is reloaded meanwhile, a chain that comes to its end has done what one list
\* that was in force since its request or response was there does as a whole, and as if
\* the disabled instances, those that panic and those that intercept with nothing were
\* not in it: no list is run half, and no plugin is a reason not to go on (IterateBefore,
\* IterateAfter, safeBefore, safeAfter).
ChainsAreWhole ==
    /\ Over("before") =>
        \E list \in past :
            LetsPass(list, "blocks") /\ view = BeforeOf(list, ParseRequest(Proto, request.body))
    /\ Over("after") =>
        \E list \in past :
            LetsPass(list, "replaces") /\ view = AfterOf(list, ParseResponse(Proto, reply.body))
    /\ Over("stream") =>
        \E list \in past : LetsPass(list, "replaces") /\ cbs = CallbacksOf(list)

\* The plugin on record is the one whose response the client gets, also when the response
\* of a BEFORE plugin was decorated by others, or replaced by an AFTER plugin, and there
\* is none on record for what came from upstream (recordIntercept,
\* runAfterChainOnIntercept).
SaysWho(body, type) ==
    \E i \in DOMAIN body.blocks :
        body.blocks[i].type = "text" /\ body.blocks[i].text # NoText /\ body.blocks[i].text[1] = type

MarkerTellsSource ==
    pc = "done" => \A type \in {"blocks", "replaces"} : marker.type = type <=> SaysWho(reply.body, type)

\* What an upstream finds in a part: type and text, and whatever else only where the type is
\* one that nobody lifts, so that the part goes back as it came.
Carries(part) == <<part.type, part.text, part.type = "other" /\ part.extra>>
Carried(parts) == [i \in DOMAIN parts |-> Carries(parts[i])]

\* Where texts are joined, the view of what was written shows them joined.
Joined(m) ==
    [role |-> m.role, text |-> Concat(Texts(m.parts)), parts |-> Carried(OfType(m.parts, PartTypes \ {"text"}))]
Seen(v) == <<v.model, v.system, [i \in DOMAIN v.msgs |-> Joined(v.msgs[i])], Len(v.tools)>>

\* What the AFTER chain is shown as the request is what the upstream got: the forwarded
\* body, parsed again, gives the view that was kept, and root fields that no view lifts
\* are still there (BuildRequestBody against ParsedRequestFromHTTPRequest).  For bodies
\* of their protocol's shape, and protocols that are written.
AfterSeesForwarded ==
    stashed /\ Proto \in Written /\ request.body.json = "fits" =>
        /\ Seen(ParseRequest(Proto, forward)) = Seen(parsed)
        /\ forward.extra = request.body.extra

OfTurns(turns, types) == FlattenSeq([i \in DOMAIN turns |-> Carried(OfType(turns[i].parts, types))])
Tools == {"tool_use", "tool_result"}
Media == {"image", "other"}

\* Of Chat's system turns only a text is lifted.
Spoken(b) == IF Proto = "chat" THEN NotSystem(b.turns) ELSE b.turns

\* Whatever the plugins rewrote around them, no part that is no text is lost, doubled,
\* rewritten or out of its order: what is lifted of tool calls, of the results that are
\* parts and of images reaches the upstream, and parts of other types do with all they
\* have (Chat and Messages; in Chat calls go behind the content, and the result of a tool
\* is a turn, whose text plugins may rewrite).  A body that is written again loses what
\* is not lifted of the first three, see ToolsUntouched.
PartsReachUpstream ==
    stashed /\ Proto \in {"chat", "messages"} /\ request.body.json = "fits" =>
        \A types \in {Tools, Media} : OfTurns(Spoken(forward), types) = OfTurns(Spoken(request.body), types)

\* No append comes before a replacement: a stream appends last, whatever the order.
AppendsLast(list) ==
    \A i, j \in DOMAIN list : i < j /\ list[i].type = "text-append" => list[j].type # "text-replace"

OneText ==
    /\ Over("stream") /\ Proto # "unknown" /\ reply.body.json = "fits" /\ AppendsLast(chain)
    /\ Len(BlockTexts(reply.body, "text")) = 1 /\ BlockTexts(reply.body, "text")[1] # NoText

\* No delta ends inside of what a callback looks for.
NoMatchCut(cuts) ==
    \A cut \in cuts : \A n \in DOMAIN cbs.each :
        ~ AnyMatches(<<reply.body.blocks[cut[1]].text[cut[2]]>>, cbs.each[n])

StreamsTheSame(cuts) ==
    Concat(BlockTexts(Streamed(cuts).body, "text")) = AfterOf(chain, ParseResponse(Proto, reply.body)).content

\* A response that is streamed carries the text that the same plugins make of it when it
\* is not streamed, though one way runs OnAfter on the whole text and the other callbacks
\* on its deltas, wherever these end, as long as none ends inside of what a rule looks for
\* (OnAfter's two branches, handleContentDelta, WrapStreamDispatcher).
StreamedAsBuffered ==
    OneText => \A cuts \in SUBSET Places(reply.body.blocks) : NoMatchCut(cuts) => StreamsTheSame(cuts)

(* What comments say, and the code does not keep. *)

\* plugin_wiring.go:165: a request that cannot be buffered for the plugins is forwarded
\* as it came.
PassesThrough == pc = "upstream" /\ ~ stashed => forward = request.body

\* textreplace.go:14: tool calls, results and images are left alone.
ToolsUntouched ==
    stashed /\ Proto = "messages" /\ request.body.json = "fits" =>
        \A i \in DOMAIN request.body.turns :
            OfType(forward.turns[i].parts, PartTypes \ {"text"}) = OfType(request.body.turns[i].parts, PartTypes \ {"text"})

\* textreplace.go:5: rules rewrite the content before it reaches the client. A match that
\* two deltas share does reach it.
RulesReachEveryText ==
    OneText => \A cuts \in SUBSET Places(reply.body.blocks) : StreamsTheSame(cuts)

\* plugin_wiring.go:63: AfterSeesForwarded for every protocol, those that cannot be built
\* again included.
AfterSeesEveryForwarded ==
    stashed /\ request.body.json = "fits" => Seen(ParseRequest(Proto, forward)) = Seen(parsed)
=============================================================================
