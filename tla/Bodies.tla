------------------------------- MODULE Bodies -------------------------------
(***************************************************************************)
(* Request and response bodies of the four protocols, as plugins see them  *)
(* and as they are written again (internal/plugin/v2: types.go, http.go,   *)
(* parsed.go, build.go).  A view lifts some fields of a body; writing it   *)
(* lays them over what the body had.  Whatever else an object carries is   *)
(* one flag, extra: there is something that the view does not lift.        *)
(***************************************************************************)
EXTENDS Naturals, Sequences, SequencesExt

Protocols == {"chat", "messages", "responses", "gemini", "unknown"}
Written == {"chat", "messages", "responses"}    \* Gemini is not, see BuildRequest

Newline == "\n"
NoText == <<>>      \* a text is a sequence of tokens

\* The JSON of a body: has the shape of its protocol, is an object with a field of
\* another type, is no object, or there is none.
Jsons == {"fits", "odd", "broken", "empty"}
IsObject(b) == b.json \in {"fits", "odd"}

PartTypes == {"text", "image", "tool_use", "tool_result", "other"}

Part(type, text, extra) == [type |-> type, text |-> text, extra |-> extra]
TextPart(text) == Part("text", text, FALSE)

\* Content is a string, or an array of parts.
Turn(role, str, parts) == [role |-> role, str |-> str, parts |-> parts]

NoRequest == [json |-> "empty", extra |-> FALSE, model |-> "", system |-> NoText,
              turns |-> <<>>, tools |-> <<>>]

Subsequence(s, places) == FlattenSeq([i \in DOMAIN s |-> IF i \in places THEN <<s[i]>> ELSE <<>>])

OfType(parts, types) == Subsequence(parts, {i \in DOMAIN parts : parts[i].type \in types})
Texts(parts) == [i \in DOMAIN OfType(parts, {"text"}) |-> OfType(parts, {"text"})[i].text]
Concat(texts) == FlattenSeq(texts)

-----------------------------------------------------------------------------
(* DetectProtocol, ParsedRequestFromHTTPRequest. *)

\* A path is a sequence of segments.
Has(path, sub) == \E i \in DOMAIN path : IsPrefix(sub, SubSeq(path, i, Len(path)))

DetectProtocol(path) ==
    IF Has(path, <<"v1", "chat">>) THEN "chat"
    ELSE IF Has(path, <<"v1", "messages">>) THEN "messages"
    ELSE IF Has(path, <<"v1", "responses">>) THEN "responses"
    ELSE IF Has(path, <<"v1beta">>) THEN "gemini"
    ELSE "unknown"

Message(role, parts) == [role |-> role, parts |-> parts]

View(model, system, msgs, tools, raw) ==
    [model |-> model, system |-> system, msgs |-> msgs, tools |-> tools, raw |-> raw]
NothingLifted(b) == View("", NoText, <<>>, <<>>, b)

\* The texts of a system prompt go on lines of their own.
AddLine(sofar, text) == IF sofar = NoText THEN text ELSE sofar \o <<Newline>> \o text
Lines(texts) ==
    LET joined[n \in 0..Len(texts)] == IF n = 0 THEN NoText ELSE AddLine(joined[n - 1], texts[n])
    IN joined[Len(texts)]

\* Chat and Responses have system turns among the others: the first that says something.
IsSystem(turn) == turn.role = "system"
OfSystem(turns) == Subsequence(turns, {i \in DOMAIN turns : IsSystem(turns[i])})
NotSystem(turns) == Subsequence(turns, {i \in DOMAIN turns : ~ IsSystem(turns[i])})
SystemTexts(turns) == [i \in DOMAIN OfSystem(turns) |-> Lines(Texts(OfSystem(turns)[i].parts))]
FirstText(texts) ==
    LET told == {i \in DOMAIN texts : texts[i] # NoText} IN IF told = {} THEN NoText ELSE texts[Min(told)]

\* Tool calls have a field of their own; the view puts them after the content.
ChatContent(turn) == OfType(turn.parts, PartTypes \ {"tool_use"}) \o OfType(turn.parts, {"tool_use"})

ParseChat(b) ==
    LET turns == NotSystem(b.turns)
    IN View(b.model, FirstText(SystemTexts(b.turns)),
            [i \in DOMAIN turns |-> Message(turns[i].role, ChatContent(turns[i]))], b.tools, b)

\* A string without text is no part.
MessagesContent(turn) ==
    Subsequence(turn.parts, {i \in DOMAIN turn.parts : turn.str => turn.parts[i].text # NoText})

ParseMessages(b) ==
    View(b.model, b.system, [i \in DOMAIN b.turns |-> Message(b.turns[i].role, MessagesContent(b.turns[i]))], b.tools, b)

\* An item that is no message, a function_call say, has no role and no content.
NoMessage(turn) == turn.role = ""
ResponsesContent(turn) == IF NoMessage(turn) THEN <<>> ELSE turn.parts
ResponsesRole(turn) == IF NoMessage(turn) THEN "user" ELSE turn.role

ParseResponses(b) ==
    LET turns == NotSystem(b.turns)
    IN View(b.model, FirstText(<<b.system>> \o SystemTexts(b.turns)),
            [i \in DOMAIN turns |-> Message(ResponsesRole(turns[i]), ResponsesContent(turns[i]))], b.tools, b)

\* A part is told by the field it has; an empty text is as good as none.
GeminiContent(turn) ==
    [i \in DOMAIN turn.parts |->
        IF turn.parts[i].type = "text" /\ turn.parts[i].text = NoText
        THEN [turn.parts[i] EXCEPT !.type = "other"] ELSE turn.parts[i]]

ParseGemini(b) ==
    LET role(turn) == CASE turn.role = "model" -> "assistant" [] turn.role = "" -> "user" [] OTHER -> turn.role
    IN View("", b.system, [i \in DOMAIN b.turns |-> Message(role(b.turns[i]), GeminiContent(b.turns[i]))], b.tools, b)

\* One field of another type, and nothing is lifted.
ParseRequest(p, b) ==
    IF p = "unknown" \/ b.json # "fits" THEN NothingLifted(b) ELSE
    CASE p = "chat" -> ParseChat(b)
      [] p = "messages" -> ParseMessages(b)
      [] p = "responses" -> ParseResponses(b)
      [] p = "gemini" -> ParseGemini(b)

-----------------------------------------------------------------------------
(* BuildRequestBody. *)

NoBody == [NoRequest EXCEPT !.json = "broken"]

\* Fields of the view over those of the raw body, if that is an object.
Root(v) == IF IsObject(v.raw) THEN [v.raw EXCEPT !.json = "fits"] ELSE [NoRequest EXCEPT !.json = "fits"]

\* Parts of these types are written field by field; the others go back as they came.
Plain(part) == [part EXCEPT !.extra = FALSE]
PlainIf(parts, types) == [i \in DOMAIN parts |-> IF parts[i].type \in types THEN Plain(parts[i]) ELSE parts[i]]

\* Tools of the view, or those of the root when there are none.
ToolsOver(v) == IF v.tools = <<>> THEN Root(v).tools ELSE [i \in DOMAIN v.tools |-> Plain(v.tools[i])]

StringTurn(role, text, calls) ==
    Turn(role, TRUE, (IF text = NoText THEN <<>> ELSE <<TextPart(text)>>) \o calls)

ChatCalls(m) == PlainIf(OfType(m.parts, {"tool_use"}), {"tool_use"})

\* MUTANT: next to parts of another type the texts are forgotten.
BuildChatTurnBare(m) ==
    IF OfType(m.parts, PartTypes \ {"text", "tool_use"}) = <<>>
    THEN StringTurn(m.role, Concat(Texts(m.parts)), ChatCalls(m))
    ELSE Turn(m.role, FALSE, PlainIf(OfType(m.parts, PartTypes \ {"text", "tool_use"}), {"image"}) \o ChatCalls(m))

\* splitChatParts: texts alone become one string.
BuildChatTurn(m) ==
    IF OfType(m.parts, PartTypes \ {"text", "tool_use"}) = <<>>
    THEN StringTurn(m.role, Concat(Texts(m.parts)), ChatCalls(m))
    ELSE Turn(m.role, FALSE, PlainIf(OfType(m.parts, PartTypes \ {"tool_use"}), {"text", "image"}) \o ChatCalls(m))

BuildChat(v) ==
    LET system == IF v.system = NoText THEN <<>> ELSE <<StringTurn("system", v.system, <<>>)>>
    IN [Root(v) EXCEPT !.model = v.model, !.tools = ToolsOver(v),
                       !.turns = system \o [i \in DOMAIN v.msgs |-> BuildChatTurn(v.msgs[i])]]

BuildMessagesParts(parts) == PlainIf(parts, {"text", "image", "tool_use", "tool_result"})

BuildMessagesTurn(m) ==
    IF Len(m.parts) = 1 /\ m.parts[1].type = "text" THEN StringTurn(m.role, m.parts[1].text, <<>>)
    ELSE Turn(m.role, FALSE, BuildMessagesParts(m.parts))

\* An empty system prompt is deleted.
BuildMessages(v) ==
    [Root(v) EXCEPT !.model = v.model, !.tools = ToolsOver(v), !.system = v.system,
                    !.turns = [i \in DOMAIN v.msgs |-> BuildMessagesTurn(v.msgs[i])]]

BuildResponsesParts(parts) == PlainIf(parts, {"text", "image"})

BuildResponsesTurn(m) == Turn(m.role, FALSE, BuildResponsesParts(m.parts))

\* An empty one leaves the instructions that were there.
BuildResponses(v) ==
    [Root(v) EXCEPT !.model = v.model, !.tools = ToolsOver(v),
                    !.system = IF v.system = NoText THEN @ ELSE v.system,
                    !.turns = [i \in DOMAIN v.msgs |-> BuildResponsesTurn(v.msgs[i])]]

BuildRequest(p, v) ==
    CASE p = "chat" -> BuildChat(v)
      [] p = "messages" -> BuildMessages(v)
      [] p = "responses" -> BuildResponses(v)
      [] p = "gemini" /\ v.raw.json # "empty" -> v.raw
      [] OTHER -> NoBody

-----------------------------------------------------------------------------
(* ParsedResponseFromBody, BuildResponseBody. *)

\* Blocks of text, reasoning and tool calls, and of types nothing is lifted from;
\* finish is Chat's finish_reason, which is inside the choice.
Response(json, extra, finish, blocks) == [json |-> json, extra |-> extra, finish |-> finish, blocks |-> blocks]
IsResponse(b) == b = Response(b.json, b.extra, b.finish, b.blocks)
BlockTypes == {"text", "reasoning", "tool", "other"}
Block(type, text) == [type |-> type, text |-> text]
NoResponse == Response("empty", FALSE, FALSE, <<>>)

BlockTexts(b, type) ==
    FlattenSeq([i \in DOMAIN b.blocks |-> IF b.blocks[i].type = type THEN <<b.blocks[i].text>> ELSE <<>>])

Reply(content, reasoning, calls, raw) ==
    [content |-> content, reasoning |-> reasoning, calls |-> calls, raw |-> raw]

\* The first choice; its texts are joined like those of a system prompt.
ParseChatReply(b) == Reply(Lines(BlockTexts(b, "text")), NoText, BlockTexts(b, "tool"), b)

ParseMessagesReply(b) ==
    Reply(Concat(BlockTexts(b, "text")), Concat(BlockTexts(b, "reasoning")), BlockTexts(b, "tool"), b)

ParseResponsesReply(b) ==
    Reply(Concat(BlockTexts(b, "text")), Concat(BlockTexts(b, "reasoning")), BlockTexts(b, "tool"), b)

ParseGeminiReply(b) == Reply(Concat(BlockTexts(b, "text")), NoText, BlockTexts(b, "tool"), b)

ParseResponse(p, b) ==
    IF p = "unknown" \/ b.json # "fits" THEN Reply(NoText, NoText, <<>>, b) ELSE
    CASE p = "chat" -> ParseChatReply(b)
      [] p = "messages" -> ParseMessagesReply(b)
      [] p = "responses" -> ParseResponsesReply(b)
      [] p = "gemini" -> ParseGeminiReply(b)

BlockUnlessEmpty(type, text) == IF text = NoText THEN <<>> ELSE <<Block(type, text)>>
ToolBlocks(r) == [i \in DOMAIN r.calls |-> Block("tool", r.calls[i])]

BrokenResponse == Response("broken", FALSE, FALSE, <<>>)
RootFlag(r, flag) == IsObject(r.raw) /\ flag

\* A new choice; nobody fills in Usage, so it has no finish_reason.
BuildChatReply(r) ==
    Response("fits", RootFlag(r, r.raw.extra), FALSE, BlockUnlessEmpty("text", r.content) \o ToolBlocks(r))

\* Reasoning, one text, and the tool calls, which cannot be written without an input.
BuildMessagesReply(r) ==
    IF \E i \in DOMAIN r.calls : r.calls[i] = NoText THEN BrokenResponse
    ELSE Response("fits", RootFlag(r, r.raw.extra), RootFlag(r, r.raw.finish),
                  BlockUnlessEmpty("reasoning", r.reasoning) \o BlockUnlessEmpty("text", r.content) \o ToolBlocks(r))

BuildResponsesReply(r) ==
    Response("fits", RootFlag(r, r.raw.extra), RootFlag(r, r.raw.finish),
             BlockUnlessEmpty("reasoning", r.reasoning) \o BlockUnlessEmpty("text", r.content) \o ToolBlocks(r))

BuildResponse(p, r) ==
    CASE p = "chat" -> BuildChatReply(r)
      [] p = "messages" -> BuildMessagesReply(r)
      [] p = "responses" -> BuildResponsesReply(r)
      [] p = "gemini" /\ r.raw.json # "empty" -> r.raw
      [] OTHER -> BrokenResponse

IsBuilt(b) == b # BrokenResponse
=============================================================================
