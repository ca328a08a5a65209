------------------------------ MODULE Builtins ------------------------------
(***************************************************************************)
(* Plugin instances and what their hooks answer: text-append and           *)
(* text-replace (internal/plugin/v2/builtin), the routes that limit them   *)
(* (routes.go), how instances are made of their configuration              *)
(* (registry.go), and four kinds of a plugin that the hook interface       *)
(* allows: one that blocks requests, one that replaces responses, one that *)
(* panics, one that intercepts without a response.                         *)
(***************************************************************************)
EXTENDS Bodies

CONSTANT Others        \* types that are not in this binary: the kinds above

BuiltinTypes == {"text-append", "text-replace"}
UpTargets == {"last_user_message", "system_prompt"}
DownTargets == {"content", "reasoning"}

-----------------------------------------------------------------------------
(* CompileRoutes and RouteMatcher. *)

\* A pattern is a path, with or without the star.
Glob(path, star) == [path |-> path, star |-> star]

\* After a lone star nothing is looked at.
Compiles(routes) ==
    \A i \in DOMAIN routes : routes[i] = Glob(<<>>, FALSE) => \E j \in 1..(i - 1) : routes[j] = Glob(<<>>, TRUE)

Covers(routes, path) ==
    \/ routes = <<>>
    \/ \E i \in DOMAIN routes :
        IF routes[i].star THEN IsPrefix(routes[i].path, path) ELSE routes[i].path = path

\* decodeConfig and buildInstances; up and down hold a suffix, or a list of rules.
Inits(inst) ==
    /\ inst.id # ""
    /\ inst.type \in BuiltinTypes \cup Others
    /\ Compiles(inst.routes)
    /\ inst.type = "text-append" => inst.upTarget \in UpTargets /\ inst.downTarget \in DownTargets
    /\ inst.type = "text-replace" => \A rules \in {inst.up, inst.down} : \A i \in DOMAIN rules : rules[i].match # ""

-----------------------------------------------------------------------------
(* Texts are sequences of tokens. *)

\* strings.ReplaceAll, and the rules in their order.
ReplaceToken(text, rule) ==
    FlattenSeq([i \in DOMAIN text |-> IF text[i] = rule.match THEN rule.replace ELSE <<text[i]>>])
ApplyRules(text, rules) ==
    LET after[n \in 0..Len(rules)] == IF n = 0 THEN text ELSE ReplaceToken(after[n - 1], rules[n])
    IN after[Len(rules)]

AnyMatches(text, rules) == \E i \in DOMAIN text, j \in DOMAIN rules : text[i] = rules[j].match

\* MUTANT: whatever a part is, its text is rewritten.
RewriteAnyPart(part, rules) == [part EXCEPT !.text = ApplyRules(@, rules)]

\* Tool calls, results and media are not touched.
RewritePart(part, rules) ==
    IF part.type = "text" THEN [part EXCEPT !.text = ApplyRules(@, rules)] ELSE part

RewriteMessages(msgs, rules) ==
    [i \in DOMAIN msgs |->
        [msgs[i] EXCEPT !.parts = [j \in DOMAIN msgs[i].parts |-> RewritePart(msgs[i].parts[j], rules)]]]

TextsIn(parts) == {j \in DOMAIN parts : parts[j].type = "text"}

Matched(msgs, rules) ==
    \E i \in DOMAIN msgs : \E j \in TextsIn(msgs[i].parts) : AnyMatches(msgs[i].parts[j].text, rules)

UserTurns(msgs) == {i \in DOMAIN msgs : msgs[i].role = "user" /\ TextsIn(msgs[i].parts) # {}}

\* The last text of the last user turn that has one.
AppendLastUserText(msgs, suffix) ==
    LET i == Max(UserTurns(msgs))
        j == Max(TextsIn(msgs[i].parts))
    IN [msgs EXCEPT ![i].parts[j].text = @ \o suffix]

-----------------------------------------------------------------------------
(* Hooks. *)

\* The response of an intercepting kind; its text begins with the type.
Payload(type) == [status |-> 403, body |-> Response("fits", FALSE, FALSE, <<Block("text", <<type>>)>>)]

Continue == [action |-> "continue"]
MutateTo(v) == [action |-> "mutate", to |-> v]
InterceptBy(type) == [action |-> "intercept", response |-> Payload(type)]

\* shouldFire: a probability of 0, of 1 or none at all, or one in between and a draw.
Fires(inst, drawn) == inst.prob = "always" \/ (inst.prob = "some" /\ drawn)

Applies(inst, path, drawn) ==
    Covers(inst.routes, path) /\ (inst.type = "text-append" => Fires(inst, drawn))

HasBefore(inst) == inst.type # "replaces"
HasAfter(inst) == inst.type # "blocks"

AppendsBefore(inst, v) ==
    IF inst.up = NoText THEN Continue
    ELSE IF inst.upTarget = "system_prompt" THEN MutateTo([v EXCEPT !.system = @ \o inst.up])
    ELSE IF UserTurns(v.msgs) = {} THEN Continue
    ELSE MutateTo([v EXCEPT !.msgs = AppendLastUserText(@, inst.up)])

ReplacesBefore(inst, v) ==
    IF Matched(v.msgs, inst.up) THEN MutateTo([v EXCEPT !.msgs = RewriteMessages(@, inst.up)]) ELSE Continue

\* A panic is recovered, and an interception without a response is none.
OnBefore(inst, v, path, drawn) ==
    IF inst.type \in {"panics", "hollow"} \/ ~ Applies(inst, path, drawn) THEN Continue ELSE
    CASE inst.type = "text-append" -> AppendsBefore(inst, v)
      [] inst.type = "text-replace" -> ReplacesBefore(inst, v)
      [] OTHER -> InterceptBy(inst.type)

\* The branch without a stream. Appending always changes the response.
AppendsAfter(inst, r) ==
    IF inst.down = NoText THEN Continue
    ELSE IF inst.downTarget = "reasoning" THEN MutateTo([r EXCEPT !.reasoning = @ \o inst.down])
    ELSE MutateTo([r EXCEPT !.content = @ \o inst.down])

ReplacesAfter(inst, r) ==
    IF AnyMatches(r.content, inst.down) THEN MutateTo([r EXCEPT !.content = ApplyRules(@, inst.down)]) ELSE Continue

OnAfter(inst, r, path, drawn) ==
    IF inst.type \in {"panics", "hollow"} \/ ~ Applies(inst, path, drawn) THEN Continue ELSE
    CASE inst.type = "text-append" -> AppendsAfter(inst, r)
      [] inst.type = "text-replace" -> ReplacesAfter(inst, r)
      [] OTHER -> InterceptBy(inst.type)

\* The branch with a stream registers callbacks: for every text, or for the last one of
\* a block; there is none for the last reasoning.
NoCallbacks == [each |-> <<>>, last |-> <<>>]

Registers(inst, c, path, drawn) ==
    CASE inst.type = "text-append" /\ inst.downTarget = "content" /\ inst.down # NoText /\ Applies(inst, path, drawn) ->
            [c EXCEPT !.last = Append(@, inst.down)]
      [] inst.type = "text-replace" /\ Applies(inst, path, drawn) -> [c EXCEPT !.each = Append(@, inst.down)]
      [] OTHER -> c

\* The callbacks for every text, in the order of their registration.
Rewritten(text, each) ==
    LET after[n \in 0..Len(each)] == IF n = 0 THEN text ELSE ApplyRules(after[n - 1], each[n])
    IN after[Len(each)]

\* They run on each delta. What a rule looks for is a token, and a token that two deltas
\* share is in neither of them.
RewrittenDeltas(text, shared, each) ==
    FlattenSeq([k \in DOMAIN text |-> IF k \in shared THEN <<text[k]>> ELSE Rewritten(<<text[k]>>, each)])

\* What the dispatcher makes of a block of a stream it can classify; Stream tells which
\* text is the last. A block without text has no delta.
Transform(p, block, c, shared) ==
    IF p = "unknown" \/ block.type # "text" \/ block.text = NoText THEN block
    ELSE Block("text", RewrittenDeltas(block.text, shared, c.each) \o Concat(c.last))
=============================================================================
