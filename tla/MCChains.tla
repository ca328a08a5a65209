------------------------------ MODULE MCChains ------------------------------
EXTENDS Chains

Kinds == {"blocks", "replaces", "panics", "hollow"}

Rule(match, by) == [match |-> match, replace |-> <<by>>]

Instance(id, type, up, down) ==
    [id |-> id, type |-> type, enabled |-> TRUE, routes |-> <<>>, up |-> up, down |-> down,
     upTarget |-> "last_user_message", downTarget |-> "content", prob |-> "always"]

AB == Instance("ab", "text-replace", <<Rule("a", "b")>>, <<Rule("a", "b")>>)
BC == Instance("bc", "text-replace", <<Rule("b", "c")>>, <<Rule("b", "c")>>)
NoMatch == Instance("nomatch", "text-replace", <<Rule("", "c")>>, <<>>)
Note == Instance("note", "text-append", <<"u">>, <<"d">>)
Maybe == [Instance("maybe", "text-append", <<"s">>, <<"r">>) EXCEPT
            !.upTarget = "system_prompt", !.downTarget = "reasoning", !.prob = "some"]
Blocking == [Instance("blocking", "blocks", <<>>, <<>>) EXCEPT
                !.routes = <<Glob(<<"v1", "messages">>, TRUE), Glob(<<"v1", "chat">>, FALSE)>>]
Replacing == [Instance("replacing", "replaces", <<>>, <<>>) EXCEPT !.routes = <<Glob(<<>>, TRUE), Glob(<<>>, FALSE)>>]
Panicking == Instance("panicking", "panics", <<>>, <<>>)
Nothing == Instance("nothing", "hollow", <<>>, <<>>)

Off(inst) == [inst EXCEPT !.enabled = FALSE]

MCLists == {
    <<>>,
    <<Off(Note), Off(Blocking)>>,
    <<AB, BC, Note>>,
    <<Note, Panicking, BC, AB>>,
    <<Off(BC), AB, Maybe, Nothing, Note>>,
    <<Note, Blocking, AB>>,
    <<Maybe, Blocking, Replacing>>,
    <<Note, NoMatch>>}

MCTokens == {"", Newline, "a", "b", "c", "d", "r", "s", "u"} \cup Kinds

Text(token) == TextPart(<<token>>)
Call == Part("tool_use", <<"a">>, TRUE)
Result == Part("tool_result", <<"a">>, TRUE)
Image == Part("image", NoText, TRUE)
Audio == Part("other", NoText, TRUE)

Body(turns) == [json |-> "fits", extra |-> TRUE, model |-> "m", system |-> NoText, turns |-> turns, tools |-> <<>>]

Path(p) == CASE p = "chat" -> <<"v1", "chat">>
             [] p = "messages" -> <<"v1", "messages", "?">>
             [] p = "responses" -> <<"v1", "responses">>
             [] p = "gemini" -> <<"v1beta", "m">>
             [] OTHER -> <<"other">>

Request(p, size, body) == [path |-> Path(p), size |-> size, body |-> body]

Short == Body(<<Turn("user", TRUE, <<Text("a")>>)>>)

\* Parts of every kind, and several texts in a turn.
Rich(p) ==
    CASE p = "chat" -> Body(<<Turn("system", FALSE, <<Text("a"), Text("b")>>), Turn("system", TRUE, <<Text("b")>>),
                              Turn("user", FALSE, <<Text("a"), Image, Text("b"), Audio>>),
                              Turn("assistant", TRUE, <<Text("b"), Call>>), Turn("tool", TRUE, <<Text("a")>>)>>)
      [] p = "messages" -> [Body(<<Turn("user", FALSE, <<Text("a"), Text("b")>>), Turn("assistant", FALSE, <<Call>>),
                                   Turn("user", FALSE, <<Result, Text("a"), Audio>>)>>) EXCEPT
                                !.system = <<"a">>, !.tools = <<Call>>]
      [] p = "responses" -> Body(<<Turn("", FALSE, <<Call>>), Turn("user", FALSE, <<Text("b"), Image, Audio>>)>>)
      [] p = "gemini" -> [Body(<<Turn("", FALSE, <<Text("a")>>), Turn("model", FALSE, <<Call>>)>>) EXCEPT !.system = <<"b">>]
      [] OTHER -> Short

MCRequests ==
    {Request(p, "fits", Short) : p \in Protocols} \cup {Request(p, "fits", Rich(p)) : p \in Protocols}
    \cup {Request("chat", size, Short) : size \in {"over", "fails"}}
    \cup {Request("messages", "fits", [Short EXCEPT !.json = json]) : json \in {"odd", "broken"}}
    \cup {Request("responses", "fits", NoRequest)}

Sent(stream, size, blocks) ==
    [status |-> 200, stream |-> stream, size |-> size, body |-> Response("fits", TRUE, TRUE, blocks)]

Whole == <<Block("reasoning", <<"a">>), Block("text", <<"a", "b">>), Block("tool", <<"a">>)>>

MCAnswers ==
    {Sent(stream, "fits", Whole) : stream \in BOOLEAN}
    \cup {Sent(FALSE, size, Whole) : size \in {"over", "fails"}}
    \cup {Sent(FALSE, "fits", <<Block("text", <<"b">>), Block("tool", NoText)>>)}
    \cup {[status |-> 500, stream |-> FALSE, size |-> "fits", body |-> Response("broken", FALSE, FALSE, <<>>)]}
=============================================================================
