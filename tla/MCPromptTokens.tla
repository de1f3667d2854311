---------------------------- MODULE MCPromptTokens ----------------------------
(* An instance of PromptTokens for TLC.  "e" is the end-of-message marker, "g" *)
(* opens the answer, "n" is the newline; b merges with what follows it, e or n, *)
(* and a b are one token too.                                                  *)
EXTENDS PromptTokens

SomeChars == {"a", "b", "e", "g", "n", "s", "t"}

Body(path, role, content) ==
    [path |-> path, role |-> role, content |-> content, extendable |-> TRUE]

SomeBodies ==
    {Body("completion", "", <<"a">>), Body("completion", "", <<"e", "b">>),
     Body("completion", "", <<"a", "e", "a">>),
     Body("chat", "system", <<"a">>), Body("chat", "system", <<"a", "e", "b">>),
     [Body("completion", "", <<"a", "e">>) EXCEPT !.extendable = FALSE]}

\* The system message and the marker, then the message and the opening of the answer.
\* Of the message, a newline at the end is stripped.
ChatTemplate(body) ==
    LET content == IF Last(body.content) = "n" THEN Front(body.content) ELSE body.content
    IN <<"s", "e">> \o content \o <<"e", "g">>

Vocabulary == {<<"a", "b">>, <<"b", "n">>, <<"b", "e">>, <<"e", "g">>}

\* Greedy: the longest token first.
GreedyTokenize(text) ==
    LET from[i \in 1 .. Len(text) + 1] ==
            IF i > Len(text) THEN <<>>
            ELSE IF i < Len(text) /\ SubSeq(text, i, i + 1) \in Vocabulary
                   THEN <<SubSeq(text, i, i + 1)>> \o from[i + 2]
            ELSE <<<<text[i]>>>> \o from[i + 1]
    IN from[1]

SomeConfigs ==
    {[label |-> "end-of-system-message", marker |-> <<"e">>, occurrence |-> 1, side |-> "after"],
     [label |-> "second", marker |-> <<"e">>, occurrence |-> 2, side |-> "before"]}

Piece(field, text) == [field |-> field, text |-> text]

SomeResponses ==
    {<<Piece("content", <<"a">>), Piece("content", <<"b">>)>>,
     <<Piece("reasoning_content", <<"b">>), Piece("tool_calls", <<"t">>), Piece("content", <<"a">>)>>,
     <<Piece("tool_calls", <<"t">>)>>}
=============================================================================
