---------------------------- MODULE MCProjection ----------------------------
(* Instances of Projection for TLC: streams with the texts, the tags and   *)
(* the tool events that make a difference, in every order of the middle.   *)
EXTENDS Projection

Ev(type, call, text) == [type |-> type, call |-> call, text |-> text]
Txt(text) == Ev("text", "", text)
Done == <<Ev("completed", "", <<>>)>>

Toolings == {<<Ev("call", "c1", <<"a">>)>>, <<Ev("call", "c1", <<"b">>), Ev("call", "c2", <<"a">>)>>,
             <<Ev("execution", "c1", <<"a", "b">>)>>, <<Ev("result", "c1", <<"b">>)>>, <<Ev("action", "c2", <<>>)>>,
             <<Ev("reasoning", "", <<"x", "<">>)>>, <<Ev("reasoning", "", <<"x">>)>>}

Ends == {<<Ev("result", "c1", <<"b">>)>>, <<Ev("result", "c1", <<"b", "a">>)>>,
         <<Ev("result", "c1", <<"a">>)>>, <<Ev("action", "c1", <<>>)>>}

\* A result has its call's arguments before it.
CallsFirst(s) ==
    \A i \in DOMAIN s : s[i].type = "result" =>
        \E k \in 1 .. i - 1 : s[k].type = "call" /\ s[k].call = s[i].call

\* Nothing of a call comes behind what ends it.
CallsOnce(s) ==
    \A i, j \in DOMAIN s :
        i < j /\ s[i].type \in {"result", "action"} => s[j].call # s[i].call

\* Text, tool events, text, tool events: tags cut by events and by actions.
AllStreams ==
    {s \in {<<Txt(t1)>> \o tool1 \o <<Txt(t2)>> \o tool2 \o tool3 \o Done :
                t1 \in {<<"x">>, <<"x", "<">>, <<"<", "T">>, <<"<">>},
                t2 \in {<<"T", "<", "C", "x">>, <<"x">>, <<"C", "x", "<">>},
                tool1 \in Toolings, tool2 \in Toolings, tool3 \in Toolings} : CallsFirst(s) /\ CallsOnce(s)}

\* Text without tags, tool calls and a client action.
PlainStreams ==
    {<<Txt(<<"x">>)>> \o tool \o <<Txt(<<"w">>)>> \o action \o <<Txt(<<"x">>)>> \o Done :
        tool \in {<<>>, <<Ev("call", "c1", <<"a">>), Ev("call", "c2", <<"b">>)>>},
        action \in {<<>>, <<Ev("action", "c2", <<>>)>>}}

\* A call that comes again, and ends again: by a result or by the user.
AgainStreams ==
    {<<Ev("call", "c1", <<"a">>)>> \o end1 \o again \o end2 \o <<Txt(<<"x">>)>> \o end3 \o Done :
        again \in {<<>>, <<Ev("execution", "c1", <<"a">>)>>, <<Ev("call", "c1", <<"b">>), Ev("call", "c2", <<"a">>)>>},
        end1 \in Ends, end2 \in Ends, end3 \in Ends \cup {<<>>}}

\* Every text of up to so many symbols, cut anywhere.
CutAt(text, cuts) ==
    FoldLeft(LAMBDA chunks, i : IF i - 1 \in cuts THEN Append(chunks, Txt(<<text[i]>>))
                                ELSE [chunks EXCEPT ![Len(chunks)].text = Append(@, text[i])],
             <<Txt(<<>>)>>, [i \in DOMAIN text |-> i]) \o Done
CutTexts(length) ==
    UNION {{CutAt(text, cuts) : text \in [1 .. n -> Symbols], cuts \in SUBSET (1 .. n - 1)} : n \in 1 .. length}

\* Text that is held back until more comes, and tags in pieces.
HeldStreams ==
    {<<Txt(t1), Txt(t2), Txt(t3)>> \o Done :
        t1 \in {<<"<">>, <<"x", "<">>}, t2 \in {<<"x">>, <<"w">>, <<"T">>},
        t3 \in {<<"x">>, <<"T", "x">>, <<"<", "C", "x">>}}

MCStreams == AllStreams \cup AgainStreams \cup PlainStreams \cup HeldStreams \cup CutTexts(4)

\* The second process comes in on the plain streams and on those that are held back,
\* crashes happen on those and on those with tools.
Tooled == \E i \in DOMAIN stream : Event(i).type \notin {"text", "completed"}
Scenarios ==
    \/ stream \in PlainStreams \cup HeldStreams
    \/ proj["a2"].pc = "idle" /\ (Tooled \/ crashes = 0)
=============================================================================
