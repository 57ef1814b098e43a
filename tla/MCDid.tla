-------------------------------- MODULE MCDid --------------------------------
(* Texts for Did: all the short ones, and longer ones put together of parts.  *)
EXTENDS Did

Few == {"a", "A", "8", "-", ".", "E", "B", "%3A", "%3a", ":", "[", "]", "/", "\n"}
MCAddresses == {<<":", "8">>, <<"A", ":">>, <<"a", ":">>}

Concatenations(S, T) == {s \o t : s \in S, t \in T}
Hosts ==
    {<<>>, <<"a">>, <<"A", ".", "8">>, <<"a", "-", "E">>, <<"-", "a">>, <<"a", ".">>,
     <<"[", ":", "8", "]">>, <<"[", "A", ":", "]">>, <<"[", "a", "]">>, <<"[", ":", "8">>,
     <<"[", ":", "8", "]", "a">>}
Ports ==
    {<<>>, <<"%3A", "8">>, <<"%3a", "8", "8">>, <<"%3A">>, <<"%3a", "8", "8", "8">>,
     <<"%3A", "8", "%3a", "8">>, <<"%3A", "a">>}
Segments ==
    {<<":">>, <<":", ".">>, <<":", ".", ".">>, <<":", "A", ".">>, <<":", "E">>, <<":", "8", "/", "a">>,
     <<":", "[">>}
Aids == {<<":", "E">>, <<":", "B">>, <<":", "a">>, <<":", "E", "a">>, <<":">>}
\* Texts with a line's end in them: behind each part, before one, twice, in brackets.
LineTexts ==
    {<<"a", ":", "a", "\n", ":", "E">>, <<"A", "\n", ".", "a", ":", "E">>,
     <<"a", "%3A", "8", "\n", ":", "E">>, <<"A", "%3a", "8", "\n", ":", "E">>,
     <<"a", "\n", "%3A", "8", ":", "E">>, <<"a", "\n", "%3A", "8", "\n", ":", "E">>,
     <<"a", "%3A", "8", "\n", ":", "a", ":", "E", "\n">>,
     <<"a", "%3A", "8", "\n", "\n", ":", "E">>, <<"a", "%3A", "\n", ":", "E">>,
     <<"a", "\n", "\n", ":", "E">>, <<"a", ":", "E", "\n", "\n">>,
     <<"[", ":", "8", "]", "\n", ":", "E">>, <<"[", ":", "8", "]", "%3A", "8", "\n", ":", "E">>,
     <<"[", ":", "8", "]", "%3A", "8", ":", "E", "\n">>}

MCTexts ==
    UNION {[1..n -> Few] : n \in 1..4}
    \cup Concatenations(Concatenations(Hosts, Ports),
                        Concatenations({<<>>} \cup Segments \cup Concatenations(Segments, Segments),
                                       Aids))
    \cup LineTexts

Dids(path) == [host |-> <<"a">>, port |-> NoPort, path |-> path, aid |-> <<"E">>]
MCBuilt ==
    LET names == {<<>>, <<".">>, <<".", ".">>, <<"a">>, <<"E">>, <<"a", "/">>, <<"a", "/", "E">>}
    IN {Dids(path) : path \in UNION {[1..n -> names] : n \in 0..2}}
    \cup {Dids(<<<<"a">>, <<".", ".">>, <<"a">>>>), Dids(<<<<"a">>, <<"E">>, <<"a">>>>)}
FewTexts ==
    Concatenations({<<"a">>, <<"A">>, <<"8">>, <<"[", ":", "8", "]">>},
                   Concatenations({<<>>, <<"%3A", "8">>, <<"%3a", "8", "8">>},
                                  Concatenations({<<>>, <<":", "a">>, <<":", "a", ":", "E">>},
                                                 {<<":", "E">>})))
=============================================================================
