------------------------------ MODULE MC_Launch ------------------------------
EXTENDS Launch

Arg(name, option) == <<Minus \o name, option>>

\* What operators write, an argument at a time.
Entry == {
    <<Minus \o steam>>, Arg(targetfps, <<"9">>), Arg(targetfps, <<"x">>), <<Minus \o targetfps>>,
    Arg(pingboostArg, <<"2">>), Arg(pingboostArg, <<"9">>),
    <<Plus \o sys_ticrate, <<"9">>>>,
    <<Minus \o condebug>>, <<Minus \o condebug, <<"2">>, <<"9">>>>, <<Minus \o conclearlog>>, <<Minus \o ignoresigint>>,
    <<Minus \o pidfileArg>>, Arg(pidfileArg, <<"x">>), Arg(game, <<"x">>),
    <<Plus \o <<"h">>, <<"x">> \o Minus \o steam>>,      \* +hostname x-steam
    Arg(steam \o <<"p">>, <<"2">>),                      \* -steamport 2
    <<At \o <<"f">>>>, <<At \o <<"e">>, <<"x">>>>, <<At \o <<"x">>, At>> }

MCCommandLine == {FlattenSeq(entries) : entries \in BoundedSeq(Entry, 3)}

MCFileWords ==
    (<<"e">> :> <<>>) @@ (<<"f">> :> <<At \o <<"e">>, Minus \o nominidumps, Plus \o console, <<"x">>>>)

MCChar == {" ", "-", "+", "@", "s", "t", "c", "o", "f", "p", "b", "y", "d", "l", "i", "g", "n", "m",
           "q", "h", "x", "e", "0", "2", "9", "/"}

MCNumber == (<<"2">> :> 2) @@ (<<"9">> :> 9) @@ (Zero :> 0)
=============================================================================
