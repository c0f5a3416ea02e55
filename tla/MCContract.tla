----------------------------- MODULE MCContract -----------------------------
\* Contract for TLC: the files that a project may have.
EXTENDS Contract, TLC

NoFile == [kind |-> "absent", text |-> <<>>]
Text(t) == [kind |-> "regular", text |-> t]
Project(a, c) == [f \in Names |-> IF f = "AGENTS" THEN a ELSE c]

\* Blocks of an older version and broken ones, among words of the owner.
Older == <<"start", "nl", "older", "end">>
AgentsTexts ==
    {<<"w1">>, <<"w1", "nl", "nl">>, <<"w1", "nl">> \o Older \o <<"nl", "nl", "w2">>,
     Older \o <<"w2", "nl">>, <<"w1">> \o Older, <<"w1", "start">>, <<"end", "start", "w1">>,
     <<"start", "w1", "start", "end">>}
ClaudeTexts ==
    {<<>>, <<"w1", "import">>, <<"nl", "import", "nl", "w1">>, <<"w1", "nl">> \o Older \o <<"w2">>,
     <<"import", "nl">> \o Older, <<"w1">> \o Block("CLAUDE"), <<"w1", "start", "end", "end">>}

MCFound ==
    {Project(Text(a), c) : a \in AgentsTexts, c \in {NoFile, [NoFile EXCEPT !.kind = "link"]}}
    \cup {Project(a, Text(c)) : a \in {NoFile, Text(<<"w1">>)}, c \in ClaudeTexts}
    \cup {Project([NoFile EXCEPT !.kind = "alien"], Text(<<"w1">>))}

MCSymmetry == Permutations(Runs)
=============================================================================
