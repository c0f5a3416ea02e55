------------------------------- MODULE MCNode -------------------------------
\* Node for TLC: a person and an agent mention the node, the person also moves
\* it between groups and kicks it.
EXTENDS Node

MCFrame(p, what) == [by |-> p, says |-> what]
MCSaid == {MCFrame("human", "nick"), MCFrame("human", "join"), MCFrame("human", "kick"),
           MCFrame("peer", "nick"), MCFrame("peer", "group")}
=============================================================================
