----------------------------- MODULE MCHubState -----------------------------
\* HubState for TLC: a human whom tokens.json also puts in a group, and a name
\* that the room only knows once it has entered.
EXTENDS HubState, TLC

CONSTANTS human, guest, admin

MCFileGroups == [n \in Nicks |-> IF n = human THEN {admin} ELSE {}]

\* Instances and addresses are interchangeable.
MCSymmetry == Permutations(Instances) \cup Permutations(Addrs)
=============================================================================
