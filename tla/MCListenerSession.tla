-------------------------- MODULE MCListenerSession --------------------------
\* ListenerSession for TLC: two names, one of which an earlier room has left a
\* cursor.
EXTENDS ListenerSession, TLC

CONSTANTS p1, p2, a, b, w
MCStale == [n \in Nicks |-> IF n = a THEN [inst |-> 2, cursor |-> 1] ELSE None]
MCScript == <<"talk", "hidden", w>>
MCMode(once, fresh) == [once |-> once, fresh |-> fresh]
MCModes == {MCMode(FALSE, FALSE), MCMode(TRUE, FALSE), MCMode(FALSE, TRUE)}
MCIds == 1..9
MCSymmetry == Permutations(Procs)
=============================================================================
