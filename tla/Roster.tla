------------------------------- MODULE Roster -------------------------------
(***************************************************************************)
(* What a room remembers about its participants, as if the hub never       *)
(* stopped: who is who, and what each declared last.  Every change is one  *)
(* step.  HubState, with its log, snapshots and crashes, implements it.    *)
(***************************************************************************)
EXTENDS Registry

CONSTANTS Texts,      \* what a status can say
          OpenMode,   \* entry without a token is allowed
          Tailnet     \* addresses tell machines apart: such an entry is pinned to one

VARIABLES who,        \* the registry
          board,      \* board[n]: the last declaration about n, or None
          board_seq,  \* the seq it was declared at, 0 if never
          seq         \* events so far

vars == <<who, board, board_seq, seq>>

Peers == IF Tailnet THEN Addrs ELSE {None}

Init ==
    /\ who = FromTokens
    /\ board = [n \in Nicks |-> None]
    /\ board_seq = [n \in Nicks |-> 0]
    /\ seq = 0

\* Entry, with the token or, in open mode, from the address that owns the name.
Enter(n, i) ==
    /\ \/ n \in Tokens /\ who' = Hello(who, n, i)
       \/ /\ OpenMode
          /\ \E a \in Peers : /\ OpenHelloAllowed(who, n, i, a)
                                  /\ who' = OpenHello(who, n, i, a)
    /\ seq' = seq + 1
    /\ UNCHANGED <<board, board_seq>>

\* A moderator frees a name of its address.
Free(by, n) ==
    /\ IsModerator(who, by)
    /\ Known(who, n)
    /\ who' = Release(who, n)
    /\ seq' = seq + 1
    /\ UNCHANGED <<board, board_seq>>

Assign(by, n, gs) ==
    /\ IsModerator(who, by)
    /\ Known(who, n)
    /\ who' = SetGroups(who, n, gs)
    /\ seq' = seq + 1
    /\ UNCHANGED <<board, board_seq>>

\* One declares for oneself, a moderator for any name.
Declare(by, n, text) ==
    /\ HasEntered(who, by)
    /\ by = n \/ IsModerator(who, by)
    /\ board' = Put(board, n, text)
    /\ board_seq' = Put(board_seq, n, seq + 1)
    /\ seq' = seq + 1
    /\ UNCHANGED who

\* Chat, fyi and takeover notices concern nobody's standing.
Talk ==
    /\ seq' = seq + 1
    /\ UNCHANGED <<who, board, board_seq>>

Next ==
    \/ \E n \in Nicks, i \in Instances : Enter(n, i)
    \/ \E by, n \in Nicks : Free(by, n)
    \/ \E by, n \in Nicks, gs \in SUBSET Groups : Assign(by, n, gs)
    \/ \E by, n \in Nicks, text \in Texts : Declare(by, n, text)
    \/ Talk

Spec == Init /\ [][Next]_vars
=============================================================================
