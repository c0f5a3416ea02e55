------------------------------ MODULE RoomLog ------------------------------
(***************************************************************************)
(* What chat/store.py promises to the rest of the hub, with no files, no   *)
(* crash and no compaction in sight: a room is a numbered history of       *)
(* events, and it only ever grows, by one event carrying the next seq.     *)
(* EventLog is the detailed specification and is shown to implement it:    *)
(* the history a restart would recover evolves exactly like `room` here.   *)
(***************************************************************************)
EXTENDS Naturals

CONSTANTS Kinds,  \* what the properties tell apart about an event
          Calls   \* identities of the calls of append, one per attempt

VARIABLES room,   \* every event of the room so far
          seq     \* the room_seq of the newest one

vars == <<room, seq>>

Event == [seq : Nat, kind : Kinds, call : Calls]

Init ==
    /\ room = {}
    /\ seq = 0

\* EventLog.append as its callers see it: the whole event, or nothing.
Append(e) ==
    /\ e.seq = seq + 1
    /\ room' = room \cup {e}
    /\ seq' = e.seq

Next == \E k \in Kinds, c \in Calls : Append([seq |-> seq + 1, kind |-> k, call |-> c])

Spec == Init /\ [][Next]_vars
=============================================================================
