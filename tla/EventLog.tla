------------------------------ MODULE EventLog ------------------------------
(***************************************************************************)
(* chat/store.py: the append-only event log of one room and its snapshot.  *)
(*                                                                         *)
(* One hub process writes events.jsonl and snapshot.json.  The model keeps *)
(* what a crash or a failed write can leave behind: which lines parse, how *)
(* the last chunk of the file ends, which of the two os.replace calls of a *)
(* compaction has happened, and what the process has in memory.            *)
(*                                                                         *)
(* A line is an event, never its bytes.  The file is the set of its        *)
(* events: the one writer appends them in seq order and a compaction sorts *)
(* them by seq, so their order is the order of their seq.  `state` stands  *)
(* for whatever the hub derives from events: the set of the events applied *)
(* to it.  How the hub derives it is HubState's subject.                   *)
(***************************************************************************)
EXTENDS Naturals, FiniteSets

CONSTANTS Keep,         \* CONVERSATION_KEEP: conversation events a compaction keeps
          MaxCalls,     \* bound: how many times append is called
          AppendFaults  \* what a failing append may leave on disk besides nothing

ASSUME LogAssumption ==
    /\ Keep \in Nat
    /\ MaxCalls \in Nat
    /\ AppendFaults \subseteq {"torn", "bare", "whole"}

VARIABLES
    file,          \* events.jsonl: the events on newline-terminated lines that parse
    bare,          \* the complete record that ends the file with no newline (0 or 1)
    torn,          \* TRUE: the file ends in an unterminated chunk that does not parse
    garbled,       \* TRUE: a newline-terminated line of the file does not parse
    snapshot,      \* snapshot.json
    phase,         \* "down" | "up" | "replaced": between the two os.replace calls
    last_seq,      \* EventLog.last_seq
    snapshot_seq,  \* EventLog.snapshot_seq
    events,        \* EventLog._events
    state,         \* what the hub has applied
    acked,         \* history: the events whose append returned
    calls          \* calls of append so far

disk == <<file, bare, torn, garbled, snapshot>>
memory == <<last_seq, snapshot_seq, events, state>>
vars == <<disk, phase, memory, acked, calls>>

Kinds == {"talk", "duty"}  \* CONVERSATION_TYPES, and the rest (hello, status, ...)
Event == [seq : Nat, kind : Kinds, call : 1..MaxCalls]
Phases == {"down", "up", "replaced"}

Init ==
    /\ file = {} /\ bare = {} /\ torn = FALSE /\ garbled = FALSE
    /\ snapshot = [seq |-> 0, state |-> {}]
    /\ phase = "down"
    /\ last_seq = 0 /\ snapshot_seq = 0 /\ events = {} /\ state = {}
    /\ acked = {} /\ calls = 0

-----------------------------------------------------------------------------
(* What a reader of the disk finds. *)

\* Lines conversation_after, _max_seq_on_disk and __init__ can parse.
Readable == file \cup bare

\* _max_seq_on_disk: no line of the log has a seq above n.
DiskTopAtMost(n) == \A e \in Readable : e.seq <= n

\* The newest `Keep` conversation events of S (conversation_after with a limit).
\* Two lines with one seq, which a failed write can leave, keep the order of
\* their calls.
Later(S, e) ==
    {f \in S : /\ f.kind = "talk"
               /\ (f.seq > e.seq) \/ (f.seq = e.seq /\ f.call > e.call)}
Recent(S) == {e \in S : e.kind = "talk" /\ Cardinality(Later(S, e)) < Keep}

\* The events __init__ takes into memory, above the snapshot's label.
AcceptedFromNextLine == {e \in Readable : e.seq > snapshot.seq + 1}
Accepted == {e \in Readable : e.seq > snapshot.seq}

\* last_seq after __init__: the last line accepted, or the snapshot's label.
TopSeq(label, E) ==
    CHOOSE n \in {label} \cup {e.seq : e \in E} : \A e \in E : e.seq <= n
RecoveredSeqFromLines == TopSeq(0, Readable)
RecoveredSeq == TopSeq(snapshot.seq, Accepted)

\* What a restart makes of the disk; __init__ refuses a garbled file.
RecoveredRoom == IF garbled THEN {} ELSE snapshot.state \cup Accepted

-----------------------------------------------------------------------------
(* What a write of event e, cut at some point, leaves at the end of the    *)
(* file.  After an unterminated chunk the new bytes continue its line.     *)

CleanEnd == bare = {} /\ ~torn

LeavesNothing == UNCHANGED disk

LeavesTorn ==
    /\ torn' = TRUE
    /\ bare' = {}
    /\ UNCHANGED <<file, garbled, snapshot>>

LeavesBare(e) ==
    /\ bare' = IF CleanEnd THEN {e} ELSE {}
    /\ torn' = ~CleanEnd
    /\ UNCHANGED <<file, garbled, snapshot>>

LeavesWhole(e) ==
    /\ file' = IF CleanEnd THEN file \cup {e} ELSE file
    /\ garbled' = (garbled \/ ~CleanEnd)
    /\ bare' = {}
    /\ torn' = FALSE
    /\ UNCHANGED snapshot

NewEventByCall(k) == [seq |-> calls + 1, kind |-> k, call |-> calls + 1]
NewEvent(k) == [seq |-> last_seq + 1, kind |-> k, call |-> calls + 1]

-----------------------------------------------------------------------------
(* The process. *)

\* EventLog.__init__, then the hub's restore and replay: a torn chunk is cut
\* off, a complete last record gets its newline, what lies above the snapshot
\* comes back into memory.
Start ==
    /\ phase = "down"
    /\ ~garbled
    /\ phase' = "up"
    /\ last_seq' = RecoveredSeq
    /\ snapshot_seq' = snapshot.seq
    /\ events' = Accepted
    /\ state' = RecoveredRoom
    /\ file' = Readable
    /\ bare' = {}
    /\ torn' = FALSE
    /\ UNCHANGED <<garbled, snapshot, acked, calls>>

\* append, and the caller applying the event: memory moves after the fsync.
AppendOk(k) ==
    LET e == NewEvent(k) IN
    /\ phase = "up"
    /\ calls < MaxCalls
    /\ LeavesWhole(e)
    /\ last_seq' = e.seq
    /\ events' = events \cup {e}
    /\ state' = state \cup {e}
    /\ acked' = acked \cup {e}
    /\ calls' = calls + 1
    /\ UNCHANGED <<phase, snapshot_seq>>

\* The write, the flush or the fsync raises: the caller sees the exception and
\* memory is as before, whatever reached the file.
AppendFailsBumpingSeq(k) ==
    /\ phase = "up"
    /\ calls < MaxCalls
    /\ LeavesNothing
    /\ last_seq' = last_seq + 1
    /\ calls' = calls + 1
    /\ UNCHANGED <<phase, snapshot_seq, events, state, acked>>
AppendFails(k) ==
    /\ phase = "up"
    /\ calls < MaxCalls
    /\ \/ LeavesNothing
       \/ "torn" \in AppendFaults /\ LeavesTorn
       \/ "bare" \in AppendFaults /\ LeavesBare(NewEvent(k))
       \/ "whole" \in AppendFaults /\ LeavesWhole(NewEvent(k))
    /\ calls' = calls + 1
    /\ UNCHANGED <<phase, memory, acked>>

\* save_snapshot up to its first os.replace.  A seq on disk above ours is taken
\* for another writer's (ForeignWriterError) and nothing is touched; an OSError
\* before the replace touches only the temporary file.
ReplaceSnapshot ==
    /\ phase = "up"
    /\ DiskTopAtMost(last_seq)
    /\ snapshot' = [seq |-> last_seq, state |-> state]
    /\ snapshot_seq' = last_seq
    /\ phase' = "replaced"
    /\ UNCHANGED <<file, bare, torn, garbled, last_seq, events, state, acked, calls>>

Tail == {e \in events : e.seq > snapshot_seq}

\* The second os.replace: the log becomes the conversation window and the tail.
ReplaceLogByTail ==
    /\ phase = "replaced"
    /\ events' = Tail
    /\ file' = Tail
    /\ bare' = {} /\ torn' = FALSE /\ garbled' = FALSE
    /\ phase' = "up"
    /\ UNCHANGED <<snapshot, last_seq, snapshot_seq, state, acked, calls>>
ReplaceLog ==
    /\ phase = "replaced"
    /\ events' = Tail
    /\ file' = {e \in Recent(Readable) : e.seq > 0} \cup Tail
    /\ bare' = {} /\ torn' = FALSE /\ garbled' = FALSE
    /\ phase' = "up"
    /\ UNCHANGED <<snapshot, last_seq, snapshot_seq, state, acked, calls>>

\* Reading the window or writing the new log raises: the old log stays, and
\* _events is trimmed or not, depending on which it was.
ReplaceLogFails ==
    /\ phase = "replaced"
    /\ events' \in {events, Tail}
    /\ phase' = "up"
    /\ UNCHANGED <<disk, last_seq, snapshot_seq, state, acked, calls>>

ForgetMemory ==
    /\ phase' = "down"
    /\ last_seq' = 0 /\ snapshot_seq' = 0 /\ events' = {} /\ state' = {}

\* The process dies between two calls, or between the two replaces.
Crash ==
    /\ phase # "down"
    /\ ForgetMemory
    /\ UNCHANGED <<disk, acked, calls>>

\* The process dies inside append, with any part of the record on disk.
CrashInAppend(k) ==
    /\ phase = "up"
    /\ calls < MaxCalls
    /\ ForgetMemory
    /\ \/ LeavesTorn
       \/ LeavesBare(NewEvent(k))
       \/ LeavesWhole(NewEvent(k))
    /\ calls' = calls + 1
    /\ UNCHANGED acked

Next ==
    \/ Start
    \/ \E k \in Kinds : AppendOk(k)
    \/ \E k \in Kinds : AppendFails(k)
    \/ ReplaceSnapshot
    \/ ReplaceLog
    \/ ReplaceLogFails
    \/ Crash
    \/ \E k \in Kinds : CrashInAppend(k)

Spec == Init /\ [][Next]_vars

-----------------------------------------------------------------------------
(* What the log answers. *)

\* events_after returns None: compaction has moved past cursor c.
NeedsResyncLate(c) == c + 1 < snapshot_seq
NeedsResync(c) == c < snapshot_seq

\* events_after otherwise.
EventsAfter(c) == {e \in events : e.seq > c}

-----------------------------------------------------------------------------
(* Properties. *)

\* The type invariant.
TypeOK ==
    /\ file \subseteq Event
    /\ bare \subseteq Event
    /\ torn \in BOOLEAN
    /\ garbled \in BOOLEAN
    /\ snapshot \in [seq : Nat, state : SUBSET Event]
    /\ phase \in Phases
    /\ last_seq \in Nat
    /\ snapshot_seq \in Nat
    /\ events \subseteq Event
    /\ state \subseteq Event
    /\ acked \subseteq Event
    /\ calls \in 0..MaxCalls

\* An append that returned is never undone: whatever crashes, failed writes
\* and half-done compactions follow, a restart recovers its event, from the
\* log or inside the snapshot's state (server.py, rule f: durable first).
AckedSurvives == acked \subseteq RecoveredRoom

\* The worst a failed append can do, whatever part of its record reached the
\* disk: a later restart may be refused (a garbled line, until a compaction
\* rewrites the log), but a restart that is not refused has lost nothing.
LossIsNeverSilent == ~garbled => acked \subseteq RecoveredRoom

\* A seq names one acknowledged event forever: not after a failed append, not
\* after a restart from a log that compaction has emptied (EventLog.append).
SeqNeverReused == \A d, e \in acked : d.seq = e.seq => d = e

\* The hub's live state is what a crash at this very moment would recover, so
\* an unacknowledged write or a compaction never makes the two diverge.
LiveIsRecoverable ==
    phase # "down" => /\ state = RecoveredRoom
                      /\ last_seq = RecoveredSeq

\* The cursor contract of events_after: either everything between the cursor
\* and the end of the log, with no hole, or an explicit resync; never a silent
\* partial replay.
NoPartialReplay ==
    phase # "down" =>
        \A c \in 0..last_seq :
            \/ NeedsResync(c)
            \/ {e.seq : e \in EventsAfter(c)} = c+1..last_seq

\* Compaction drops duty events and old talk, never the talk a returning agent
\* is owed: the newest `Keep` conversation events of the whole history are on
\* disk, however many compactions and crashes came between.
TalkWindow == Recent(Readable) = Recent(RecoveredRoom)

-----------------------------------------------------------------------------
\* The log implements RoomLog: recovered from the disk at any moment, the room
\* only grows, by the next seq; starting, compacting and crashing between two
\* appends are invisible.
Room == INSTANCE RoomLog WITH
    Kinds <- Kinds,
    Calls <- 1..MaxCalls,
    room <- RecoveredRoom,
    seq <- RecoveredSeq

ImplementsRoom == Room!Spec
=============================================================================
