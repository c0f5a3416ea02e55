--------------------------- MODULE ListenerSession ---------------------------
(***************************************************************************)
(* chat/client_session.py and send.py listen: the session file of a nick   *)
(* (instance id, cursor, applied activations), the lock that makes its     *)
(* listener the only one, and the processes of one machine that share the  *)
(* two.                                                                    *)
(*                                                                         *)
(* A process dies between any two steps; what it does under the state lock *)
(* is one step, because a save replaces the whole file.  The hub is one    *)
(* room in open mode, seen through what it answers and pushes, until the   *)
(* room is deleted and its session files are purged.  Everything that is   *)
(* said concerns every nick; what a resync repeats fits its window.        *)
(***************************************************************************)
EXTENDS Naturals, Sequences, FiniteSets

CONSTANTS
    Procs,      \* listeners of the machine
    Nicks,
    Ids,        \* bound: instance ids; a new session or identity takes an unused one
    LegacyId,   \* the one in .chat-session.json
    Acts,       \* activation ids
    None,
    Stale,      \* Stale[n]: the id and the cursor that an earlier room left n, or None
    MaxActs,    \* MAX_ACTIVATIONS
    Script,     \* bound: the frames of the room, as they come
    Every,      \* SNAPSHOT_EVERY
    Named,      \* the nicks that people start listeners and send under
    Modes,      \* how listeners are started: a set of [once, fresh]
    MaxStarts,  \* bound: starts of listeners
    Raced,      \* a purge or another listener may come between the load of a
                \* session file and its lock
    LiveReset   \* a person may reset a cursor whose listener is connected

\* What a session file says.
Sessions == [inst : Ids, cursor : Nat, acts : Seq(Acts)]

ASSUME ListenerAssumption ==
    /\ LegacyId \in Ids
    /\ None \notin Procs \cup Nicks \cup Ids \cup Acts \cup Sessions
    /\ Stale \in [Nicks -> [inst : Ids \ {LegacyId}, cursor : Nat] \cup {None}]
    /\ \A n, m \in Nicks :
         n # m /\ Stale[n] # None /\ Stale[m] # None => Stale[n].inst # Stale[m].inst
    /\ MaxActs \in Nat \ {0} /\ MaxStarts \in Nat
    /\ Script \in Seq({"hidden", "talk"} \cup Acts) /\ Every \in Nat \ {0}
    /\ Named \subseteq Nicks
    /\ Modes \subseteq [once : BOOLEAN, fresh : BOOLEAN]
    /\ Raced \in BOOLEAN /\ LiveReset \in BOOLEAN

VARIABLES
    log,      \* what each frame is: "hidden" (another's hello, not sent), "talk",
              \* or the activation that it carries
    room,     \* "up" | "gone"
    inst,     \* inst[n]: the instance the registry knows for n, or None
    conns,    \* conns[n]: the listeners connected as n
    legacy,   \* .chat-session.json is still there
    file,     \* file[n]: the session file, or None
    lock,     \* lock[n]: the inode at the path of the lock (0: none), the inodes
              \* made, and who has each of them locked
    me,       \* me[p]: the process, see Idle
    starts,
    had       \* history: what the agent under n has been given, or entered without

server == <<log, room, inst, conns>>
disk == <<legacy, file, lock>>
vars == <<server, disk, me, starts, had>>

\* The program points of listen.
Points == {"down", "dial", "assigned", "open", "flock", "adopt", "reply", "live"}
\* Where it is with a frame.
Steps == {"next", "mark", "advance"}

Idle == [pc |-> "down", nick |-> None, mem |-> None, boot |-> None, fd |-> 0,
         step |-> "next", next |-> 0, end |-> 0, sent |-> 0, resync |-> FALSE,
         gave |-> FALSE, once |-> FALSE, fresh |-> FALSE]

Inodes == 1..2
NoLock == [path |-> 0, made |-> 0, held |-> [i \in Inodes |-> None]]

UsedIds ==
    {LegacyId}
        \cup {file[n].inst : n \in {m \in Nicks : file[m] # None}}
        \cup {me[p].mem.inst : p \in {q \in Procs : me[q].mem # None}}
        \cup {me[p].boot : p \in Procs} \cup {inst[n] : n \in Nicks}
FreshId == CHOOSE i \in Ids \ UsedIds : TRUE
FreshIdLeft == Ids \ UsedIds # {}

OldSession(n) ==
    IF Stale[n] = None THEN None
    ELSE [inst |-> Stale[n].inst, cursor |-> Stale[n].cursor, acts |-> <<>>]

Init ==
    /\ log = <<>> /\ room = "up"
    /\ inst = [n \in Nicks |-> None] /\ conns = [n \in Nicks |-> {}]
    /\ legacy = TRUE
    /\ file = [n \in Nicks |-> OldSession(n)]
    /\ lock = [n \in Nicks |-> NoLock]
    /\ me = [p \in Procs |-> Idle] /\ starts = 0
    /\ had = [n \in Nicks |-> IF Stale[n] = None THEN {} ELSE 1..Stale[n].cursor]

-----------------------------------------------------------------------------
(* Session files and locks. *)

Holds(p, n) == \E i \in Inodes : lock[n].held[i] = p

\* _load_or_create_locked: a new session takes the legacy identity if it is
\* still there, and takes it away with it.
Loaded(n) ==
    IF file[n] # None THEN file[n]
    ELSE [inst |-> IF legacy THEN LegacyId ELSE FreshId, cursor |-> 0, acts |-> <<>>]
LegacyKept(n) == legacy' = legacy
LegacyTaken(n) == legacy' = (legacy /\ file[n] # None)
OpensSession(n) ==
    /\ file[n] # None \/ legacy \/ FreshIdLeft
    /\ file' = [file EXCEPT ![n] = Loaded(n)]
    /\ LegacyTaken(n)

\* release_listener_lock, or the end of the process.
Released(p) ==
    [n \in Nicks |-> [lock[n] EXCEPT
        !.held = [i \in Inodes |-> IF @[i] = p THEN None ELSE @[i]]]]
Unrouted(p) == [n \in Nicks |-> conns[n] \ {p}]

\* A session saved under the state lock, and what the process then has.
SavesAs(p, s, then) ==
    /\ file' = [file EXCEPT ![me[p].nick] = s]
    /\ me' = [me EXCEPT ![p] = [then EXCEPT !.mem = s]]

\* ConnectionClosed: connect again, with the session in memory.
Reconnects(p) ==
    me' = [me EXCEPT ![p] = [Idle EXCEPT !.pc = "dial", !.nick = me[p].nick, !.mem = me[p].mem,
                                         !.once = me[p].once, !.fresh = me[p].fresh]]
Ends(p) ==
    /\ me' = [me EXCEPT ![p] = Idle]
    /\ conns' = Unrouted(p)
    /\ lock' = Released(p)

-----------------------------------------------------------------------------
(* Starting, and taking the lock. *)

Start(p) ==
    /\ me[p].pc = "down"
    /\ starts < MaxStarts
    /\ starts' = starts + 1
    /\ \E mode \in Modes :
         LET new == [Idle EXCEPT !.once = mode.once, !.fresh = mode.fresh] IN
         \/ /\ me' = [me EXCEPT ![p] = [new EXCEPT !.pc = "dial"]]
            /\ UNCHANGED <<legacy, file>>
         \/ \E n \in Named :
              /\ OpensSession(n)
              /\ me' = [me EXCEPT ![p] = [new EXCEPT !.pc = "open", !.nick = n, !.mem = Loaded(n)]]
    /\ UNCHANGED <<server, lock, had>>

\* listen, with the nick that the hub has assigned: the session of that name.
OpenAssignedAdopting(p) ==
    LET s == [inst |-> me[p].boot, cursor |-> 0, acts |-> <<>>] IN
    /\ me[p].pc = "assigned"
    /\ LegacyTaken(me[p].nick)
    /\ SavesAs(p, s, [me[p] EXCEPT !.pc = "open"])
    /\ UNCHANGED <<server, lock, starts, had>>
OpenAssigned(p) ==
    /\ me[p].pc = "assigned"
    /\ OpensSession(me[p].nick)
    /\ me' = [me EXCEPT ![p] = [@ EXCEPT !.pc = "open", !.mem = Loaded(me[p].nick)]]
    /\ UNCHANGED <<server, lock, starts, had>>

\* acquire_listener_lock: open the file, creating it if need be, ...
OpenLock(p) ==
    LET n == me[p].nick
        i == IF lock[n].path # 0 THEN lock[n].path ELSE lock[n].made + 1
    IN  /\ me[p].pc = "open"
        /\ i \in Inodes
        /\ lock' = [lock EXCEPT ![n].path = i, ![n].made = IF i > @ THEN i ELSE @]
        /\ me' = [me EXCEPT ![p] = [@ EXCEPT !.pc = "flock", !.fd = i]]
        /\ UNCHANGED <<server, legacy, file, starts, had>>

\* ... and lock what was opened, or give up.  Unless Raced, the session that was
\* loaded is still the one on disk.
Flock(p) ==
    LET n == me[p].nick IN
    /\ me[p].pc = "flock"
    /\ IF lock[n].held[me[p].fd] = None
       THEN /\ Raced \/ me[p].mem = file[n]
            /\ lock' = [lock EXCEPT ![n].held[me[p].fd] = p]
            /\ me' = [me EXCEPT ![p] =
                        [@ EXCEPT !.pc = IF me[p].boot = None THEN "dial" ELSE "adopt", !.fd = 0]]
            /\ UNCHANGED conns
       ELSE Ends(p)
    /\ UNCHANGED <<log, room, inst, legacy, file, starts, had>>

\* adopt_boot_identity: the identity that is already on the wire, and a cursor of
\* zero; whoever had the name before, the agent is a new one.
AdoptTo(p, s) ==
    LET n == me[p].nick IN
    /\ me[p].pc = "adopt"
    /\ SavesAs(p, s, [me[p] EXCEPT !.pc = "reply", !.boot = None])
    /\ had' = [had EXCEPT ![n] = {}]
    /\ UNCHANGED <<server, legacy, lock, starts>>
AdoptCursor(p) == AdoptTo(p, [inst |-> me[p].boot, cursor |-> me[p].mem.cursor, acts |-> <<>>])
Adopt(p) == AdoptTo(p, [inst |-> me[p].boot, cursor |-> 0, acts |-> <<>>])

-----------------------------------------------------------------------------
(* The hello. *)

\* do_hello with a nick that another instance is connected as: the listener
\* comes up as the nick the hub suggests, one the registry does not know.
Refused(p) ==
    LET n == me[p].nick IN
    /\ me[p].pc = "dial" /\ room = "up" /\ n # None
    /\ me[p].mem.cursor <= Len(log)
    /\ conns[n] # {} /\ inst[n] # me[p].mem.inst
    /\ \E m \in Nicks :
         /\ inst[m] = None
         /\ OpensSession(m)
         /\ me' = [me EXCEPT ![p] = [@ EXCEPT !.pc = "open", !.nick = m, !.mem = Loaded(m)]]
    /\ lock' = Released(p)
    /\ UNCHANGED <<server, starts, had>>

\* A cursor beyond the end of the log: the process ends.
Rejected(p) ==
    /\ me[p].pc = "dial" /\ room = "up"
    /\ me[p].nick # None /\ me[p].mem.cursor > Len(log)
    /\ Ends(p)
    /\ UNCHANGED <<log, room, inst, legacy, file, starts, had>>

\* The hub's snapshot_seq, by its snapshot policy.
Boundary == (Len(log) \div Every) * Every

\* The hub's reply to instance i as n, from cursor c.
Welcome(p, n, i, c, pc) ==
    LET from == IF me[p].fresh THEN Len(log) ELSE c IN
    /\ inst' = [inst EXCEPT ![n] = i]
    /\ conns' = [conns EXCEPT ![n] = @ \cup {p}]
    /\ me' = [me EXCEPT ![p] = [@ EXCEPT
                !.pc = pc, !.nick = n, !.boot = IF pc = "assigned" THEN i ELSE None,
                !.resync = from < Boundary, !.next = from + 1,
                !.end = Len(log), !.sent = Len(log), !.gave = FALSE]]
    /\ UNCHANGED <<log, room, disk, starts, had>>

Welcomed(p) ==
    LET n == me[p].nick IN
    /\ me[p].pc = "dial" /\ room = "up" /\ n # None
    /\ me[p].mem.cursor <= Len(log)
    /\ conns[n] = {} \/ inst[n] = me[p].mem.inst
    /\ Welcome(p, n, me[p].mem.inst, me[p].mem.cursor, "reply")

\* A hello without a nick: a temporary identity, a name nobody has ever had.
Assigned(p) ==
    /\ me[p].pc = "dial" /\ room = "up" /\ me[p].nick = None
    /\ FreshIdLeft
    /\ \E n \in Nicks :
         /\ inst[n] = None
         /\ Welcome(p, n, FreshId, 0, "assigned")

-----------------------------------------------------------------------------
(* apply_frame, and what listen does around it. *)

Emits(p, S) == had' = [had EXCEPT ![me[p].nick] = @ \cup S]
InRange(s, a) == \E i \in DOMAIN s : s[i] = a
OnWire(S) == {k \in S : log[k] # "hidden"}

\* The frame that is next in the reply or on the connection.
Reads(p) ==
    /\ me[p].step = "next"
    /\ \/ me[p].pc = "reply" /\ ~me[p].resync /\ me[p].next <= me[p].end
       \/ me[p].pc = "live" /\ me[p].next <= me[p].sent

\* Not sent at all, or taken for a duplicate.
Passes(p) ==
    /\ Reads(p)
    /\ log[me[p].next] = "hidden" \/ me[p].next <= me[p].mem.cursor
    /\ me' = [me EXCEPT ![p].next = @ + 1]
    /\ UNCHANGED <<server, disk, starts, had>>

\* A frame with an activation looks at the file first; it is not emitted if the
\* activation is applied already, else the activation is marked after it.
Suppress(p) ==
    LET k == me[p].next IN
    /\ Reads(p)
    /\ k > me[p].mem.cursor
    /\ log[k] \in Acts /\ InRange(file[me[p].nick].acts, log[k])
    /\ me' = [me EXCEPT ![p] = [@ EXCEPT !.mem = file[me[p].nick], !.step = "advance"]]
    /\ UNCHANGED <<server, disk, starts, had>>
Emit(p) ==
    LET k == me[p].next
        acts == file[me[p].nick].acts
    IN  /\ Reads(p)
        /\ log[k] # "hidden" /\ k > me[p].mem.cursor
        /\ log[k] \in Acts => ~InRange(acts, log[k])
        /\ Emits(p, {k})
        /\ me' = [me EXCEPT ![p] =
                    [@ EXCEPT !.gave = TRUE,
                              !.step = IF log[k] \in Acts THEN "mark" ELSE "advance"]]
        /\ UNCHANGED <<server, disk, starts>>

Newest(s) == IF Len(s) > MaxActs THEN Tail(s) ELSE s
Mark(p) ==
    LET n == me[p].nick IN
    /\ me[p].step = "mark"
    /\ SavesAs(p, [file[n] EXCEPT !.acts = Newest(Append(@, log[me[p].next]))],
               [me[p] EXCEPT !.step = "advance"])
    /\ UNCHANGED <<server, legacy, lock, starts, had>>

\* Session.advance: the file as it is now, never moved back.
Advanced(n, k) == [file[n] EXCEPT !.cursor = IF k > @ THEN k ELSE @]

\* The end of what listen --once waits for: something emitted, the cursor saved.
Served(p) == me[p].once /\ me[p].gave
SavesUnlessServed(p, s, then) ==
    IF Served(p) THEN UNCHANGED file /\ Ends(p)
    ELSE SavesAs(p, s, then) /\ UNCHANGED <<conns, lock>>
Saves(p, s, then) ==
    IF Served(p) THEN file' = [file EXCEPT ![me[p].nick] = s] /\ Ends(p)
    ELSE SavesAs(p, s, then) /\ UNCHANGED <<conns, lock>>

\* The cursor moves when the frame is applied; a live one serves --once.
Advance(p) ==
    LET s == Advanced(me[p].nick, me[p].next)
        then == [me[p] EXCEPT !.step = "next", !.next = @ + 1]
    IN  /\ me[p].step = "advance"
        /\ IF me[p].pc = "live" THEN Saves(p, s, then)
                                ELSE SavesAs(p, s, then) /\ UNCHANGED <<conns, lock>>
        /\ UNCHANGED <<log, room, inst, legacy, starts, had>>

\* _apply_hello_reply after a compaction: the state and the conversation, as they
\* are.
HearConversation(p) ==
    /\ me[p].pc = "reply" /\ me[p].resync
    /\ Emits(p, OnWire(me[p].next..me[p].end))
    /\ me' = [me EXCEPT ![p] = [@ EXCEPT !.resync = FALSE, !.next = me[p].end + 1, !.gave = TRUE]]
    /\ UNCHANGED <<server, disk, starts>>

\* The reply is applied: the cursor goes to the end that the hub named.  A fresh
\* entry does without what lies before it, once.
EndReply(p) ==
    LET s == IF me[p].end = 0 THEN file[me[p].nick] ELSE Advanced(me[p].nick, me[p].end) IN
    /\ me[p].pc = "reply" /\ me[p].step = "next"
    /\ ~me[p].resync /\ me[p].next > me[p].end
    /\ Saves(p, s, [me[p] EXCEPT !.pc = "live", !.fresh = FALSE, !.gave = FALSE])
    /\ Emits(p, IF me[p].fresh THEN (me[p].mem.cursor + 1)..me[p].end ELSE {})
    /\ UNCHANGED <<log, room, inst, legacy, starts>>

\* The connection is over and what it held is read.
ReadOut(p) == me[p].pc = "live" /\ me[p].step = "next" /\ me[p].next > me[p].sent
HangUp(p) ==
    /\ ReadOut(p)
    /\ p \notin conns[me[p].nick]
    /\ Reconnects(p)
    /\ UNCHANGED <<server, disk, starts, had>>

\* Killed, interrupted, or kicked.
End(p) ==
    /\ me[p].pc # "down"
    /\ Ends(p)
    /\ UNCHANGED <<log, room, inst, legacy, file, starts, had>>

\* The last resort of the TUI, a listener too: forget what has been read.
Reset(p) ==
    LET n == me[p].nick IN
    /\ n # None /\ ~me[p].once
    /\ me[p].pc = "dial" \/ (LiveReset /\ me[p].pc = "live" /\ me[p].step = "next")
    /\ file[n] # None /\ Holds(p, n)
    /\ SavesAs(p, [file[n] EXCEPT !.cursor = 0, !.acts = <<>>], me[p])
    /\ had' = [had EXCEPT ![n] = {}]
    /\ UNCHANGED <<server, legacy, lock, starts>>

Listens(p) ==
    \/ Start(p) \/ OpenAssigned(p) \/ OpenLock(p) \/ Flock(p) \/ Adopt(p)
    \/ Refused(p) \/ Rejected(p) \/ Welcomed(p) \/ Assigned(p)
    \/ Passes(p) \/ Suppress(p) \/ Emit(p) \/ Mark(p) \/ Advance(p)
    \/ HearConversation(p) \/ EndReply(p) \/ HangUp(p) \/ End(p) \/ Reset(p)

-----------------------------------------------------------------------------
(* The others. *)

\* send_once, oneshot_frame: the session of the nick, created if need be, and a
\* hello with its identity; refused while another instance is connected, or with a
\* cursor beyond the log.
Send(n) ==
    /\ room = "up"
    /\ OpensSession(n)
    /\ inst' = IF conns[n] = {} /\ Loaded(n).cursor <= Len(log)
               THEN [inst EXCEPT ![n] = Loaded(n).inst] ELSE inst
    /\ UNCHANGED <<log, room, conns, lock, me, starts, had>>

\* The hub logs a frame and pushes it; a connection is lost.
Say ==
    /\ room = "up" /\ Len(log) < Len(Script)
    /\ log' = Append(log, Script[Len(log) + 1])
    /\ me' = [p \in Procs |-> IF \E n \in Nicks : p \in conns[n]
                              THEN [me[p] EXCEPT !.sent = Len(log')] ELSE me[p]]
    /\ UNCHANGED <<room, inst, conns, disk, starts, had>>
Lose(p) ==
    /\ \E n \in Nicks : p \in conns[n]
    /\ conns' = Unrouted(p)
    /\ UNCHANGED <<log, room, inst, disk, me, starts, had>>

\* delete_hub: the hub is stopped, and those who were connected have noticed; the
\* room's directory goes, and with it what happened there.
Noticed(p) == me[p].pc \in {"down", "dial", "open", "flock"} /\ me[p].boot = None
DeleteRoom ==
    /\ room = "up" /\ \A p \in Procs : Noticed(p)
    /\ room' = "gone"
    /\ log' = <<>> /\ had' = [n \in Nicks |-> {}]
    /\ inst' = [n \in Nicks |-> None] /\ conns' = [n \in Nicks |-> {}]
    /\ UNCHANGED <<disk, me, starts>>

\* purge_session_files of each nick: the cursor always, the lock if nobody has it.
PurgeCursor(n) ==
    /\ room = "gone" /\ file[n] # None
    /\ file' = [file EXCEPT ![n] = None]
    /\ UNCHANGED <<server, legacy, lock, me, starts, had>>

\* _unlink_if_unlocked
Opening(n) == \E p \in Procs : me[p].nick = n /\ me[p].pc = "flock"
PurgeAnyLock(n) ==
    /\ room = "gone" /\ lock[n].path # 0
    /\ Raced \/ ~Opening(n)
    /\ lock' = [lock EXCEPT ![n].path = 0]
    /\ UNCHANGED <<server, legacy, file, me, starts, had>>
PurgeLock(n) ==
    /\ room = "gone" /\ lock[n].path # 0
    /\ lock[n].held[lock[n].path] = None
    /\ Raced \/ ~Opening(n)
    /\ lock' = [lock EXCEPT ![n].path = 0]
    /\ UNCHANGED <<server, legacy, file, me, starts, had>>

Next ==
    \/ \E p \in Procs : Listens(p) \/ Lose(p)
    \/ \E n \in Named : Send(n)
    \/ \E n \in Nicks : PurgeCursor(n) \/ PurgeLock(n)
    \/ Say \/ DeleteRoom

Spec == Init /\ [][Next]_vars

-----------------------------------------------------------------------------
(* Properties. *)

\* The type invariant.  A process that has gone past its lock holds it.
TypeOK ==
    /\ log \in Seq({"hidden", "talk"} \cup Acts)
    /\ room \in {"up", "gone"} /\ legacy \in BOOLEAN
    /\ inst \in [Nicks -> Ids \cup {None}] /\ conns \in [Nicks -> SUBSET Procs]
    /\ \A n \in Nicks :
         /\ file[n] = None \/ (file[n] \in Sessions /\ Len(file[n].acts) <= MaxActs)
         /\ lock[n].path \in 0..lock[n].made /\ lock[n].made \in 0..2
         /\ lock[n].held \in [Inodes -> Procs \cup {None}]
    /\ \A p \in Procs :
         /\ me[p].pc \in Points /\ me[p].step \in Steps
         /\ me[p].nick \in Nicks \cup {None}
         /\ me[p].mem = None \/ me[p].mem \in Sessions
         /\ me[p].pc \in {"adopt", "reply", "live"} => Holds(p, me[p].nick)

\* A nick has one listener on this machine, also while the files of its room are
\* being purged (acquire_listener_lock: "exactly one listener per hub+nick").
OneListener ==
    \A n \in Nicks : \A p, q \in Procs : Holds(p, n) /\ Holds(q, n) => p = q

\* A cursor on disk is earned: what lies at or below it was given to the agent
\* under that name, whatever crashed, was reset, compacted or adopted; it was
\* not sent, or the same activation was given, or a fresh entry did without it.
CursorIsEarned ==
    \A n \in Nicks : \A k \in DOMAIN log :
        /\ file[n] # None /\ k <= file[n].cursor /\ log[k] # "hidden"
        => \/ k \in had[n]
           \/ \E j \in had[n] \cap DOMAIN log : log[j] = log[k] /\ log[k] \in Acts

\* One identity per nick.  Two session files never have the same one (the legacy
\* identity goes to a single session), and the file of a connected listener has
\* the one that the hub knows, so that a one-shot command of the same nick is let
\* in beside it.
OneIdentity ==
    /\ \A n, m \in Nicks :
         n # m /\ file[n] # None /\ file[m] # None => file[n].inst # file[m].inst
    /\ \A p \in Procs : \A n \in Nicks :
         me[p].nick = n /\ p \in conns[n] /\ me[p].pc \in {"reply", "live"} =>
             file[n] # None /\ file[n].inst = inst[n]

\* Nobody but the holder of the lock changes a session file that is there: a
\* listener turned away has not touched the identity or the cursor it found.
FileIsTheHolders ==
    [][\A n \in Nicks : \A p \in Procs :
          /\ Holds(p, n) /\ file[n] # None
          /\ file'[n] \notin {None, file[n]}
          => me'[p] # me[p]]_vars

\* listen --once returns between frames, never between emitting and advancing:
\* what its nick has been given is then below the cursor on disk.
OnceIsDurable ==
    [][\A p \in Procs : \A n \in Nicks :
          /\ me[p].nick = n /\ me[p].once /\ me[p].pc \in {"reply", "live"}
          /\ (Advance(p) \/ EndReply(p)) /\ me'[p].pc = "down"
          => \A k \in had'[n] : k <= file'[n].cursor]_vars
=============================================================================
