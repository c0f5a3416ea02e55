----------------------------- MODULE HubSessions -----------------------------
(***************************************************************************)
(* chat/server.py while it runs: the sockets of a hub, the handler that    *)
(* serves each of them, and how their awaits interleave.                   *)
(*                                                                         *)
(* asyncio runs one handler at a time.  `running` is the one that holds    *)
(* the loop: an action that ends in an await that suspends sets it to      *)
(* None, and any handler may be next; one that runs on keeps it.  A close  *)
(* always suspends (it waits for the peer's half of the handshake); a send *)
(* does when its peer reads too slowly, so SendsYield chooses.             *)
(*                                                                         *)
(* Frames are events of the log, or the reply to a hello; errors, acks and *)
(* presence frames are only the awaits they cost.  Durability and restarts *)
(* are the subject of EventLog and HubState: here the process stays up and *)
(* every append succeeds.                                                  *)
(***************************************************************************)
EXTENDS Registry, Sequences, FiniteSets

CONSTANTS
    MaxSockets,   \* bound: connections accepted
    OpenMode,     \* _open_mode: entry without a token is allowed
    SendsYield,   \* a send may suspend its handler (a slow reader somewhere)
    Compaction,   \* when the snapshot policy may act: "never", "calm" (no hello
                  \* is between its append and its catch-up) or "always"
    Talkers,      \* the nicks that send frames after their hello
    FrameTypes,   \* the types of frame clients send
    MentionSets,  \* what a chat can mention: sets of nicks and groups
    Misspells,    \* BOOLEANs: may a chat also mention a name nobody has
    Listened,     \* the nicks somebody listens for; what others are sent is not kept
    MaxFrames     \* bound: frames accepted after the hellos

Sockets == 1..MaxSockets  \* numbered in the order of their first frames

ASSUME SessionsAssumption ==
    /\ MaxSockets \in Nat
    /\ None \notin 1..MaxSockets
    /\ OpenMode \in BOOLEAN /\ SendsYield \in BOOLEAN
    /\ Compaction \in {"never", "calm", "always"}
    /\ Talkers \subseteq Nicks
    /\ FrameTypes \subseteq {"chat", "fyi", "status", "kick", "membership_set"}
    /\ MentionSets \subseteq SUBSET (Nicks \cup Groups)
    /\ Misspells \subseteq BOOLEAN
    /\ Listened \subseteq Nicks
    /\ MaxFrames \in Nat

VARIABLES
    registry,  \* self.registry
    conns,     \* self.conns: the sockets frames for a nick are sent to
    groups,    \* self.groups, what $group mentions are resolved with
    log,       \* every event so far; its seq is its index
    boundary,  \* log.snapshot_seq: events up to it may be gone
    task,      \* the handler of each socket: where it is, and its locals
    open,      \* the connection is up
    wire,      \* what was sent on it and not yet read
    running    \* the handler that holds the event loop, or None

vars == <<registry, conns, groups, log, boundary, task, open, wire, running>>

\* Where a handler stands; the comments name the await it is in.
Places ==
    {"new",         \* recv of the first frame
     "closing",     \* _close_stale_sockets
     "announcing",  \* _announce_takeover, its broadcast
     "entering",    \* about to register its socket
     "replying",    \* send of the reply
     "catching",    \* sends of what the takeover window missed
     "loop",        \* recv of the next frame
     "routing",     \* a frame is in the log, its audience is not yet known
     "warning",     \* the same, after a warning or an ack to its own socket
     "publishing",  \* broadcast of a frame
     "condemning",  \* broadcast of a kick
     "ejecting",    \* send of the error to the kicked
     "evicting",    \* closes of the kicked
     "leaving",     \* out of the frame loop
     "done"}

NoTask ==
    [pc |-> "new", nick |-> None, gen |-> 0, groups |-> {},
     displaced |-> FALSE,  \* the hello bumped a generation that somebody held
     resync |-> FALSE,     \* events_after said None
     since |-> 0,          \* the client's cursor
     end |-> 0,            \* koniec_backlogu
     seq |-> 0,            \* the event being published
     audience |-> {},      \* nicks still to be visited
     batch |-> {},         \* sockets of the current nick still to be sent to
     todo |-> {},          \* sockets still to be closed
     queue |-> {},         \* seqs still to be caught up
     doomed |-> {}]        \* history: who was connected when the kick was logged

Init ==
    /\ registry = FromTokens
    /\ conns = [n \in Nicks |-> {}]
    /\ groups = FileGroups
    /\ log = <<>> /\ boundary = 0
    /\ task = [s \in Sockets |-> NoTask]
    /\ open = [s \in Sockets |-> TRUE]
    /\ wire = [s \in Sockets |-> <<>>]
    /\ running = None

-----------------------------------------------------------------------------
(* The event loop. *)

Turn(s) == running \in {None, s}
RunOn(s) == running' = s
Await == running' = None
AwaitSend(s) == running' = IF SendsYield THEN None ELSE s

Set(s, new) == task' = [task EXCEPT ![s] = new]

\* A send to a socket that is gone raises; _send swallows that.
Transmit(x, frame) ==
    wire' = IF open[x] /\ task[x].nick \in Listened
            THEN [wire EXCEPT ![x] = Append(@, frame)] ELSE wire

Entering(x) == task[x].pc \in {"closing", "announcing", "entering", "replying"}

\* _maybe_snapshot, with n events in the log, once the state of the handler of s
\* is settled: an action's last word on the boundary.  Bound: it moves once.
MaySnapshot(s, n) ==
    boundary' \in {boundary} \cup
        IF /\ boundary = 0
           /\ \/ Compaction = "always"
              \/ Compaction = "calm" /\ \A x \in Sockets \ {s} : ~Entering(x)
        THEN {n} ELSE {}

\* An event: `by` and `gen` are the nick and the generation of the socket it
\* came from (`gen` is not on the wire).
Event(type, s, to) == [type |-> type, by |-> task[s].nick, gen |-> task[s].gen, to |-> to]

FramesSoFar == Cardinality({k \in DOMAIN log : log[k].type \in FrameTypes})

\* The first frame of s is the next to be read.
NextToEnter(s) ==
    /\ Turn(s)
    /\ task[s].pc = "new"
    /\ \A x \in Sockets : x < s => task[x].pc # "new"

Human(n) == registry.role[n] = "human"
Hears(n, gs, to) == n \in to \/ gs \cap to # {}

-----------------------------------------------------------------------------
(* _handler, from the first frame to the frame loop. *)

\* A first frame that is refused, or that only peeks: nothing is left of it.
TurnedAway(s) ==
    /\ NextToEnter(s)
    /\ task' = [task EXCEPT ![s].pc = "done"]
    /\ open' = [open EXCEPT ![s] = FALSE]
    /\ Await
    /\ UNCHANGED <<registry, conns, groups, log, boundary, wire>>

\* The registry this first frame asks for, from a client whose cursor is c: with
\* the token of the name or, in open mode, unless the name is somebody else's.
\* In one go: the durable hello, the swap of the registry, and for a new
\* generation the sockets of the old one out of the routing.
Taken(n, i) == conns[n] # {} /\ registry.instance[n] # i


HelloFrame(s, n, i, c) ==
    LET trial == IF n \in Tokens THEN Hello(registry, n, i) ELSE OpenHello(registry, n, i, None)
        bumped == trial.gen[n] # registry.gen[n]
        stale == IF bumped THEN conns[n] ELSE {}
    IN  /\ NextToEnter(s)
        /\ c <= Len(log)
        /\ n \in Tokens \/ (OpenMode /\ OpenHelloAllowed(registry, n, i, None) /\ ~Taken(n, i))
        /\ registry' = trial
        /\ log' = Append(log, [type |-> "hello", by |-> n, gen |-> trial.gen[n], to |-> {}])
        /\ conns' = Put(conns, n, conns[n] \ stale)
        /\ Set(s, [NoTask EXCEPT !.pc = IF bumped THEN "closing" ELSE "entering",
                                 !.nick = n, !.gen = trial.gen[n], !.groups = trial.groups[n],
                                 !.displaced = bumped /\ registry.gen[n] > 0,
                                 !.resync = c < boundary, !.since = c, !.end = Len(log) + 1,
                                 !.todo = stale])
        /\ IF stale = {} THEN RunOn(s) ELSE AwaitSend(s)
        /\ UNCHANGED <<groups, boundary, open, wire>>

\* One socket of the old generation, or of a kicked nick, is closed.
CloseOne(s) ==
    /\ Turn(s)
    /\ task[s].pc \in {"closing", "evicting"}
    /\ \E x \in task[s].todo :
          /\ open' = [open EXCEPT ![x] = FALSE]
          /\ task' = [task EXCEPT ![s].todo = @ \ {x}]
    /\ Await
    /\ UNCHANGED <<registry, conns, groups, log, boundary, wire>>

\* _announce_takeover: the durable notice, then the humans.
AnnounceIfAlive(s) ==
    /\ Turn(s)
    /\ task[s].pc = "closing" /\ task[s].todo = {}
    /\ IF task[s].displaced /\ open[s]
       THEN /\ log' = Append(log, Event("takeover", s, {task[s].nick}))
            /\ task' = [task EXCEPT ![s].pc = "announcing", ![s].seq = Len(log) + 1,
                                    ![s].audience = {n \in Nicks \ {task[s].nick} : Human(n)}]
       ELSE /\ task' = [task EXCEPT ![s].pc = "entering"]
            /\ UNCHANGED log
    /\ RunOn(s)
    /\ UNCHANGED <<registry, conns, groups, boundary, open, wire>>
Announce(s) ==
    /\ Turn(s)
    /\ task[s].pc = "closing" /\ task[s].todo = {}
    /\ IF task[s].displaced
       THEN /\ log' = Append(log, Event("takeover", s, {task[s].nick}))
            /\ task' = [task EXCEPT ![s].pc = "announcing", ![s].seq = Len(log) + 1,
                                    ![s].audience = {n \in Nicks \ {task[s].nick} : Human(n)}]
       ELSE /\ task' = [task EXCEPT ![s].pc = "entering"]
            /\ UNCHANGED log
    /\ RunOn(s)
    /\ UNCHANGED <<registry, conns, groups, boundary, open, wire>>

Conversation(c) ==
    {k \in c+1..Len(log) : log[k].type \in {"chat", "fyi", "takeover", "kick"}}
Backlog(c, end) == {k \in c+1..end-1 : log[k].type # "hello"}

\* What a hello is answered: the events to apply, then the cursor to set.
ReplyToLate(t) ==
    IF t.resync
    THEN [type |-> "resync_required", seqs |-> Conversation(t.since), cursor |-> Len(log)]
    ELSE [type |-> "ok", seqs |-> Backlog(t.since, t.end), cursor |-> Len(log)]
ReplyTo(t) ==
    IF t.resync
    THEN [type |-> "resync_required", seqs |-> Conversation(t.since), cursor |-> Len(log)]
    ELSE [type |-> "ok", seqs |-> Backlog(t.since, t.end), cursor |-> t.end]

\* The socket joins the routing, the groups read at the hello go into the mirror
\* and the reply goes out.  A resync may take a snapshot for its label.
Enter(s) ==
    LET t == task[s] IN
    /\ Turn(s)
    /\ t.pc = "entering"
    /\ conns' = Put(conns, t.nick, conns[t.nick] \cup {s})
    /\ groups' = Put(groups, t.nick, t.groups)
    /\ Transmit(s, ReplyTo(t))
    /\ IF t.resync THEN MaySnapshot(s, Len(log)) ELSE UNCHANGED boundary
    /\ task' = [task EXCEPT ![s].pc = "replying", ![s].displaced = FALSE, ![s].resync = FALSE,
                            ![s].since = 0, ![s].seq = 0]
    /\ AwaitSend(s)
    /\ UNCHANGED <<registry, log, open>>

\* _bylby_adresatem, for the events since the hello; none when the log no longer
\* goes back that far.
MissedByLive(t) == {}
Missed(t) ==
    LET due(e) ==
          CASE e.type = "kick" -> TRUE
            [] e.type \in {"takeover", "fyi"} -> Human(t.nick)
            [] e.type = "chat" -> Human(t.nick) \/ Hears(t.nick, t.groups, e.to)
            [] OTHER -> FALSE
        from_self(e) == e.by = t.nick /\ e.type \in {"chat", "fyi"}
    IN  IF boundary > t.end THEN {}
        ELSE {k \in t.end+1..Len(log) : due(log[k]) /\ ~from_self(log[k])}

StartCatchUp(s) ==
    /\ Turn(s)
    /\ task[s].pc = "replying" /\ open[s]
    /\ task' = [task EXCEPT ![s].pc = "catching", ![s].queue = Missed(task[s]),
                            ![s].end = 0, ![s].groups = {}]
    /\ RunOn(s)
    /\ UNCHANGED <<registry, conns, groups, log, boundary, open, wire>>

CatchUp(s) ==
    /\ Turn(s)
    /\ task[s].pc = "catching" /\ open[s]
    /\ \E k \in task[s].queue :
          /\ \A j \in task[s].queue : k <= j
          /\ Transmit(s, [type |-> "event", seq |-> k])
          /\ task' = [task EXCEPT ![s].queue = @ \ {k}]
    /\ AwaitSend(s)
    /\ UNCHANGED <<registry, conns, groups, log, boundary, open>>

\* Presence goes out, the snapshot policy acts, the frame loop begins.
EndCatchUp(s) ==
    /\ Turn(s)
    /\ task[s].pc = "catching" /\ task[s].queue = {}
    /\ task' = [task EXCEPT ![s].pc = "loop"]
    /\ MaySnapshot(s, Len(log))
    /\ Await
    /\ UNCHANGED <<registry, conns, groups, log, open, wire>>

-----------------------------------------------------------------------------
(* _on_frame.  A frame that was already received is handled even when its  *)
(* connection is gone.                                                     *)

MayActUnchecked(s) ==
    /\ Turn(s)
    /\ task[s].pc = "loop"
    /\ task[s].nick \in Talkers
    /\ FramesSoFar < MaxFrames

\* The check of the socket's generation, and the bounds on frames.
MayAct(s) ==
    /\ Turn(s)
    /\ task[s].pc = "loop"
    /\ task[s].nick \in Talkers
    /\ registry.gen[task[s].nick] = task[s].gen
    /\ FramesSoFar < MaxFrames

\* The second line of defence: a frame from an older generation ends the loop.
StaleFrame(s) ==
    /\ Turn(s)
    /\ task[s].pc = "loop"
    /\ registry.gen[task[s].nick] # task[s].gen
    /\ task' = [task EXCEPT ![s].pc = "leaving"]
    /\ AwaitSend(s)
    /\ UNCHANGED <<registry, conns, groups, log, boundary, open, wire>>

\* _handle_chat up to its append; a name nobody has costs a warning to the
\* sender before the frame is routed.
Chat(s, to, misspelt) ==
    /\ "chat" \in FrameTypes
    /\ MayAct(s)
    /\ log' = Append(log, Event("chat", s, to))
    /\ MaySnapshot(s, Len(log) + 1)
    /\ task' = [task EXCEPT ![s].pc = IF misspelt THEN "warning" ELSE "routing",
                            ![s].seq = Len(log) + 1, ![s].doomed = {}]
    /\ IF misspelt THEN AwaitSend(s) ELSE RunOn(s)
    /\ UNCHANGED <<registry, conns, groups, open, wire>>

\* fyi and status: for the log and the humans.
Notice(s, type) ==
    /\ type \in FrameTypes \cap {"fyi", "status"}
    /\ MayAct(s)
    /\ log' = Append(log, Event(type, s, {}))
    /\ MaySnapshot(s, Len(log) + 1)
    /\ task' = [task EXCEPT ![s].pc = "routing", ![s].seq = Len(log) + 1, ![s].doomed = {}]
    /\ RunOn(s)
    /\ UNCHANGED <<registry, conns, groups, open, wire>>

\* _on_membership_set: the event, the registry, the mirror, then the ack.
MembershipSet(s, n, gs) ==
    /\ "membership_set" \in FrameTypes
    /\ MayAct(s)
    /\ IsModerator(registry, task[s].nick)
    /\ SetGroupsAllowed(registry, n)
    /\ log' = Append(log, Event("membership_set", s, {n}))
    /\ registry' = SetGroups(registry, n, gs)
    /\ groups' = Put(groups, n, gs)
    /\ MaySnapshot(s, Len(log) + 1)
    /\ task' = [task EXCEPT ![s].pc = "warning", ![s].seq = Len(log) + 1, ![s].doomed = {}]
    /\ AwaitSend(s)
    /\ UNCHANGED <<conns, open, wire>>

\* Who is told: resolved when the frame is routed, not when it was logged.
Audience(e) ==
    LET named == CASE e.type = "chat" -> {n \in Nicks : Hears(n, groups[n], e.to)}
                   [] e.type = "membership_set" -> e.to
                   [] OTHER -> {}
    IN  (named \cup {n \in Nicks : Human(n)}) \ {e.by}

\* After a warning or an ack the handler gets here only if its socket lives.
Route(s) ==
    /\ Turn(s)
    /\ task[s].pc = "routing" \/ (task[s].pc = "warning" /\ open[s])
    /\ task' = [task EXCEPT ![s].pc = "publishing", ![s].audience = Audience(log[task[s].seq])]
    /\ RunOn(s)
    /\ UNCHANGED <<registry, conns, groups, log, boundary, open, wire>>

\* _on_kick up to its ack: durable, applied, and the ack may fail.
Kick(s, n) ==
    /\ "kick" \in FrameTypes
    /\ MayAct(s)
    /\ IsModerator(registry, task[s].nick)
    /\ Known(registry, n)
    /\ log' = Append(log, Event("kick", s, {n}))
    /\ registry' = Release(registry, n)
    /\ MaySnapshot(s, Len(log) + 1)
    /\ task' = [task EXCEPT ![s].pc = "condemning", ![s].seq = Len(log) + 1,
                            ![s].audience = Nicks \ {n}, ![s].doomed = conns[n]]
    /\ AwaitSend(s)
    /\ UNCHANGED <<conns, groups, open, wire>>

-----------------------------------------------------------------------------
(* Broadcasts: one await per socket.  The sockets of a nick are listed when *)
(* its turn comes.                                                         *)

Spreading(s) == Turn(s) /\ task[s].pc \in {"announcing", "publishing", "condemning"}

Spread(s) ==
    LET t == task[s] IN
    /\ Spreading(s)
    /\ \/ \E x \in t.batch :
             /\ Transmit(x, [type |-> "event", seq |-> t.seq])
             /\ task' = [task EXCEPT ![s].batch = @ \ {x}]
       \/ /\ t.batch = {}
          /\ \E n \in t.audience : \E x \in conns[n] :
                /\ Transmit(x, [type |-> "event", seq |-> t.seq])
                /\ task' = [task EXCEPT ![s].batch = conns[n] \ {x}, ![s].audience = @ \ {n}]
    /\ AwaitSend(s)
    /\ UNCHANGED <<registry, conns, groups, log, boundary, open>>

EndSpread(s) ==
    LET t == task[s] IN
    /\ Spreading(s)
    /\ t.batch = {} /\ \A n \in t.audience : conns[n] = {}
    /\ \/ /\ t.pc = "announcing"
          /\ task' = [task EXCEPT ![s].pc = "entering", ![s].audience = {}]
          /\ RunOn(s)
       \/ /\ t.pc = "publishing"
          /\ task' = [task EXCEPT ![s].pc = "loop", ![s].audience = {}, ![s].seq = 0]
          /\ Await
       \/ /\ t.pc = "condemning"
          /\ task' = [task EXCEPT ![s].pc = "ejecting", ![s].audience = {}]
          /\ AwaitSend(s)
    /\ UNCHANGED <<registry, conns, groups, log, boundary, open, wire>>

\* The sockets to close are listed after the error frame went out.
Eject(s) ==
    LET target == CHOOSE n \in log[task[s].seq].to : TRUE IN
    /\ Turn(s)
    /\ task[s].pc = "ejecting"
    /\ task' = [task EXCEPT ![s].pc = "evicting", ![s].todo = conns[target], ![s].seq = 0]
    /\ RunOn(s)
    /\ UNCHANGED <<registry, conns, groups, log, boundary, open, wire>>

EndEviction(s) ==
    /\ Turn(s)
    /\ task[s].pc = "evicting" /\ task[s].todo = {}
    /\ task' = [task EXCEPT ![s].pc = "loop"]
    /\ Await
    /\ UNCHANGED <<registry, conns, groups, log, boundary, open, wire>>

-----------------------------------------------------------------------------
(* The end of a connection. *)

\* The peer goes away; what it had not read is lost.
Disconnect(s) ==
    /\ running = None
    /\ open[s] /\ task[s].pc \notin {"new", "done"}
    /\ open' = [open EXCEPT ![s] = FALSE]
    /\ wire' = [wire EXCEPT ![s] = <<>>]
    /\ UNCHANGED <<registry, conns, groups, log, boundary, task, running>>

\* A recv, or a send to its own socket that nobody guards, raises; or the loop
\* was left: the `finally` of _handler.
OwnAwaitsAndKickAck == {"loop", "replying", "catching", "warning", "condemning"}
OwnAwaits == {"loop", "replying", "catching", "warning"}

Leave(s) ==
    /\ Turn(s)
    /\ task[s].pc = "leaving" \/ (~open[s] /\ task[s].pc \in OwnAwaits)
    /\ conns' = Put(conns, task[s].nick, conns[task[s].nick] \ {s})
    /\ open' = [open EXCEPT ![s] = FALSE]
    /\ Set(s, [NoTask EXCEPT !.pc = "done", !.doomed = task[s].doomed])
    /\ Await
    /\ UNCHANGED <<registry, groups, log, boundary, wire>>

-----------------------------------------------------------------------------

\* What the handler of s does on its own, once its client has spoken.
Handler(s) ==
    \/ CloseOne(s) \/ Announce(s) \/ Enter(s)
    \/ StartCatchUp(s) \/ CatchUp(s) \/ EndCatchUp(s)
    \/ Route(s) \/ Spread(s) \/ EndSpread(s)
    \/ Eject(s) \/ EndEviction(s)
    \/ Leave(s)

\* A frame that the client of s sends.
Frame(s) ==
    \/ StaleFrame(s)
    \/ \E to \in MentionSets, misspelt \in Misspells : Chat(s, to, misspelt)
    \/ \E type \in {"fyi", "status"} : Notice(s, type)
    \/ \E n \in Nicks, gs \in SUBSET Groups : MembershipSet(s, n, gs)
    \/ \E n \in Nicks : Kick(s, n)

\* A client is new, or up to date; other cursors are Delivery's subject.
Next ==
    \/ \E s \in Sockets, n \in Nicks, i \in Instances, c \in {0, Len(log)} : HelloFrame(s, n, i, c)
    \/ \E s \in Sockets : TurnedAway(s)
    \/ \E s \in Sockets : Frame(s)
    \/ \E s \in Sockets : Handler(s)
    \/ \E s \in Sockets : Disconnect(s)

\* The loop does not stop while a handler is ready, and a send or a close ends:
\* the keepalive and close timeouts of the transport cut a peer that is not
\* there.  The bounds make every handler's work finite, so nothing is assumed of
\* how the loop chooses between them.
Fairness == WF_vars(\E s \in Sockets : Handler(s))

Spec == Init /\ [][Next]_vars /\ Fairness

-----------------------------------------------------------------------------
(* Properties. *)

EventType == [type : {"hello", "takeover", "chat", "fyi", "status", "kick", "membership_set"},
              by : Nicks, gen : Nat, to : SUBSET (Nicks \cup Groups)]

FrameType == [type : {"event"}, seq : DOMAIN log]
             \cup [type : {"ok", "resync_required"}, seqs : SUBSET (DOMAIN log),
                   cursor : DOMAIN log]

\* The type invariant; a handler that holds the loop is not done with it.
TypeOK ==
    /\ registry \in RegistryType
    /\ conns \in [Nicks -> SUBSET Sockets]
    /\ groups \in [Nicks -> SUBSET Groups]
    /\ \A k \in DOMAIN log : log[k] \in EventType
    /\ boundary \in 0..Len(log)
    /\ open \in [Sockets -> BOOLEAN]
    /\ \A s \in Sockets : \A j \in DOMAIN wire[s] : wire[s][j] \in FrameType
    /\ \A s \in Sockets : task[s].pc \in Places /\ task[s].gen \in Nat
    /\ running # None => task[running].pc \notin {"new", "loop", "done"}

Takeovers(n) == {k \in DOMAIN log : log[k].type = "takeover" /\ log[k].by = n}
Deeds(n) == {k \in DOMAIN log : log[k].type # "takeover" /\ log[k].by = n}

\* Once a takeover is in the log, the log holds nothing more from the instance
\* that was displaced, whatever it still had in flight (server.py, rule a).
NothingAfterTakeover ==
    \A n \in Nicks : \A j, k \in Deeds(n) : j < k => log[j].gen <= log[k].gen

\* Every displacement leaves exactly one notice in the log, after the hello it
\* is about, also when takeovers of one nick overlap and the sockets involved
\* are gone by then (_announce_takeover); one that has none yet is on its way.
Announcing(n) ==
    {task[s].gen : s \in {x \in Sockets : /\ task[x].nick = n
                                          /\ task[x].pc = "closing"
                                          /\ task[x].displaced}}
TakeoverTrail ==
    \A n \in Nicks :
        LET displacing == {log[k].gen : k \in Deeds(n)} \ {1}
            announced == {log[k].gen : k \in Takeovers(n)}
        IN  /\ announced \cup Announcing(n) = displacing
            /\ announced \cap Announcing(n) = {}
            /\ Cardinality(announced) = Cardinality(Takeovers(n))
            /\ \A k \in Takeovers(n) : \E j \in Deeds(n) : j < k /\ log[j].gen = log[k].gen

\* When the handler of a kick is back in its loop, or gone because its own
\* moderator left, everybody who was connected under the name at the kick is
\* disconnected, or is being closed by a takeover of that name.
KickLands ==
    \A s \in Sockets :
        task[s].pc \in {"loop", "done"} =>
            \A x \in task[s].doomed :
                ~open[x] \/ \E h \in Sockets : x \in task[h].todo

-----------------------------------------------------------------------------
(* What the code says of itself, and does not keep. *)

\* Rule a of the module: a takeover closes the old sockets at once, so what is
\* routed to is of the current generation.
RoutedIsCurrent ==
    \A n \in Nicks : \A s \in conns[n] : task[s].gen = registry.gen[n]

\* __init__: groups is the mirror of the durable registry.
MirrorIsRegistry == groups = registry.groups
=============================================================================
