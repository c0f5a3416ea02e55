-------------------------------- MODULE Node --------------------------------
(***************************************************************************)
(* agentmachi/node.py: the process that wakes an agent when its nick is    *)
(* mentioned, and resumes the agent's session.  Its state.json is saved at *)
(* three points of a wake: before the agent runs, when the agent names its *)
(* session, and when the round is over.                                    *)
(*                                                                         *)
(* One node, which holds the listener lock of its nick.  The hub is seen   *)
(* through its log, the moment a compaction moved past, and the connection *)
(* it pushes live mentions to.  What the room holds fits the window of a   *)
(* resync's conversation.                                                  *)
(*                                                                         *)
(* A save replaces the file, so it happens or it fails; `state` is what    *)
(* the process has in memory, lost with the connection.  Losing the        *)
(* connection, dying and failing to save are faults, MaxFaults in all.     *)
(***************************************************************************)
EXTENDS Naturals, Sequences, FiniteSets

CONSTANTS
    Said,       \* who says what in the room: a set of [by, says]
    MaxLog,     \* bound: frames that others append
    MaxTime,    \* bound: ticks of the clock
    MaxFaults,  \* bound
    Compacts,   \* the hub may take snapshots
    Cap,        \* RateLimiter.max_wakes_per_hour
    Window,     \* RateLimiter._window
    Cooldown    \* RateLimiter.cooldown

Frames == [by : {"human", "peer", "self"},
           says : {"talk", "nick", "group", "join", "leave", "kick"}]

ASSUME NodeAssumption ==
    /\ Said \subseteq Frames
    /\ MaxLog \in Nat /\ MaxTime \in Nat /\ MaxFaults \in Nat
    /\ Compacts \in BOOLEAN
    /\ Cap \in Nat \ {0} /\ Window \in Nat /\ Cooldown \in Nat

VARIABLES
    log,       \* the hub's log: "nick" mentions the node, "group" a group, "join"
               \* and "leave" are the membership_set frames that move the node
    boundary,  \* the hub's snapshot_seq
    now,       \* the clock
    faults,    \* faults so far
    pc,        \* where the node is, see Places
    conn,      \* its connection: "none" | "open" | "lost" | "kicked"
    wire,      \* seqs pushed live and not read
    disk,      \* state.json
    state,     \* NodeState in memory
    groups,    \* the node's view: is it in the group?
    reply,     \* the reply to its hello
    wakes,     \* history: the rounds started
    heard,     \* history: seqs in the prompt of a round that returned
    limited,   \* history: seqs answered with rate-limited
    dropped    \* history: seqs saved as handled, whose round never started

hub == <<log, boundary>>
files == <<disk, state>>
history == <<wakes, heard, limited, dropped>>
vars == <<hub, now, faults, pc, conn, wire, files, groups, reply, history>>

Places == {"down",     \* not running
           "away",     \* node_loop between two connections
           "backlog",  \* looking through the reply for a mention
           "wake",     \* mention saved, round not started
           "round",    \* runtime.run
           "named",    \* runtime.run, session id saved
           "say",      \* about to tell the room of a limit or an error
           "live",     \* reading what is pushed
           "stopped"}  \* ended by a kick

NewState == [session |-> FALSE, wake |-> 0, ctx |-> 0, times |-> {}]
NoReply == [resync |-> FALSE, frames |-> {}, end |-> 0]

Init ==
    /\ log = <<>> /\ boundary = 0 /\ now = 0 /\ faults = 0
    /\ pc = "down" /\ conn = "none" /\ wire = <<>>
    /\ disk = NewState /\ state = NewState
    /\ groups = FALSE /\ reply = NoReply
    /\ wakes = <<>> /\ heard = {} /\ limited = {} /\ dropped = {}

-----------------------------------------------------------------------------
(* The hub. *)

Member == LET moves == {k \in DOMAIN log : log[k].says \in {"join", "leave"}}
          IN  moves # {} /\ log[CHOOSE k \in moves : \A j \in moves : j <= k].says = "join"
Conversation == {k \in DOMAIN log : log[k].says \notin {"join", "leave"}}

\* _publish_chat and _on_membership_set: what the node is pushed.
Hears(f) ==
    \/ f.says = "nick" /\ f.by # "self"
    \/ f.says = "group" /\ f.by # "self" /\ Member
    \/ f.says \in {"join", "leave"}

Speak(f) ==
    /\ f.says # "kick"
    /\ Len(log) < MaxLog
    /\ log' = Append(log, f)
    /\ wire' = IF conn = "open" /\ Hears(f) THEN Append(wire, Len(log) + 1) ELSE wire
    /\ UNCHANGED <<boundary, now, faults, pc, conn, files, groups, reply, history>>

\* _on_kick: the connections of the nick are closed with a code of their own.
Kick(f) ==
    /\ f.says = "kick"
    /\ Len(log) < MaxLog
    /\ log' = Append(log, f)
    /\ conn' = IF conn = "open" THEN "kicked" ELSE conn
    /\ UNCHANGED <<boundary, now, faults, pc, wire, files, groups, reply, history>>

-----------------------------------------------------------------------------
(* What the node decides. *)

\* _is_wake and _should_wake
ShouldWake(k) ==
    /\ k > state.wake
    /\ log[k].by # "self"
    /\ \/ log[k].says = "nick"
       \/ log[k].says = "group" /\ groups

\* The frames of the reply that ask for a wake: those of a backlog are taken
\* one after the other, of a resync only the newest.
Pending == {k \in reply.frames : ShouldWake(k)}
IsNext(k) ==
    /\ k \in Pending
    /\ \A j \in Pending : IF reply.resync THEN j <= k ELSE k <= j

\* RateLimiter.check.  The wake times, each with the mention it was for: two may be
\* the same.  The cooldown runs from the latest.
Timed(k) == [seq |-> k, at |-> now]
Recent(times) == {t \in times : now < t.at + Window}
IsLimited(k) ==
    /\ log[k].by # "human"
    /\ \/ Cardinality(Recent(state.times)) >= Cap
       \/ \E t \in Recent(state.times) : now < t.at + Cooldown

\* The messages of the envelope, for a wake by k.
ContextBefore(k) == {j \in reply.frames : state.ctx < j /\ j < k}
Context(k) == {j \in reply.frames : state.ctx < j /\ j <= k}

\* The clock is read when a mention is judged: what passes earlier may pass then.
Tick ==
    /\ now < MaxTime
    /\ pc = "backlog" /\ Pending # {}
    /\ now' = now + 1
    /\ UNCHANGED <<hub, faults, pc, conn, wire, files, groups, reply, history>>

-----------------------------------------------------------------------------
(* How a connection ends: back to node_loop, or for good after a kick.     *)

Gone(place) ==
    /\ pc' = place
    /\ conn' = "none" /\ wire' = <<>>
    /\ state' = disk'  \* the next _one_connection loads the file
    /\ groups' = FALSE /\ reply' = NoReply

\* save succeeds, and the node goes on at `place`.
Saved(new, place) ==
    /\ state' = new /\ disk' = new
    /\ pc' = place
    /\ UNCHANGED <<faults, conn, wire, groups, reply>>

\* save raises OSError, which node_loop takes for a lost connection.
SaveFails ==
    /\ faults < MaxFaults
    /\ faults' = faults + 1
    /\ disk' = disk
    /\ Gone("away")

-----------------------------------------------------------------------------
(* The node. *)

Launch ==
    /\ pc \in {"down", "stopped"}
    /\ pc' = "away"
    /\ UNCHANGED <<hub, now, faults, conn, wire, files, groups, reply, history>>

\* _one_connection up to the reply of the hub.  When the hub takes its snapshots
\* matters only here: since the last hello, or for this one.
Connect ==
    /\ pc = "away"
    /\ boundary' \in {boundary} \cup (IF Compacts THEN boundary..Len(log) ELSE {})
    /\ LET resync == disk.ctx < boundary'
           new == {k \in DOMAIN log : k > disk.ctx}
       IN  reply' = [resync |-> resync,
                     frames |-> IF resync THEN new \cap Conversation ELSE new,
                     end |-> Len(log)]
    /\ state' = disk
    /\ groups' = Member
    /\ pc' = "backlog" /\ conn' = "open"
    /\ UNCHANGED <<log, now, faults, wire, disk, history>>

\* _handle_wake, refused: the mention is used up, its context is not.
RefuseWake(k) ==
    /\ pc = "backlog" /\ IsNext(k) /\ IsLimited(k)
    /\ \/ /\ Saved([state EXCEPT !.wake = k], "say")
          /\ limited' = limited \cup {j \in Pending : j <= k}
       \/ SaveFails /\ UNCHANGED limited
    /\ UNCHANGED <<hub, now, wakes, heard, dropped>>

\* _handle_wake up to its first save.
SaveWakeInMemory(k) ==
    /\ pc = "backlog" /\ IsNext(k) /\ ~IsLimited(k)
    /\ state' = [state EXCEPT !.wake = k, !.times = Recent(@) \cup {Timed(k)}]
    /\ pc' = "wake"
    /\ UNCHANGED <<hub, now, faults, conn, wire, disk, groups, reply, history>>
SaveWakeUncounted(k) ==
    /\ pc = "backlog" /\ IsNext(k) /\ ~IsLimited(k)
    /\ \/ Saved([state EXCEPT !.wake = k], "wake")
       \/ SaveFails
    /\ UNCHANGED <<hub, now, history>>
SaveWake(k) ==
    /\ pc = "backlog" /\ IsNext(k) /\ ~IsLimited(k)
    /\ \/ Saved([state EXCEPT !.wake = k, !.times = Recent(@) \cup {Timed(k)}], "wake")
       \/ SaveFails
    /\ UNCHANGED <<hub, now, history>>

\* runtime.run starts the agent.
StartRound ==
    /\ pc = "wake"
    /\ pc' = "round"
    /\ wakes' = Append(wakes, [seq |-> state.wake, at |-> now, context |-> Context(state.wake),
                               resumed |-> state.session, named |-> FALSE])
    /\ UNCHANGED <<hub, now, faults, conn, wire, files, groups, reply, heard, limited, dropped>>

\* The agent cannot be started.
RoundNeverStarts ==
    /\ pc = "wake"
    /\ pc' = "say"
    /\ dropped' = dropped \cup {j \in reply.frames : j <= state.wake}
    /\ UNCHANGED <<hub, now, faults, conn, wire, files, groups, reply, wakes, heard, limited>>

\* _persist_sid
NameSessionInMemory ==
    /\ pc = "round"
    /\ state' = [state EXCEPT !.session = TRUE]
    /\ pc' = "named"
    /\ wakes' = [wakes EXCEPT ![Len(wakes)].named = TRUE]
    /\ UNCHANGED <<hub, now, faults, conn, wire, disk, groups, reply, heard, limited, dropped>>
NameSession ==
    /\ pc = "round"
    /\ Saved([state EXCEPT !.session = TRUE], "named")
    /\ wakes' = [wakes EXCEPT ![Len(wakes)].named = TRUE]
    /\ UNCHANGED <<hub, now, heard, limited, dropped>>

HearContext == heard' = heard \cup wakes[Len(wakes)].context

\* Its save raises inside run, which takes it for a broken pipe: the agent is
\* killed, the round returns, and the last save writes the session as well.
NameSessionFails ==
    /\ pc = "round"
    /\ faults < MaxFaults
    /\ faults' = faults + 1
    /\ LET new == [state EXCEPT !.session = TRUE, !.ctx = state.wake]
       IN  state' = new /\ disk' = new
    /\ pc' = "backlog"
    /\ HearContext
    /\ UNCHANGED <<hub, now, conn, wire, groups, reply, wakes, limited, dropped>>

\* run returns, whatever the exit code: done, failed, or killed by the timeout.
EndRound ==
    /\ pc \in {"round", "named"}
    /\ \/ Saved([state EXCEPT !.ctx = state.wake], "backlog")
       \/ SaveFails
    /\ HearContext
    /\ UNCHANGED <<hub, now, wakes, limited, dropped>>

\* run raises while the agent runs: the context stays for the next wake.
RoundRaisesFinally ==
    /\ pc \in {"round", "named"}
    /\ Saved([state EXCEPT !.ctx = state.wake], "say")
    /\ UNCHANGED <<hub, now, history>>
RoundRaises ==
    /\ pc \in {"round", "named"}
    /\ pc' = "say"
    /\ UNCHANGED <<hub, now, faults, conn, wire, files, groups, reply, history>>

\* _say: a chat of the node's own.  On a closed connection it raises, or the
\* node has not noticed yet and goes on.
Say ==
    /\ pc = "say"
    /\ IF conn = "open" THEN log' = Append(log, [by |-> "self", says |-> "talk"])
                        ELSE UNCHANGED log
    /\ \/ pc' = "backlog" /\ UNCHANGED <<conn, wire, files, groups, reply>>
       \/ conn = "lost" /\ disk' = disk /\ Gone("away")
       \/ conn = "kicked" /\ disk' = disk /\ Gone("stopped")
    /\ UNCHANGED <<boundary, now, faults, history>>

\* Where the context cursor goes after a resync: the end the hub named.
Passed == IF state.ctx < reply.end THEN reply.end ELSE state.ctx

\* Nothing (more) to wake for.
EndBacklog ==
    /\ pc = "backlog" /\ Pending = {}
    /\ \/ /\ pc' = "live"
          /\ reply' = NoReply
          /\ IF reply.resync THEN state' = [state EXCEPT !.ctx = Passed] /\ disk' = state'
                             ELSE UNCHANGED files
          /\ UNCHANGED <<faults, conn, wire, groups>>
       \/ reply.resync /\ SaveFails
    /\ UNCHANGED <<hub, now, history>>

\* A live frame: a change of groups is taken over, a mention is the signal to
\* connect again and find it in the backlog.
ReadLiveGroupsAsAtHello ==
    /\ pc = "live" /\ wire # <<>>
    /\ LET k == Head(wire) IN
       \/ ShouldWake(k) /\ disk' = disk /\ Gone("away")
       \/ ~ShouldWake(k) /\ wire' = Tail(wire) /\ UNCHANGED <<pc, conn, state, groups, reply>>
    /\ UNCHANGED <<hub, now, faults, disk, history>>
ReadLive ==
    /\ pc = "live" /\ wire # <<>>
    /\ LET k == Head(wire) IN
       \/ /\ log[k].says \in {"join", "leave"}
          /\ groups' = (log[k].says = "join")
          /\ wire' = Tail(wire)
          /\ UNCHANGED <<pc, conn, state, reply>>
       \/ /\ ShouldWake(k)
          /\ disk' = disk /\ Gone("away")
       \/ /\ log[k].says \notin {"join", "leave"} /\ ~ShouldWake(k)
          /\ wire' = Tail(wire)
          /\ UNCHANGED <<pc, conn, state, groups, reply>>
    /\ UNCHANGED <<hub, now, faults, disk, history>>

\* The connection is over and what it held is read.
LiveEnds ==
    /\ pc = "live" /\ wire = <<>>
    /\ disk' = disk
    /\ \/ conn = "lost" /\ Gone("away")
       \/ conn = "kicked" /\ Gone("stopped")
    /\ UNCHANGED <<hub, now, faults, history>>

Disconnect ==
    /\ conn = "open"
    /\ faults < MaxFaults
    /\ faults' = faults + 1
    /\ conn' = "lost"
    /\ UNCHANGED <<hub, now, pc, wire, files, groups, reply, history>>

\* The node dies.  A mention saved as handled is not given to anybody then.
Crash ==
    /\ pc \notin {"down", "stopped"}
    /\ faults < MaxFaults
    /\ faults' = faults + 1
    /\ disk' = disk
    /\ Gone("down")
    /\ dropped' = IF pc = "wake" THEN dropped \cup {j \in reply.frames : j <= state.wake} ELSE dropped
    /\ UNCHANGED <<hub, now, wakes, heard, limited>>

Works ==
    \/ Connect
    \/ \E k \in reply.frames : RefuseWake(k) \/ SaveWake(k)
    \/ StartRound \/ RoundNeverStarts
    \/ NameSession \/ NameSessionFails
    \/ EndRound \/ RoundRaises
    \/ Say
    \/ EndBacklog
    \/ ReadLive \/ LiveEnds

Next ==
    \/ \E f \in Said : Speak(f) \/ Kick(f)
    \/ Tick
    \/ Launch \/ Works
    \/ Disconnect \/ Crash

\* A connected node runs on; a round ends, at the latest by its timeout.
Spec == Init /\ [][Next]_vars /\ WF_vars(Works)

-----------------------------------------------------------------------------
(* Properties. *)

\* The type invariant: memory is the file while nothing is being handled.
States == [session : BOOLEAN, wake : 0..Len(log), ctx : 0..Len(log), 
           times : SUBSET [seq : DOMAIN log, at : 0..MaxTime]]
Rounds == [seq : DOMAIN log, at : 0..MaxTime, context : SUBSET DOMAIN log,
           resumed : BOOLEAN, named : BOOLEAN]
TypeOK ==
    /\ log \in Seq(Frames)
    /\ boundary \in 0..Len(log)
    /\ now \in 0..MaxTime /\ faults \in 0..MaxFaults
    /\ pc \in Places /\ conn \in {"none", "open", "lost", "kicked"}
    /\ wire \in Seq(DOMAIN log)
    /\ disk \in States /\ state \in States
    /\ groups \in BOOLEAN
    /\ reply \in [resync : BOOLEAN, frames : SUBSET DOMAIN log, end : 0..Len(log)]
    /\ wakes \in Seq(Rounds)
    /\ heard \cup limited \cup dropped \subseteq DOMAIN log

\* No mention wakes the agent twice, although the hub delivers it again after
\* every reconnect, crash, and failed save (the cursor contract, first save).
WokenOnce == \A i, j \in DOMAIN wakes : i < j => wakes[i].seq < wakes[j].seq

\* A mention is never used up in silence: it was in the prompt of a round, or
\* was answered with a limit, or its round could not start.
Given == UNION {wakes[i].context : i \in DOMAIN wakes}
Accounted ==
    \A k \in DOMAIN log :
        /\ log[k].says = "nick" /\ log[k].by # "self"
        /\ k <= disk.wake /\ pc # "wake"
        => k \in Given \cup limited \cup dropped

\* The limits hold over crashes and failed saves: a round for an agent's mention
\* starts only below the cap of the window, and a cooldown after the last one.
LimitsHold ==
    \A i \in DOMAIN wakes :
        log[wakes[i].seq].by = "peer" =>
            /\ Cardinality({j \in 1..i-1 : wakes[i].at < wakes[j].at + Window}) < Cap
            /\ \A j \in 1..i-1 :
                  \/ wakes[i].at >= wakes[j].at + Window
                  \/ wakes[i].at >= wakes[j].at + Cooldown

\* Once the agent has named its session, every later round resumes it, wherever
\* the node died meanwhile (second save).
SessionResumed ==
    \A i, j \in DOMAIN wakes : i < j /\ wakes[i].named => wakes[j].resumed

\* The thread of the conversation is not cut: the context cursor passes only what
\* a finished round has been given, whatever was refused, failed or crashed in
\* between; the end of a resync alone may skip (third save).
ContextKept ==
    [][\A k \in Conversation :
          disk.ctx < k /\ k <= disk'.ctx => k \in heard' \/ reply.resync]_vars

\* A mention does not lie in the log unheeded: of the nick, or of a group the
\* node has been a member of since.
MemberSince(k) == \A j \in DOMAIN log : j > k => log[j].says \notin {"join", "leave"}
Called(k) ==
    /\ log[k].by # "self"
    /\ \/ log[k].says = "nick"
       \/ log[k].says = "group" /\ Member /\ MemberSince(k)
CallsAreHeeded ==
    []<>(pc \in {"down", "stopped"} \/ \A k \in DOMAIN log : Called(k) => k <= disk.wake)

=============================================================================
