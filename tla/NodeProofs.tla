------------------------------ MODULE NodeProofs ------------------------------
(***************************************************************************)
(* What the cursor contract of node.py promises, for a room that says      *)
(* anything, any limits and any number of faults: the four invariants and  *)
(* the action property that Node.cfg checks on three frames and one fault. *)
(*                                                                         *)
(* The node's memory is always what a restart would read.  From there the  *)
(* argument follows three cursors.  The wake cursor is past every round    *)
(* that was started.  The context cursor passes no unheeded call, so that  *)
(* whatever calls the node beyond its wake cursor is in the reply to its   *)
(* next hello.  And while a mention is between its first save and its      *)
(* round, the context that the round will get covers every call that the   *)
(* save used up.                                                           *)
(***************************************************************************)
EXTENDS Node, FiniteSetTheorems, TLAPS

\* Looking through a reply, or in the middle of a wake from it.
AtReply == pc \in {"backlog", "wake", "round", "named", "say"}

\* A call that Accounted is about: the node is named by somebody else.
Calls(k) == log[k].says = "nick" /\ log[k].by # "self"

\* Memory is the file, and what is being handled is in the reply, beyond both
\* cursors' last positions.
Cursors ==
    /\ state = disk
    /\ IsFiniteSet(state.times)
    /\ pc \in {"wake", "round", "named"} =>
         state.wake \in reply.frames /\ state.ctx < state.wake
    /\ \A k \in reply.frames : k > state.wake => k > state.ctx

\* Every round is for a mention at or below the wake cursor; the one being woken
\* for has none yet; the one that runs is the last.
Started ==
    /\ \A i \in DOMAIN wakes : wakes[i].seq <= state.wake
    /\ pc = "wake" => \A i \in DOMAIN wakes : wakes[i].seq < state.wake
    /\ pc \in {"round", "named"} => wakes # <<>> /\ wakes[Len(wakes)].context = Context(state.wake)

\* An agent that has named its session is resumed from then on.
Named == \A i \in DOMAIN wakes : wakes[i].named => state.session

\* The reply holds every call that is not handled, and what lies below its end and
\* above the context cursor, unless the hub has compacted it.
Covered ==
    /\ \A k \in DOMAIN log : Calls(k) /\ k <= state.ctx => k <= state.wake
    /\ AtReply =>
         /\ \A k \in 1..reply.end : Calls(k) /\ k > state.wake => k \in reply.frames
         /\ ~reply.resync => \A k \in 1..reply.end : k > state.ctx => k \in reply.frames
    /\ ~AtReply => reply = NoReply
    /\ \A k \in reply.frames : k <= reply.end

\* What the first save of a wake has used up is about to be told.
Promised ==
    \A k \in DOMAIN log :
        Calls(k) /\ k <= state.wake =>
            \/ k \in Given \cup limited \cup dropped
            \/ pc = "wake" /\ k \in Context(state.wake)

\* The clock of the limits: the rounds that still count are in the file.
InWindow == {j \in DOMAIN wakes : now < wakes[j].at + Window}
Counted ==
    /\ \A j \in InWindow : [seq |-> wakes[j].seq, at |-> wakes[j].at] \in state.times
    /\ pc = "wake" => Timed(state.wake) \in state.times
Allowed ==
    pc = "wake" /\ log[state.wake].by = "peer" =>
        /\ Cardinality(InWindow) < Cap
        /\ \A j \in InWindow : now >= wakes[j].at + Cooldown

NodeInv ==
    /\ TypeOK /\ Cursors /\ Started /\ Named /\ Covered /\ Promised /\ Counted /\ Allowed
    /\ WokenOnce /\ LimitsHold /\ SessionResumed

-----------------------------------------------------------------------------
(* The log grows. *)

Extends == log' = log \/ \E f \in Frames : log' = Append(log, f)

LEMMA LogGrows ==
    ASSUME TypeOK, Extends
    PROVE  /\ log' \in Seq(Frames)
           /\ Len(log) \in Nat /\ Len(log') \in Nat /\ Len(log) <= Len(log')
           /\ DOMAIN log = 1..Len(log) /\ DOMAIN log' = 1..Len(log')
           /\ \A k \in DOMAIN log : k \in DOMAIN log' /\ log'[k] = log[k]
<1>1. log \in Seq(Frames)
  BY DEF TypeOK
<1>2. CASE log' = log
  BY <1>1, <1>2
<1>3. ASSUME NEW f \in Frames, log' = Append(log, f)
      PROVE  /\ log' \in Seq(Frames)
             /\ Len(log) \in Nat /\ Len(log') \in Nat /\ Len(log) <= Len(log')
             /\ DOMAIN log = 1..Len(log) /\ DOMAIN log' = 1..Len(log')
             /\ \A k \in DOMAIN log : k \in DOMAIN log' /\ log'[k] = log[k]
  BY <1>1, <1>3
<1> QED BY <1>2, <1>3 DEF Extends

\* What is typed in a log is typed in a longer one.
LEMMA TypesGrow ==
    ASSUME TypeOK, Extends
    PROVE  /\ disk \in States' /\ state \in States'
           /\ reply \in [resync : BOOLEAN, frames : SUBSET DOMAIN log', end : 0..Len(log')]
           /\ wakes \in Seq(Rounds')
           /\ wire \in Seq(DOMAIN log')
           /\ boundary \in 0..Len(log')
           /\ heard \cup limited \cup dropped \subseteq DOMAIN log'
<1>1. DOMAIN log \subseteq DOMAIN log' /\ 0..Len(log) \subseteq 0..Len(log')
  BY LogGrows
<1>2. States \subseteq States'
  <2> SUFFICES ASSUME NEW s \in States PROVE s \in States'
    OBVIOUS
  <2>1. s.wake \in 0..Len(log') /\ s.ctx \in 0..Len(log') /\ s.session \in BOOLEAN
    BY <1>1 DEF States
  <2>2. s.times \subseteq [seq : DOMAIN log', at : 0..MaxTime]
    BY <1>1 DEF States
  <2>3. s = [session |-> s.session, wake |-> s.wake, ctx |-> s.ctx, times |-> s.times]
    BY DEF States
  <2> QED BY <2>1, <2>2, <2>3 DEF States
<1>3. Rounds \subseteq Rounds'
  <2> SUFFICES ASSUME NEW r \in Rounds PROVE r \in Rounds'
    OBVIOUS
  <2>1. r.seq \in DOMAIN log' /\ r.context \subseteq DOMAIN log'
    BY <1>1 DEF Rounds
  <2> QED BY <2>1 DEF Rounds
<1>4. reply \in [resync : BOOLEAN, frames : SUBSET DOMAIN log', end : 0..Len(log')]
  <2>1. reply.frames \subseteq DOMAIN log' /\ reply.end \in 0..Len(log')
    BY <1>1 DEF TypeOK
  <2> QED BY <2>1 DEF TypeOK
<1>5. wakes \in Seq(Rounds') /\ wire \in Seq(DOMAIN log')
  BY <1>1, <1>3 DEF TypeOK
<1> QED BY <1>1, <1>2, <1>4, <1>5 DEF TypeOK

LEMMA RoundsTyped ==
    ASSUME TypeOK
    PROVE  /\ DOMAIN wakes = 1..Len(wakes) /\ Len(wakes) \in Nat
           /\ \A i \in DOMAIN wakes : /\ wakes[i] \in Rounds
                                      /\ wakes[i].seq \in DOMAIN log
                                      /\ wakes[i].at \in Nat
                                      /\ wakes[i].context \subseteq DOMAIN log
<1>1. wakes \in Seq(Rounds)
  BY DEF TypeOK
<1>2. \A i \in DOMAIN wakes : wakes[i] \in Rounds
  BY <1>1
<1> QED BY <1>1, <1>2, NodeAssumption DEF Rounds

-----------------------------------------------------------------------------
(* Steps that leave the cursors and the rounds as they are. *)

\* Only the place, the connection and what the room said: between the rounds.
LEMMA QuietKeeps ==
    ASSUME NodeInv, Extends, TypeOK',
           UNCHANGED <<now, files, reply, wakes, limited, dropped>>,
           \/ pc' = pc
           \/ pc = "say" /\ pc' = "backlog"
           \/ pc \in {"round", "named"} /\ pc' = "say"
           \/ pc \in {"down", "stopped"} /\ pc' = "away"
    PROVE  NodeInv'
<1> USE DEF files
<1>1. /\ (AtReply' <=> AtReply)
      /\ pc' \in {"wake", "round", "named"} => pc' = pc
  BY DEF AtReply
<1>2. Cursors' /\ Named'
  BY <1>1 DEF NodeInv, Cursors, Named
<1>3. Context(state.wake)' = Context(state.wake)
  BY DEF Context
<1>4. Started'
  BY <1>1, <1>3 DEF NodeInv, Started
<1>5. \A k \in DOMAIN log : k \in DOMAIN log' /\ (Calls(k)' <=> Calls(k)) /\ log'[k].by = log[k].by
  BY LogGrows DEF NodeInv, Calls
<1>6. /\ DOMAIN log = 1..Len(log) /\ reply.end \in 0..Len(log) /\ Len(log) \in Nat
      /\ state.wake \in 0..Len(log) /\ state.ctx \in 0..Len(log)
      /\ DOMAIN log' = 1..Len(log') /\ Len(log') \in Nat
  BY LogGrows DEF NodeInv, TypeOK, States
<1>7. Covered'
  BY <1>1, <1>5, <1>6 DEF NodeInv, Covered
<1>8. Promised'
  BY <1>1, <1>3, <1>5, <1>6 DEF NodeInv, Promised, Given
<1>9. InWindow' = InWindow /\ Timed(state.wake)' = Timed(state.wake)
  BY DEF InWindow, Timed
<1>10. Counted' /\ Allowed'
  <2>1. pc = "wake" => state.wake \in DOMAIN log
    BY DEF NodeInv, Cursors, TypeOK
  <2> QED BY <1>1, <1>5, <1>9, <2>1 DEF NodeInv, Counted, Allowed
<1>11. LimitsHold'
  <2>1. \A i \in DOMAIN wakes : wakes[i].seq \in DOMAIN log
    BY RoundsTyped DEF NodeInv
  <2> QED BY <1>5, <2>1 DEF NodeInv, LimitsHold
<1> QED BY <1>2, <1>4, <1>7, <1>8, <1>10, <1>11 DEF NodeInv, WokenOnce, SessionResumed

\* The connection ends and with it what was in memory: whatever was being handled
\* is told, or was not saved.
LEMMA GoneKeeps ==
    ASSUME NodeInv, Extends, TypeOK', NEW place \in {"away", "down", "stopped"}, Gone(place),
           disk' = disk, UNCHANGED <<now, wakes, limited>>, dropped \subseteq dropped',
           pc = "wake" => Context(state.wake) \subseteq dropped'
    PROVE  NodeInv'
<1>1. state' = state /\ pc' = place /\ reply' = NoReply /\ ~AtReply'
  BY DEF Gone, NodeInv, Cursors, AtReply
<1>2. pc' \notin {"wake", "round", "named"}
  BY <1>1
<1>3. Cursors' /\ Named' /\ Started'
  BY <1>1, <1>2 DEF NodeInv, Cursors, Named, Started, NoReply
<1>4. \A k \in DOMAIN log : k \in DOMAIN log' /\ (Calls(k)' <=> Calls(k)) /\ log'[k].by = log[k].by
  BY LogGrows DEF NodeInv, Calls
<1>5. /\ DOMAIN log = 1..Len(log) /\ Len(log) \in Nat
      /\ state.wake \in 0..Len(log) /\ state.ctx \in 0..Len(log)
      /\ DOMAIN log' = 1..Len(log') /\ Len(log') \in Nat
  BY LogGrows DEF NodeInv, TypeOK, States
<1>6. Covered'
  BY <1>1, <1>4, <1>5 DEF NodeInv, Covered, NoReply
<1>7. Promised'
  BY <1>1, <1>4, <1>5 DEF NodeInv, Promised, Given
<1>8. Counted' /\ Allowed'
  BY <1>1, <1>2 DEF NodeInv, Counted, Allowed, InWindow
<1>9. LimitsHold'
  BY <1>4, RoundsTyped DEF NodeInv, LimitsHold
<1> QED BY <1>3, <1>6, <1>7, <1>8, <1>9 DEF NodeInv, WokenOnce, SessionResumed

LEMMA GoneTypes ==
    ASSUME NodeInv, Extends, NEW place \in {"away", "down", "stopped"}, Gone(place), disk' = disk,
           UNCHANGED <<boundary, now, wakes, limited>>,
           faults' \in 0..MaxFaults, heard' \cup dropped' \subseteq DOMAIN log
    PROVE  TypeOK'
<1>1. /\ state' = disk /\ pc' \in Places /\ conn' = "none" /\ wire' = <<>>
      /\ groups' = FALSE /\ reply' = NoReply
  BY DEF Gone, Places
<1>2. NoReply \in [resync : BOOLEAN, frames : SUBSET DOMAIN log', end : 0..Len(log')]
  BY LogGrows DEF NodeInv, NoReply
<1>3. DOMAIN log \subseteq DOMAIN log'
  BY LogGrows DEF NodeInv
<1>4. boundary' \in 0..Len(log') /\ disk' \in States' /\ wakes' \in Seq(Rounds')
  BY TypesGrow DEF NodeInv
<1>5. heard' \cup limited' \cup dropped' \subseteq DOMAIN log'
  BY <1>3, TypesGrow DEF NodeInv
<1>6. log' \in Seq(Frames) /\ now' \in 0..MaxTime /\ <<>> \in Seq(DOMAIN log')
  BY LogGrows DEF NodeInv, TypeOK
<1> QED BY <1>1, <1>2, <1>4, <1>5, <1>6 DEF NodeInv, TypeOK

\* A save that fails: nothing is saved and the connection is given up.
LEMMA SaveFailsKeeps ==
    ASSUME NodeInv, SaveFails, pc # "wake", UNCHANGED <<hub, now, wakes, limited, dropped>>,
           heard' \subseteq DOMAIN log
    PROVE  NodeInv'
<1>1. Extends /\ Gone("away") /\ disk' = disk
  BY DEF Extends, SaveFails, hub
<1>2. faults' \in 0..MaxFaults /\ dropped' \subseteq DOMAIN log
  BY NodeAssumption DEF SaveFails, NodeInv, TypeOK
<1>3. TypeOK'
  BY <1>1, <1>2, GoneTypes DEF hub
<1> QED BY <1>1, <1>3, GoneKeeps

-----------------------------------------------------------------------------
(* The hub, and the connection. *)

LEMMA SpeakKeeps ==
    ASSUME NodeInv, NEW f \in Said, Speak(f)
    PROVE  NodeInv'
<1>1. f \in Frames /\ Extends
  BY NodeAssumption DEF Speak, Extends
<1>2. wire' \in Seq(DOMAIN log')
  <2> DEFINE S == DOMAIN log'
             k == Len(log) + 1
  <2>1. wire \in Seq(S) /\ k \in S
    BY <1>1, TypesGrow DEF NodeInv, TypeOK, Speak
  <2>2. wire' = Append(wire, k) \/ wire' = wire
    BY DEF Speak
  <2> HIDE DEF S, k
  <2>3. wire' \in Seq(S)
    BY <2>1, <2>2
  <2> QED BY <2>3 DEF S
<1>3. TypeOK'
  BY <1>1, <1>2, TypesGrow, LogGrows DEF NodeInv, TypeOK, Speak, files, history
<1> QED BY <1>1, <1>3, QuietKeeps DEF Speak, history

LEMMA KickKeeps ==
    ASSUME NodeInv, NEW f \in Said, Kick(f)
    PROVE  NodeInv'
<1>1. f \in Frames /\ Extends
  BY NodeAssumption DEF Kick, Extends
<1>2. TypeOK'
  BY <1>1, TypesGrow, LogGrows DEF NodeInv, TypeOK, Kick, files, history
<1> QED BY <1>1, <1>2, QuietKeeps DEF Kick, history

LEMMA SayKeeps ==
    ASSUME NodeInv, Say
    PROVE  NodeInv'
<1>1. Extends
  BY DEF Say, Extends, Frames
<1>2. CASE pc' = "backlog" /\ UNCHANGED <<conn, wire, files, groups, reply>>
  <2>1. TypeOK'
    BY <1>1, <1>2, TypesGrow, LogGrows DEF NodeInv, TypeOK, Say, files, history, Places
  <2> QED BY <1>1, <1>2, <2>1, QuietKeeps DEF Say, history
<1>3. ASSUME NEW place \in {"away", "stopped"}, disk' = disk, Gone(place)
      PROVE  NodeInv'
  <2>1. /\ UNCHANGED <<boundary, now, wakes, heard, limited, dropped>>
        /\ faults' \in 0..MaxFaults /\ heard' \cup dropped' \subseteq DOMAIN log
    BY DEF Say, history, NodeInv, TypeOK
  <2>2. TypeOK'
    BY <1>1, <1>3, <2>1, GoneTypes
  <2> QED BY <1>1, <1>3, <2>1, <2>2, GoneKeeps DEF Say
<1> QED BY <1>2, <1>3 DEF Say

LEMMA DisconnectKeeps ==
    ASSUME NodeInv, Disconnect
    PROVE  NodeInv'
<1>1. Extends
  BY DEF Disconnect, Extends, hub
<1>2. TypeOK'
  <2>1. faults' \in 0..MaxFaults /\ conn' = "lost"
    BY NodeAssumption DEF Disconnect, NodeInv, TypeOK
  <2> QED BY <2>1 DEF NodeInv, TypeOK, Disconnect, hub, files, history, States, Rounds
<1> QED BY <1>1, <1>2, QuietKeeps DEF Disconnect, history

LEMMA LaunchKeeps ==
    ASSUME NodeInv, Launch
    PROVE  NodeInv'
<1>1. Extends
  BY DEF Launch, Extends, hub
<1>2. TypeOK'
  BY DEF NodeInv, TypeOK, Launch, hub, files, history, States, Rounds, Places
<1> QED BY <1>1, <1>2, QuietKeeps DEF Launch, history

LEMMA StutterKeeps ==
    ASSUME NodeInv, UNCHANGED vars
    PROVE  NodeInv'
<1>1. Extends
  BY DEF Extends, vars, hub
<1>2. TypeOK'
  BY DEF NodeInv, TypeOK, vars, hub, files, history, States, Rounds
<1> QED BY <1>1, <1>2, QuietKeeps DEF vars, history

LEMMA LiveEndsKeeps ==
    ASSUME NodeInv, LiveEnds
    PROVE  NodeInv'
<1>1. Extends
  BY DEF Extends, LiveEnds, hub
<1>2. /\ UNCHANGED <<boundary, now, wakes, heard, limited, dropped>> /\ disk' = disk
      /\ faults' \in 0..MaxFaults /\ heard' \cup dropped' \subseteq DOMAIN log
  BY DEF LiveEnds, hub, history, NodeInv, TypeOK
<1>3. \E place \in {"away", "stopped"} : Gone(place)
  BY DEF LiveEnds
<1>4. TypeOK'
  BY <1>1, <1>2, <1>3, GoneTypes
<1> QED BY <1>1, <1>2, <1>3, <1>4, GoneKeeps DEF LiveEnds

LEMMA CrashKeeps ==
    ASSUME NodeInv, Crash
    PROVE  NodeInv'
<1>1. Extends /\ disk' = disk /\ Gone("down")
  BY DEF Extends, Crash, hub
<1>2. /\ UNCHANGED <<boundary, now, wakes, heard, limited>>
      /\ faults' \in 0..MaxFaults
      /\ dropped \subseteq dropped'
  BY NodeAssumption DEF Crash, hub, history, NodeInv, TypeOK
<1>3. heard' \cup dropped' \subseteq DOMAIN log
  BY DEF Crash, NodeInv, TypeOK
<1>4. pc = "wake" => Context(state.wake) \subseteq dropped'
  BY DEF Crash, Context
<1>5. TypeOK'
  BY <1>1, <1>2, <1>3, GoneTypes
<1> QED BY <1>1, <1>2, <1>4, <1>5, GoneKeeps

LEMMA ReadLiveKeeps ==
    ASSUME NodeInv, ReadLive
    PROVE  NodeInv'
<1>1. Extends /\ disk' = disk
  BY DEF Extends, ReadLive, hub
<1>2. CASE ShouldWake(Head(wire)) /\ Gone("away")
  <2>1. /\ UNCHANGED <<boundary, now, wakes, heard, limited, dropped>>
        /\ faults' \in 0..MaxFaults /\ heard' \cup dropped' \subseteq DOMAIN log
    BY DEF ReadLive, hub, history, NodeInv, TypeOK
  <2>2. TypeOK'
    BY <1>1, <1>2, <2>1, GoneTypes
  <2> QED BY <1>1, <1>2, <2>1, <2>2, GoneKeeps DEF ReadLive
<1>3. CASE wire' = Tail(wire) /\ UNCHANGED <<pc, conn, state, reply>> /\ groups' \in BOOLEAN
  <2>1. wire' \in Seq(DOMAIN log)
    BY <1>3 DEF ReadLive, NodeInv, TypeOK
  <2>2. TypeOK'
    BY <1>1, <1>3, <2>1 DEF NodeInv, TypeOK, ReadLive, hub, history, States, Rounds
  <2> QED BY <1>1, <1>3, <2>2, QuietKeeps DEF ReadLive, files, history
<1> QED BY <1>2, <1>3 DEF ReadLive, NodeInv, TypeOK

-----------------------------------------------------------------------------
(* The wake.  None of its steps changes the log or the clock. *)

LEMMA StateTyped ==
    ASSUME TypeOK
    PROVE  /\ Len(log) \in Nat /\ DOMAIN log = 1..Len(log)
           /\ state.wake \in 0..Len(log) /\ state.ctx \in 0..Len(log)
           /\ state.session \in BOOLEAN
           /\ state.times \subseteq [seq : DOMAIN log, at : 0..MaxTime]
           /\ reply.frames \subseteq DOMAIN log /\ reply.end \in 0..Len(log)
           /\ reply.resync \in BOOLEAN
           /\ now \in Nat
<1>1. log \in Seq(Frames) /\ state \in States /\ now \in 0..MaxTime
      /\ reply \in [resync : BOOLEAN, frames : SUBSET DOMAIN log, end : 0..Len(log)]
  BY DEF TypeOK
<1> QED BY <1>1, NodeAssumption DEF States

\* The invariant after a step that touches neither the log, the clock nor the rounds
\* is a matter of the cursors, the place, and what was told.
LEMMA SameRounds ==
    ASSUME NodeInv, UNCHANGED <<log, now, wakes>>, TypeOK',
           Cursors', Covered', Promised',
           state.wake <= state'.wake, state.session => state'.session,
           \A j \in InWindow : [seq |-> wakes[j].seq, at |-> wakes[j].at] \in state'.times,
           pc' \notin {"wake", "round", "named"}
    PROVE  NodeInv'
<1>1. Started'
  <2>1. state.wake \in Nat /\ state'.wake \in Nat
    BY DEF NodeInv, TypeOK, States
  <2>2. \A i \in DOMAIN wakes : wakes[i].seq \in Nat /\ wakes[i].seq <= state.wake
    BY RoundsTyped, StateTyped DEF NodeInv, Started
  <2> QED BY <2>1, <2>2 DEF Started
<1>2. Named' /\ SessionResumed'
  BY DEF NodeInv, Named, SessionResumed
<1>3. InWindow' = InWindow
  BY DEF InWindow
<1>4. Counted' /\ Allowed'
  BY <1>3 DEF Counted, Allowed
<1>5. WokenOnce' /\ LimitsHold'
  BY DEF NodeInv, WokenOnce, LimitsHold
<1> QED BY <1>1, <1>2, <1>4, <1>5 DEF NodeInv

LEMMA TickKeeps ==
    ASSUME NodeInv, Tick
    PROVE  NodeInv'
<1>1. now' = now + 1 /\ now' \in 0..MaxTime /\ now \in Nat /\ pc = "backlog" /\ pc' = pc
  BY NodeAssumption DEF Tick, NodeInv, TypeOK
<1>2. TypeOK'
  BY <1>1 DEF NodeInv, TypeOK, Tick, hub, files, history, States, Rounds
<1>3. Cursors' /\ Started' /\ Named' /\ Covered'
  BY <1>1 DEF NodeInv, Cursors, Started, Named, Covered, Calls, AtReply, Tick, hub, files, history
<1>4. Promised'
  BY <1>1 DEF NodeInv, Promised, Calls, Given, Tick, hub, files, history
<1>5. InWindow' \subseteq InWindow
  BY <1>1, RoundsTyped, NodeAssumption DEF InWindow, NodeInv, Tick, history
<1>6. Counted' /\ Allowed'
  BY <1>1, <1>5 DEF NodeInv, Counted, Allowed, Tick, files, history
<1>7. WokenOnce' /\ LimitsHold' /\ SessionResumed'
  BY DEF NodeInv, WokenOnce, LimitsHold, SessionResumed, Tick, hub, history
<1> QED BY <1>2, <1>3, <1>4, <1>6, <1>7 DEF NodeInv

\* What calls the node beyond its wake cursor is beyond its context cursor too: the
\* hub sends it, in a backlog or in the conversation of a resync.
LEMMA ConnectKeeps ==
    ASSUME NodeInv, Connect
    PROVE  NodeInv'
<1> DEFINE new == {k \in DOMAIN log : k > disk.ctx}
           frames == IF disk.ctx < boundary' THEN new \cap Conversation ELSE new
<1>1. /\ reply'.resync = (disk.ctx < boundary') /\ reply'.frames = frames
      /\ reply'.end = Len(log)
      /\ reply' = [resync |-> reply'.resync, frames |-> reply'.frames, end |-> reply'.end]
  BY DEF Connect
<1>2. state' = state /\ disk' = disk /\ state = disk /\ pc' = "backlog"
      /\ UNCHANGED <<log, now, wakes, limited, dropped, heard, faults, wire>>
  BY DEF Connect, NodeInv, Cursors, history
<1>3. boundary' \in 0..Len(log)
  BY StateTyped DEF Connect, NodeInv, TypeOK
<1>4. TypeOK'
  <2>1. groups' \in BOOLEAN /\ conn' = "open"
    BY DEF Connect, Member
  <2>2. reply' \in [resync : BOOLEAN, frames : SUBSET DOMAIN log, end : 0..Len(log)]
    <3>1. frames \subseteq DOMAIN log /\ Len(log) \in 0..Len(log)
      BY StateTyped DEF NodeInv
    <3>2. (disk.ctx < boundary') \in BOOLEAN
      OBVIOUS
    <3> HIDE DEF frames
    <3> QED BY <1>1, <3>1, <3>2
  <2> QED BY <1>2, <1>3, <2>1, <2>2 DEF NodeInv, TypeOK, Places, States, Rounds
<1>5. Cursors'
  BY <1>1, <1>2 DEF NodeInv, Cursors
<1>6. Covered'
  <2>1. \A k \in DOMAIN log : Calls(k) => k \in Conversation
    BY DEF Calls, Conversation
  <2>2. \A k \in DOMAIN log : Calls(k) /\ k > state.wake => k > state.ctx
    BY StateTyped DEF NodeInv, Covered
  <2>3. \A k \in 1..Len(log) : Calls(k) /\ k > state.wake => k \in frames
    BY <1>2, <2>1, <2>2, StateTyped DEF NodeInv
  <2>4. ~(disk.ctx < boundary') => \A k \in 1..Len(log) : k > state.ctx => k \in frames
    BY <1>2, StateTyped DEF NodeInv
  <2>5. \A k \in frames : k <= Len(log)
    BY StateTyped DEF NodeInv
  <2> HIDE DEF frames
  <2> QED BY <1>1, <1>2, <2>3, <2>4, <2>5 DEF NodeInv, Covered, Calls, AtReply
<1>7. Promised'
  BY <1>2 DEF NodeInv, Promised, Calls, Given, Connect
<1> QED BY <1>2, <1>4, <1>5, <1>6, <1>7, SameRounds, StateTyped DEF NodeInv, Counted

LEMMA FieldsOfState ==
    ASSUME TypeOK, NEW s \in States, NEW k \in 0..Len(log),
           NEW T \in SUBSET [seq : DOMAIN log, at : 0..MaxTime]
    PROVE  /\ [s EXCEPT !.wake = k] \in States
           /\ [s EXCEPT !.wake = k, !.times = T] \in States
           /\ [s EXCEPT !.ctx = k] \in States
           /\ [s EXCEPT !.session = TRUE] \in States
           /\ [s EXCEPT !.session = TRUE, !.ctx = k] \in States
BY DEF States

\* A mention that is next has the calls that it uses up in the reply.
LEMMA NextCall ==
    ASSUME NodeInv, pc = "backlog", NEW k, IsNext(k)
    PROVE  /\ k \in reply.frames /\ k \in DOMAIN log /\ k \in 0..Len(log) /\ k \in Nat
           /\ k > state.wake /\ k > state.ctx /\ k <= reply.end
           /\ \A j \in DOMAIN log : Calls(j) /\ j <= k /\ j > state.wake =>
                 j \in Pending /\ j > state.ctx
<1>1. k \in reply.frames /\ k > state.wake
  BY DEF IsNext, Pending, ShouldWake
<1>2. k \in DOMAIN log /\ k \in 0..Len(log) /\ k \in Nat /\ k > state.ctx /\ k <= reply.end
  BY <1>1, StateTyped DEF NodeInv, Cursors, Covered
<1>3. ASSUME NEW j \in DOMAIN log, Calls(j), j <= k, j > state.wake
      PROVE  j \in Pending /\ j > state.ctx
  <2>1. j \in reply.frames
    BY <1>2, <1>3, StateTyped DEF NodeInv, Covered, AtReply
  <2> QED BY <1>3, <2>1 DEF Pending, ShouldWake, Calls, NodeInv, Cursors
<1> QED BY <1>1, <1>2, <1>3

LEMMA RefuseWakeKeeps ==
    ASSUME NodeInv, NEW k \in reply.frames, RefuseWake(k)
    PROVE  NodeInv'
<1>1. pc = "backlog" /\ IsNext(k)
  BY DEF RefuseWake
<1>2. CASE SaveFails /\ UNCHANGED limited
  <2>1. heard' \subseteq DOMAIN log
    BY DEF RefuseWake, NodeInv, TypeOK
  <2> QED BY <1>1, <1>2, <2>1, SaveFailsKeeps DEF RefuseWake
<1>3. CASE /\ Saved([state EXCEPT !.wake = k], "say")
           /\ limited' = limited \cup {j \in Pending : j <= k}
  <2>1. /\ state' = [state EXCEPT !.wake = k] /\ disk' = state' /\ pc' = "say"
        /\ UNCHANGED <<log, boundary, now, faults, conn, wire, groups, reply, wakes, heard, dropped>>
    BY <1>3 DEF RefuseWake, Saved, hub
  <2>2. /\ state'.wake = k /\ state'.ctx = state.ctx /\ state'.times = state.times
        /\ state'.session = state.session
    BY <2>1 DEF NodeInv, TypeOK, States
  <2>3. state' \in States
    BY <1>1, <2>1, NextCall, FieldsOfState, {} \in SUBSET [seq : DOMAIN log, at : 0..MaxTime]
    DEF NodeInv, TypeOK
  <2>4. limited' \subseteq DOMAIN log
    BY <1>3, StateTyped DEF NodeInv, TypeOK, Pending
  <2>5. TypeOK'
    BY <2>1, <2>3, <2>4 DEF NodeInv, TypeOK, Places, States, Rounds
  <2>6. Cursors'
    BY <1>1, <2>1, <2>2, NextCall, StateTyped DEF NodeInv, Cursors
  <2>7. Covered'
    BY <1>1, <2>1, <2>2, NextCall, StateTyped DEF NodeInv, Covered, Calls, AtReply
  <2>8. Promised'
    <3> SUFFICES ASSUME NEW j \in DOMAIN log, Calls(j), j <= k
                 PROVE  j \in Given \cup limited' \cup dropped
      BY <2>1, <2>2 DEF Promised, Calls, Given
    <3>1. CASE j <= state.wake
      BY <1>1, <1>3, <3>1 DEF NodeInv, Promised
    <3>2. CASE ~(j <= state.wake)
      BY <1>1, <1>3, <3>2, NextCall, StateTyped DEF NodeInv
    <3> QED BY <3>1, <3>2
  <2> QED BY <1>1, <2>1, <2>2, <2>5, <2>6, <2>7, <2>8, NextCall, StateTyped, SameRounds
          DEF NodeInv, Counted
<1> QED BY <1>2, <1>3 DEF RefuseWake

\* The rounds that still count are among the times that the limiter goes by.
LEMMA FewInWindow ==
    ASSUME NodeInv
    PROVE  /\ IsFiniteSet(Recent(state.times))
           /\ Cardinality(InWindow) <= Cardinality(Recent(state.times))
           /\ Cardinality(InWindow) \in Nat /\ Cardinality(Recent(state.times)) \in Nat
           /\ \A j \in InWindow :
                 [seq |-> wakes[j].seq, at |-> wakes[j].at] \in Recent(state.times)
<1> DEFINE R == Recent(state.times)
           f == [j \in InWindow |-> [seq |-> wakes[j].seq, at |-> wakes[j].at]]
<1>1. IsFiniteSet(R)
  <2>1. R \in SUBSET state.times
    BY DEF Recent
  <2> QED BY <2>1, FS_Subset DEF NodeInv, Cursors
<1>2. \A j \in InWindow : [seq |-> wakes[j].seq, at |-> wakes[j].at] \in R
  BY DEF NodeInv, Counted, InWindow, Recent
<1>3. \A i, j \in InWindow : i # j => wakes[i].seq # wakes[j].seq
  <2> SUFFICES ASSUME NEW i \in InWindow, NEW j \in InWindow, i # j
               PROVE  wakes[i].seq # wakes[j].seq
    OBVIOUS
  <2>1. i \in DOMAIN wakes /\ j \in DOMAIN wakes /\ (i < j \/ j < i)
    BY RoundsTyped DEF InWindow, NodeInv
  <2>2. wakes[i].seq \in Nat /\ wakes[j].seq \in Nat
    BY <2>1, RoundsTyped, StateTyped DEF NodeInv
  <2> QED BY <2>1, <2>2 DEF NodeInv, WokenOnce
<1>4. f \in Injection(InWindow, R)
  <2>1. f \in [InWindow -> R]
    BY <1>2
  <2>2. \A i, j \in InWindow : f[i] = f[j] => i = j
    BY <1>3
  <2> QED BY <2>1, <2>2 DEF Injection, IsInjective
<1> HIDE DEF R, f
<1>5. Cardinality(InWindow) <= Cardinality(R) /\ IsFiniteSet(InWindow)
  BY <1>1, <1>4, FS_Injection
<1>6. Cardinality(InWindow) \in Nat /\ Cardinality(R) \in Nat
  BY <1>1, <1>5, FS_CardinalityType
<1> QED BY <1>1, <1>2, <1>5, <1>6 DEF R

LEMMA SaveWakeKeeps ==
    ASSUME NodeInv, NEW k \in reply.frames, SaveWake(k)
    PROVE  NodeInv'
<1>1. pc = "backlog" /\ IsNext(k) /\ ~IsLimited(k)
  BY DEF SaveWake
<1>2. CASE SaveFails
  <2>1. heard' \subseteq DOMAIN log
    BY DEF SaveWake, history, NodeInv, TypeOK
  <2> QED BY <1>1, <1>2, <2>1, SaveFailsKeeps DEF SaveWake, history
<1>3. CASE Saved([state EXCEPT !.wake = k, !.times = Recent(@) \cup {Timed(k)}], "wake")
  <2> DEFINE T == Recent(state.times) \cup {Timed(k)}
  <2>1. /\ state' = [state EXCEPT !.wake = k, !.times = T] /\ disk' = state' /\ pc' = "wake"
        /\ UNCHANGED <<log, boundary, now, faults, conn, wire, groups, reply, wakes, heard,
                       limited, dropped>>
    BY <1>3 DEF SaveWake, Saved, hub, history
  <2>2. T \in SUBSET [seq : DOMAIN log, at : 0..MaxTime] /\ IsFiniteSet(T)
    <3>1. Recent(state.times) \subseteq [seq : DOMAIN log, at : 0..MaxTime]
      BY StateTyped DEF NodeInv, Recent
    <3>2. Timed(k) \in [seq : DOMAIN log, at : 0..MaxTime]
      BY <1>1, NextCall DEF Timed, NodeInv, TypeOK
    <3>3. IsFiniteSet(T)
      BY FewInWindow, FS_AddElement
    <3> QED BY <3>1, <3>2, <3>3
  <2>3. \A t \in Recent(state.times) : t \in T
    OBVIOUS
  <2>4. Timed(k) \in T
    OBVIOUS
  <2> HIDE DEF T
  <2>5. /\ state'.wake = k /\ state'.ctx = state.ctx /\ state'.times = T
        /\ state'.session = state.session
    BY <2>1 DEF NodeInv, TypeOK, States
  <2>6. state' \in States
    BY <1>1, <2>1, <2>2, NextCall, FieldsOfState DEF NodeInv, TypeOK
  <2>7. TypeOK'
    BY <2>1, <2>6 DEF NodeInv, TypeOK, Places, States, Rounds
  <2>8. Cursors'
    BY <1>1, <2>1, <2>2, <2>5, NextCall, StateTyped DEF NodeInv, Cursors
  <2>9. Covered'
    BY <1>1, <2>1, <2>5, NextCall, StateTyped DEF NodeInv, Covered, Calls, AtReply
  <2>10. Promised'
    <3> SUFFICES ASSUME NEW j \in DOMAIN log, Calls(j), j <= k
                 PROVE  \/ j \in Given \cup limited \cup dropped
                        \/ j \in Context(k)'
      BY <2>1, <2>5 DEF Promised, Calls, Given
    <3>1. CASE j <= state.wake
      BY <1>1, <3>1 DEF NodeInv, Promised
    <3>2. CASE ~(j <= state.wake)
      BY <1>1, <2>1, <2>5, <3>2, NextCall, StateTyped DEF NodeInv, Pending, Context
    <3> QED BY <3>1, <3>2
  <2>11. Started' /\ Named' /\ WokenOnce' /\ SessionResumed' /\ LimitsHold'
    <3>1. \A i \in DOMAIN wakes : wakes[i].seq < k
      BY <1>1, NextCall, RoundsTyped, StateTyped DEF NodeInv, Started
    <3>2. \A i \in DOMAIN wakes : wakes[i].seq \in Nat /\ k \in Nat
      BY <1>1, NextCall, RoundsTyped, StateTyped DEF NodeInv
    <3>3. Started'
      BY <2>1, <2>5, <3>1, <3>2 DEF Started
    <3>4. Named' /\ SessionResumed'
      BY <2>1, <2>5 DEF NodeInv, Named, SessionResumed
    <3>5. WokenOnce' /\ LimitsHold'
      BY <2>1 DEF NodeInv, WokenOnce, LimitsHold
    <3> QED BY <3>3, <3>4, <3>5
  <2>12. InWindow' = InWindow
    BY <2>1 DEF InWindow
  <2>13. Counted'
    BY <2>1, <2>3, <2>4, <2>5, <2>12, FewInWindow DEF Counted, Timed
  <2>14. Allowed'
    <3> SUFFICES ASSUME log[k].by = "peer"
                 PROVE  /\ Cardinality(InWindow) < Cap
                        /\ \A j \in InWindow : now >= wakes[j].at + Cooldown
      BY <2>1, <2>5, <2>12 DEF Allowed
    <3>1. /\ ~(Cardinality(Recent(state.times)) >= Cap)
          /\ ~\E t \in Recent(state.times) : now < t.at + Cooldown
      BY <1>1 DEF IsLimited
    <3>2. Cardinality(InWindow) < Cap
      BY <3>1, FewInWindow, NodeAssumption
    <3>3. \A j \in InWindow : ~(now < wakes[j].at + Cooldown)
      BY <3>1, FewInWindow
    <3>4. \A j \in InWindow : wakes[j].at \in Nat
      BY RoundsTyped DEF InWindow, NodeInv
    <3> QED BY <3>2, <3>3, <3>4, StateTyped, NodeAssumption DEF NodeInv
  <2> QED BY <2>7, <2>8, <2>9, <2>10, <2>11, <2>13, <2>14 DEF NodeInv
<1> QED BY <1>2, <1>3 DEF SaveWake

LEMMA StartRoundKeeps ==
    ASSUME NodeInv, StartRound
    PROVE  NodeInv'
<1> DEFINE r == [seq |-> state.wake, at |-> now, context |-> Context(state.wake),
                 resumed |-> state.session, named |-> FALSE]
           n == Len(wakes)
<1>1. /\ pc = "wake" /\ pc' = "round" /\ wakes' = Append(wakes, r)
      /\ UNCHANGED <<log, boundary, now, faults, conn, wire, disk, state, groups, reply, heard,
                     limited, dropped>>
  BY DEF StartRound, hub, files
<1>2. /\ r.seq = state.wake /\ r.at = now /\ r.context = Context(state.wake)
      /\ r.resumed = state.session /\ ~r.named
  OBVIOUS
<1>3. r \in Rounds
  <2>1. state.wake \in DOMAIN log /\ Context(state.wake) \subseteq DOMAIN log
    BY <1>1, StateTyped DEF NodeInv, Cursors, Context
  <2> QED BY <2>1, StateTyped DEF Rounds, NodeInv, TypeOK
<1> HIDE DEF r
<1>4. /\ wakes' \in Seq(Rounds) /\ DOMAIN wakes = 1..n /\ DOMAIN wakes' = 1..(n+1) /\ n \in Nat
      /\ \A i \in 1..n : wakes'[i] = wakes[i]
      /\ wakes'[n+1] = r /\ Len(wakes') = n + 1 /\ wakes' # <<>>
  <2>1. wakes \in Seq(Rounds)
    BY DEF NodeInv, TypeOK
  <2> QED BY <1>1, <1>3, <2>1
<1>5. TypeOK'
  BY <1>1, <1>4 DEF NodeInv, TypeOK, Places, States, Rounds
<1> HIDE DEF n
<1>6. \A i \in DOMAIN wakes' : i \in 1..n \/ i = n+1
  BY <1>4
<1>7. Cursors' /\ Covered'
  BY <1>1 DEF NodeInv, Cursors, Covered, Calls, AtReply
<1>8. Context(state.wake)' = Context(state.wake)
  BY <1>1 DEF Context
<1>9. Started' /\ Named'
  BY <1>1, <1>2, <1>4, <1>6, <1>8, StateTyped DEF NodeInv, Started, Named
<1>10. WokenOnce' /\ SessionResumed'
  BY <1>1, <1>2, <1>4, <1>6 DEF NodeInv, WokenOnce, SessionResumed, Started, Named
<1>11. Promised'
  <2>1. \A k \in Given \cup Context(state.wake) : k \in Given'
    <3>1. \A i \in 1..n : wakes[i].context \subseteq Given'
      BY <1>4 DEF Given
    <3>2. Context(state.wake) \subseteq Given'
      BY <1>2, <1>4 DEF Given
    <3> QED BY <1>4, <3>1, <3>2 DEF Given
  <2> QED BY <1>1, <2>1 DEF NodeInv, Promised, Calls
<1>12. Counted'
  BY <1>1, <1>2, <1>4, <1>6 DEF NodeInv, Counted, InWindow, Timed
<1>13. Allowed'
  BY <1>1 DEF Allowed
<1>14. LimitsHold'
  <2> SUFFICES ASSUME NEW i \in DOMAIN wakes', log[wakes'[i].seq].by = "peer"
               PROVE  /\ Cardinality({j \in 1..i-1 : wakes'[i].at < wakes'[j].at + Window}) < Cap
                      /\ \A j \in 1..i-1 :
                            \/ wakes'[i].at >= wakes'[j].at + Window
                            \/ wakes'[i].at >= wakes'[j].at + Cooldown
    BY <1>1 DEF LimitsHold
  <2>1. CASE i \in 1..n
    <3>1. {j \in 1..i-1 : wakes'[i].at < wakes'[j].at + Window}
          = {j \in 1..i-1 : wakes[i].at < wakes[j].at + Window}
      BY <1>4, <2>1
    <3>2. \A j \in 1..i-1 : wakes'[j] = wakes[j]
      BY <1>4, <2>1
    <3> QED BY <1>4, <2>1, <3>1, <3>2 DEF NodeInv, LimitsHold
  <2>2. CASE i = n + 1
    <3>1. 1..i-1 = DOMAIN wakes
      BY <1>4, <2>2
    <3>2. {j \in 1..i-1 : wakes'[i].at < wakes'[j].at + Window} = InWindow
      BY <1>2, <1>4, <2>2, <3>1 DEF InWindow
    <3>3. Cardinality(InWindow) < Cap /\ \A j \in InWindow : now >= wakes[j].at + Cooldown
      BY <1>1, <1>2, <1>4, <2>2 DEF NodeInv, Allowed
    <3>4. \A j \in 1..i-1 : now >= wakes[j].at + Window \/ j \in InWindow
      <4>1. \A j \in DOMAIN wakes : wakes[j].at \in Nat
        BY RoundsTyped DEF NodeInv
      <4>2. now \in Nat /\ Window \in Nat
        BY StateTyped, NodeAssumption DEF NodeInv
      <4>3. \A j \in DOMAIN wakes : now >= wakes[j].at + Window \/ now < wakes[j].at + Window
        BY <4>1, <4>2
      <4> QED BY <3>1, <4>3 DEF InWindow
    <3> QED BY <1>2, <1>4, <2>2, <3>1, <3>2, <3>3, <3>4
  <2> QED BY <1>6, <2>1, <2>2
<1> QED BY <1>5, <1>7, <1>9, <1>10, <1>11, <1>12, <1>13, <1>14 DEF NodeInv

LEMMA RoundNeverStartsKeeps ==
    ASSUME NodeInv, RoundNeverStarts
    PROVE  NodeInv'
<1>1. /\ pc = "wake" /\ pc' = "say"
      /\ dropped' = dropped \cup {j \in reply.frames : j <= state.wake}
      /\ UNCHANGED <<log, boundary, now, faults, conn, wire, disk, state, groups, reply, wakes,
                     heard, limited>>
  BY DEF RoundNeverStarts, hub, files
<1>2. TypeOK'
  <2>1. dropped' \subseteq DOMAIN log
    BY <1>1, StateTyped DEF NodeInv, TypeOK
  <2> QED BY <1>1, <2>1 DEF NodeInv, TypeOK, Places, States, Rounds
<1>3. Cursors' /\ Covered'
  BY <1>1 DEF NodeInv, Cursors, Covered, Calls, AtReply
<1>4. Promised'
  BY <1>1 DEF NodeInv, Promised, Calls, Given, Context
<1> QED BY <1>1, <1>2, <1>3, <1>4, SameRounds, StateTyped DEF NodeInv, Counted

\* The agent's name for its session changes nothing else of a round.
LEMMA NameSessionKeeps ==
    ASSUME NodeInv, NameSession
    PROVE  NodeInv'
<1> DEFINE n == Len(wakes)
<1>1. /\ pc = "round" /\ pc' = "named"
      /\ state' = [state EXCEPT !.session = TRUE] /\ disk' = state'
      /\ wakes' = [wakes EXCEPT ![n].named = TRUE]
      /\ UNCHANGED <<log, boundary, now, faults, conn, wire, groups, reply, heard, limited, dropped>>
  BY DEF NameSession, Saved, hub
<1>2. wakes \in Seq(Rounds) /\ n \in Nat /\ n \in DOMAIN wakes /\ DOMAIN wakes = 1..n /\ wakes # <<>>
  <2>1. wakes \in Seq(Rounds) /\ wakes # <<>>
    BY <1>1 DEF NodeInv, TypeOK, Started
  <2> QED BY <2>1
<1>3. /\ state'.wake = state.wake /\ state'.ctx = state.ctx /\ state'.times = state.times
      /\ state'.session /\ state' \in States
  <2>1. state \in States
    BY DEF NodeInv, TypeOK
  <2> QED BY <1>1, <2>1 DEF States
<1>4. /\ wakes' \in Seq(Rounds) /\ DOMAIN wakes' = DOMAIN wakes /\ Len(wakes') = n
      /\ \A i \in DOMAIN wakes : /\ wakes'[i].seq = wakes[i].seq /\ wakes'[i].at = wakes[i].at
                                 /\ wakes'[i].context = wakes[i].context
                                 /\ wakes'[i].resumed = wakes[i].resumed
                                 /\ i # n => wakes'[i].named = wakes[i].named
  <2> DEFINE r == [wakes[n] EXCEPT !.named = TRUE]
  <2>1. wakes' = [wakes EXCEPT ![n] = r]
    BY <1>1
  <2>2. wakes[n] \in Rounds
    BY <1>2
  <2>3. /\ r \in Rounds /\ r.seq = wakes[n].seq /\ r.at = wakes[n].at
        /\ r.context = wakes[n].context /\ r.resumed = wakes[n].resumed
    BY <2>2 DEF Rounds
  <2> HIDE DEF r
  <2>4. \A i \in DOMAIN wakes : wakes'[i] = IF i = n THEN r ELSE wakes[i]
    BY <1>2, <2>1
  <2>5. wakes' \in Seq(Rounds) /\ DOMAIN wakes' = DOMAIN wakes /\ Len(wakes') = n
    BY <1>2, <2>1, <2>3
  <2> QED BY <2>3, <2>4, <2>5
<1> HIDE DEF n
<1>5. TypeOK'
  BY <1>1, <1>3, <1>4 DEF NodeInv, TypeOK, Places, States, Rounds
<1>6. Cursors' /\ Covered'
  BY <1>1, <1>3 DEF NodeInv, Cursors, Covered, Calls, AtReply
<1>7. Context(state.wake)' = Context(state.wake) /\ Given' = Given /\ InWindow' = InWindow
  <2>1. Context(state.wake)' = Context(state.wake)
    BY <1>1, <1>3 DEF Context
  <2>2. Given' = Given
    BY <1>4 DEF Given
  <2>3. InWindow' = InWindow
    BY <1>1, <1>4 DEF InWindow
  <2> QED BY <2>1, <2>2, <2>3
<1>8. Started' /\ Named'
  <2>1. wakes' # <<>> /\ Len(wakes') = Len(wakes) /\ Len(wakes) \in DOMAIN wakes
    BY <1>2, <1>4 DEF n
  <2>2. Started'
    BY <1>1, <1>3, <1>4, <1>7, <2>1 DEF NodeInv, Started
  <2> QED BY <1>3, <2>2 DEF Named
<1>9. Promised' /\ Counted' /\ Allowed'
  BY <1>1, <1>3, <1>4, <1>7 DEF NodeInv, Promised, Calls, Counted, Allowed, InWindow
<1>10. WokenOnce' /\ SessionResumed'
  <2>1. \A i, j \in DOMAIN wakes : i < j => i # n
    BY <1>2
  <2> QED BY <1>4, <2>1 DEF NodeInv, WokenOnce, SessionResumed
<1>11. LimitsHold'
  <2> SUFFICES ASSUME NEW i \in DOMAIN wakes, log[wakes[i].seq].by = "peer"
               PROVE  /\ Cardinality({j \in 1..i-1 : wakes'[i].at < wakes'[j].at + Window}) < Cap
                      /\ \A j \in 1..i-1 :
                            \/ wakes'[i].at >= wakes'[j].at + Window
                            \/ wakes'[i].at >= wakes'[j].at + Cooldown
    BY <1>1, <1>4 DEF LimitsHold
  <2>1. \A j \in 1..i-1 : wakes'[j].at = wakes[j].at
    BY <1>2, <1>4
  <2>2. {j \in 1..i-1 : wakes'[i].at < wakes'[j].at + Window}
        = {j \in 1..i-1 : wakes[i].at < wakes[j].at + Window}
    BY <1>4, <2>1
  <2> QED BY <1>4, <2>1, <2>2 DEF NodeInv, LimitsHold
<1> QED BY <1>5, <1>6, <1>8, <1>9, <1>10, <1>11 DEF NodeInv

\* What a round has been given, and what the context cursor then passes.
LEMMA RoundContext ==
    ASSUME NodeInv, pc \in {"round", "named"}
    PROVE  /\ wakes[Len(wakes)].context = Context(state.wake)
           /\ Context(state.wake) \subseteq DOMAIN log
           /\ state.wake \in DOMAIN log /\ state.wake \in 0..Len(log) /\ state.wake <= reply.end
           /\ state.ctx < state.wake
BY StateTyped DEF NodeInv, Started, Cursors, Covered, Context

\* The last save of a wake: the context cursor comes up to the wake cursor.
LEMMA RoundEndsKeeps ==
    ASSUME NodeInv, pc \in {"round", "named"}, pc' = "backlog", HearContext,
           state' = [state EXCEPT !.ctx = state.wake]
               \/ state' = [state EXCEPT !.session = TRUE, !.ctx = state.wake],
           disk' = state', faults' \in 0..MaxFaults,
           UNCHANGED <<log, boundary, now, conn, wire, groups, reply, wakes, limited, dropped>>
    PROVE  NodeInv'
<1>1. state \in States
  BY DEF NodeInv, TypeOK
<1>2. /\ state'.wake = state.wake /\ state'.ctx = state.wake /\ state'.times = state.times
      /\ state.session => state'.session
  BY <1>1 DEF States
<1>3. state' \in States
  BY <1>1, RoundContext, FieldsOfState, {} \in SUBSET [seq : DOMAIN log, at : 0..MaxTime] DEF NodeInv
<1>4. heard' \subseteq DOMAIN log
  BY RoundContext DEF HearContext, NodeInv, TypeOK
<1>5. TypeOK'
  BY <1>3, <1>4 DEF NodeInv, TypeOK, Places, States, Rounds
<1>6. Cursors'
  BY <1>2 DEF NodeInv, Cursors
<1>7. Covered'
  BY <1>2, RoundContext, StateTyped DEF NodeInv, Covered, Calls, AtReply
<1>8. Promised'
  BY <1>2 DEF NodeInv, Promised, Calls, Given
<1> QED BY <1>2, <1>5, <1>6, <1>7, <1>8, SameRounds, StateTyped DEF NodeInv, Counted

LEMMA EndRoundKeeps ==
    ASSUME NodeInv, EndRound
    PROVE  NodeInv'
<1>1. CASE SaveFails
  <2>1. heard' \subseteq DOMAIN log
    BY RoundContext DEF EndRound, HearContext, NodeInv, TypeOK
  <2> QED BY <1>1, <2>1, SaveFailsKeeps DEF EndRound
<1>2. CASE Saved([state EXCEPT !.ctx = state.wake], "backlog")
  BY <1>2, RoundEndsKeeps DEF EndRound, Saved, hub, NodeInv, TypeOK
<1> QED BY <1>1, <1>2 DEF EndRound

LEMMA NameSessionFailsKeeps ==
    ASSUME NodeInv, NameSessionFails
    PROVE  NodeInv'
<1>1. faults' \in 0..MaxFaults
  BY NodeAssumption DEF NameSessionFails, NodeInv, TypeOK
<1> QED BY <1>1, RoundEndsKeeps DEF NameSessionFails, hub

LEMMA RoundRaisesKeeps ==
    ASSUME NodeInv, RoundRaises
    PROVE  NodeInv'
<1>1. Extends
  BY DEF RoundRaises, Extends, hub
<1>2. TypeOK'
  BY DEF NodeInv, TypeOK, RoundRaises, hub, files, history, States, Rounds, Places
<1> QED BY <1>1, <1>2, QuietKeeps DEF RoundRaises, history

\* Nothing that calls is left in the reply, so its end may be passed.
LEMMA EndBacklogKeeps ==
    ASSUME NodeInv, EndBacklog
    PROVE  NodeInv'
<1>1. pc = "backlog" /\ Pending = {} /\ UNCHANGED <<hub, now, history>>
  BY DEF EndBacklog
<1>2. CASE SaveFails
  <2>1. heard' \subseteq DOMAIN log
    BY <1>1 DEF history, NodeInv, TypeOK
  <2> QED BY <1>1, <1>2, <2>1, SaveFailsKeeps DEF history
<1>3. CASE /\ pc' = "live" /\ reply' = NoReply
           /\ IF reply.resync THEN state' = [state EXCEPT !.ctx = Passed] /\ disk' = state'
                              ELSE UNCHANGED files
           /\ UNCHANGED <<faults, conn, wire, groups>>
  <2>1. state \in States /\ state = disk
    BY DEF NodeInv, TypeOK, Cursors
  <2>2. Passed \in 0..Len(log) /\ (Passed <= reply.end \/ Passed = state.ctx)
    BY StateTyped DEF NodeInv, Passed
  <2>3. /\ state'.wake = state.wake /\ state'.times = state.times /\ state'.session = state.session
        /\ state'.ctx \in 0..Len(log) /\ (state'.ctx <= reply.end \/ state'.ctx = state.ctx)
        /\ state' \in States /\ disk' = state'
    BY <1>3, <2>1, <2>2, StateTyped DEF NodeInv, States, files
  <2>4. TypeOK'
    <3>1. NoReply \in [resync : BOOLEAN, frames : SUBSET DOMAIN log, end : 0..Len(log)]
      BY StateTyped DEF NodeInv, NoReply
    <3> QED BY <1>1, <1>3, <2>3, <3>1 DEF NodeInv, TypeOK, Places, States, Rounds, hub, history
  <2>5. Cursors'
    BY <1>3, <2>3 DEF NodeInv, Cursors, NoReply
  <2>6. Covered'
    <3>1. \A k \in 1..reply.end : Calls(k) => k <= state.wake
      BY <1>1, StateTyped DEF NodeInv, Covered, AtReply, Pending, ShouldWake, Calls
    <3>2. \A k \in DOMAIN log : Calls(k) /\ k <= state'.ctx => k <= state.wake
      BY <2>3, <3>1, StateTyped DEF NodeInv, Covered
    <3> QED BY <1>1, <1>3, <2>3, <3>2 DEF Covered, AtReply, NoReply, Calls, hub
  <2>7. Promised'
    BY <1>1, <1>3, <2>3 DEF NodeInv, Promised, Calls, Given, hub, history
  <2> QED BY <1>1, <1>3, <2>3, <2>4, <2>5, <2>6, <2>7, SameRounds, StateTyped
          DEF NodeInv, Counted, hub, history
<1> QED BY <1>2, <1>3 DEF EndBacklog

-----------------------------------------------------------------------------
(* The theorems. *)

LEMMA Initially == Init => NodeInv
<1> SUFFICES ASSUME Init PROVE NodeInv
  OBVIOUS
<1>1. TypeOK
  <2>1. /\ log = <<>> /\ Len(log) = 0 /\ DOMAIN log = {} /\ log \in Seq(Frames)
        /\ wire = <<>> /\ wire \in Seq(DOMAIN log) /\ wakes = <<>> /\ wakes \in Seq(Rounds)
    BY DEF Init
  <2>2. now \in 0..MaxTime /\ faults \in 0..MaxFaults /\ boundary \in 0..0
    BY NodeAssumption DEF Init
  <2>3. disk \in States /\ state \in States
    BY <2>1 DEF Init, States, NewState
  <2>4. reply \in [resync : BOOLEAN, frames : SUBSET DOMAIN log, end : 0..Len(log)]
    BY <2>1 DEF Init, NoReply
  <2> QED BY <2>1, <2>2, <2>3, <2>4 DEF Init, TypeOK, Places
<1>2. Cursors
  BY FS_EmptySet DEF Init, Cursors, NewState, NoReply
<1>3. Started /\ Named /\ Covered /\ Promised /\ Counted /\ Allowed
  BY DEF Init, Started, Named, Covered, Promised, Counted, Allowed, AtReply, NoReply, InWindow
<1>4. WokenOnce /\ LimitsHold /\ SessionResumed
  BY DEF Init, WokenOnce, LimitsHold, SessionResumed
<1> QED BY <1>1, <1>2, <1>3, <1>4 DEF NodeInv

LEMMA Step == NodeInv /\ [Next]_vars => NodeInv'
<1> SUFFICES ASSUME NodeInv, [Next]_vars PROVE NodeInv'
  OBVIOUS
<1>1. ASSUME NEW f \in Said, Speak(f) \/ Kick(f) PROVE NodeInv'
  BY <1>1, SpeakKeeps, KickKeeps
<1>2. CASE Tick
  BY <1>2, TickKeeps
<1>3. CASE Launch
  BY <1>3, LaunchKeeps
<1>4. CASE Works
  <2>1. ASSUME NEW k \in reply.frames, RefuseWake(k) \/ SaveWake(k) PROVE NodeInv'
    BY <2>1, RefuseWakeKeeps, SaveWakeKeeps
  <2>2. CASE Connect \/ StartRound \/ RoundNeverStarts
    BY <2>2, ConnectKeeps, StartRoundKeeps, RoundNeverStartsKeeps
  <2>3. CASE NameSession \/ NameSessionFails \/ EndRound \/ RoundRaises
    BY <2>3, NameSessionKeeps, NameSessionFailsKeeps, EndRoundKeeps, RoundRaisesKeeps
  <2>4. CASE Say \/ EndBacklog \/ ReadLive \/ LiveEnds
    BY <2>4, SayKeeps, EndBacklogKeeps, ReadLiveKeeps, LiveEndsKeeps
  <2> QED BY <1>4, <2>1, <2>2, <2>3, <2>4 DEF Works
<1>5. CASE Disconnect \/ Crash
  BY <1>5, DisconnectKeeps, CrashKeeps
<1>6. CASE UNCHANGED vars
  BY <1>6, StutterKeeps
<1> QED BY <1>1, <1>2, <1>3, <1>4, <1>5, <1>6 DEF Next

\* The inductive invariant of the node, its types among it.
THEOREM Invariant == Spec => []NodeInv
BY Initially, Step, PTL DEF Spec

\* No mention wakes the agent twice, for any faults (_handle_wake, first save).
THEOREM NeverWokenTwice == Spec => []WokenOnce
<1>1. NodeInv => WokenOnce
  BY DEF NodeInv
<1> QED BY <1>1, Invariant, PTL

\* No mention is used up in silence: it is in the prompt of a round, or was answered
\* with a limit, or belongs to a round that could not start (_handle_wake).
THEOREM NoneUsedUpInSilence == Spec => []Accounted
<1>1. NodeInv => Accounted
  BY DEF NodeInv, Cursors, Promised, Accounted, Calls
<1> QED BY <1>1, Invariant, PTL

\* The cap and the cooldown hold over crashes and failed saves, whatever they are
\* (RateLimiter.check and the wake_times of state.json).
THEOREM LimitsAlwaysHold == Spec => []LimitsHold
<1>1. NodeInv => LimitsHold
  BY DEF NodeInv
<1> QED BY <1>1, Invariant, PTL

\* A named session is resumed by every later round (_persist_sid).
THEOREM AlwaysResumed == Spec => []SessionResumed
<1>1. NodeInv => SessionResumed
  BY DEF NodeInv
<1> QED BY <1>1, Invariant, PTL

\* The steps that move the context cursor: the end of a round, to what the round was
\* given; and the end of a resync.
LEMMA ContextMoves ==
    ASSUME NodeInv, [Next]_vars, NEW k \in Conversation, disk.ctx < k, k <= disk'.ctx
    PROVE  k \in heard' \/ reply.resync
<1>1. /\ state = disk /\ state.ctx \in Nat /\ state.wake \in Nat /\ k \in Nat /\ k \in DOMAIN log
      /\ state \in States
  BY StateTyped DEF NodeInv, TypeOK, Cursors, Conversation
<1>2. disk'.ctx # disk.ctx
  BY <1>1
<1>3. ASSUME HearContext, pc \in {"round", "named"}, disk'.ctx = state.wake
      PROVE  k \in heard' \/ reply.resync
  <2>1. ~reply.resync => k \in reply.frames
    BY <1>1, <1>3, RoundContext, StateTyped DEF NodeInv, Covered, AtReply
  <2>2. k \in reply.frames => k \in Context(state.wake)
    BY <1>1, <1>3 DEF Context
  <2> QED BY <1>3, <2>1, <2>2, RoundContext DEF HearContext
<1>4. CASE EndRound
  <2>1. disk'.ctx = state.wake /\ pc \in {"round", "named"} /\ HearContext
    BY <1>1, <1>2, <1>4 DEF EndRound, Saved, SaveFails, States
  <2> QED BY <1>3, <2>1
<1>5. CASE NameSessionFails
  <2>1. disk'.ctx = state.wake /\ pc \in {"round", "named"} /\ HearContext
    BY <1>1, <1>5 DEF NameSessionFails, States
  <2> QED BY <1>3, <2>1
<1>6. CASE EndBacklog
  BY <1>1, <1>2, <1>6 DEF EndBacklog, SaveFails, files
<1>7. CASE \/ \E f \in Said : Speak(f) \/ Kick(f)
           \/ Tick \/ Launch \/ Connect \/ StartRound \/ RoundNeverStarts \/ RoundRaises
           \/ Say \/ ReadLive \/ LiveEnds \/ Disconnect \/ Crash \/ UNCHANGED vars
  BY <1>2, <1>7 DEF Speak, Kick, Tick, Launch, Connect, StartRound, RoundNeverStarts, RoundRaises,
     Say, ReadLive, LiveEnds, Disconnect, Crash, vars, files
<1>8. ASSUME NEW j \in reply.frames, RefuseWake(j) \/ SaveWake(j)
      PROVE  FALSE
  BY <1>1, <1>2, <1>8 DEF RefuseWake, SaveWake, Saved, SaveFails, States
<1>9. CASE NameSession
  BY <1>1, <1>2, <1>9 DEF NameSession, Saved, States
<1> QED BY <1>4, <1>5, <1>6, <1>7, <1>8, <1>9 DEF Next, Works

\* The thread of the conversation is not cut, for any faults and refusals: the context
\* cursor passes only what a round was given, or the end of a resync (_handle_wake,
\* third save).
THEOREM ThreadIsKept == Spec => ContextKept
<1>1. NodeInv /\ [Next]_vars =>
        [\A k \in Conversation :
            disk.ctx < k /\ k <= disk'.ctx => k \in heard' \/ reply.resync]_vars
  BY ContextMoves
<1> QED BY <1>1, Invariant, PTL DEF Spec, ContextKept
=============================================================================
