------------------------------ MODULE HubState ------------------------------
(***************************************************************************)
(* chat/server.py: how the hub's durable state (the registry and the       *)
(* status board) follows its event log.                                    *)
(*                                                                         *)
(* Each mutating handler appends its event, applies it to the live state   *)
(* and then lets the snapshot policy act.  Between those three there is no *)
(* await, so no other handler runs there, but the process can die there.   *)
(* A start restores the snapshot and replays the events above its label.   *)
(*                                                                         *)
(* The log itself (bytes, torn lines, compaction) is EventLog's subject:   *)
(* here it is the snapshot and the events above it, and an append is whole *)
(* or nothing.  Who is connected, and what is sent to whom, is the subject *)
(* of HubSessions: what a connection would add to a guard is left open.    *)
(***************************************************************************)
EXTENDS Registry, Sequences

CONSTANTS Texts,          \* what a status can say
          OpenMode,       \* _open_mode: entry without a token is allowed
          Tailnet,        \* _bind_is_tailnet: addresses tell machines apart
          SnapshotEvery,  \* SNAPSHOT_EVERY
          MaxSeq          \* bound: events ever appended

ASSUME HubAssumption ==
    /\ OpenMode \in BOOLEAN /\ Tailnet \in BOOLEAN
    /\ SnapshotEvery \in Nat \ {0}
    /\ MaxSeq \in Nat
    /\ None \notin Texts

VARIABLES
    snap,        \* snapshot.json: its label and its state
    tail,        \* the events of the log above the label
    up,          \* the process runs
    registry,    \* self.registry
    status,      \* self.status, None where it has no entry
    status_seq,  \* self.status_seq, 0 where it has no entry
    since,       \* self._events_since_snapshot
    handling     \* where the running handler is, and the event it appended

disk == <<snap, tail>>
live == <<registry, status, status_seq>>
vars == <<disk, up, live, since, handling>>

NoStatus == [n \in Nicks |-> None]
NoDates == [n \in Nicks |-> 0]
Idle == [step |-> "idle"]
PeerAddrs == IF Tailnet THEN Addrs ELSE {None}

LastSeq == snap.seq + Len(tail)

\* _stan_trwaly: what snapshots and resyncs carry.
DurableState(r, s, q) == [registry |-> Dump(r), status |-> s, status_seq |-> q]

ForgetLive ==
    /\ registry' = FromTokens /\ status' = NoStatus /\ status_seq' = NoDates
    /\ since' = 0
    /\ handling' = Idle

Init ==
    /\ snap = [seq |-> 0, state |-> DurableState(FromTokens, NoStatus, NoDates)]
    /\ tail = <<>>
    /\ up = FALSE
    /\ registry = FromTokens /\ status = NoStatus /\ status_seq = NoDates
    /\ since = 0
    /\ handling = Idle

-----------------------------------------------------------------------------
(* The start: __init__ and _replay_events. *)

\* A date must be that of a declaration the snapshot covers.
Restored ==
    LET s == snap.state
        dated(n) == s.status[n] # None /\ s.status_seq[n] <= snap.seq
    IN  [registry |-> Restore(s.registry),
         status |-> s.status,
         status_seq |-> [n \in Nicks |-> IF dated(n) THEN s.status_seq[n] ELSE 0]]

ReplayEvent(st, e) ==
    CASE e.type = "hello" ->
            [st EXCEPT !.registry = ReplayHello(@, e.nick, e.instance, e.addr)]
      [] e.type = "kick" ->
            [st EXCEPT !.registry = Release(@, e.nick)]
      [] e.type = "membership_set" ->
            IF SetGroupsAllowed(st.registry, e.nick)
            THEN [st EXCEPT !.registry = SetGroups(@, e.nick, e.groups)] ELSE st
      [] e.type = "status" ->
            [st EXCEPT !.status = Put(@, e.nick, e.text), !.status_seq = Put(@, e.nick, e.seq)]
      [] OTHER -> st

Recovered ==
    LET replayed[k \in 0..Len(tail)] ==
            IF k = 0 THEN Restored ELSE ReplayEvent(replayed[k-1], tail[k])
    IN  replayed[Len(tail)]

Start ==
    /\ ~up
    /\ up' = TRUE
    /\ registry' = Recovered.registry
    /\ status' = Recovered.status
    /\ status_seq' = Recovered.status_seq
    /\ since' = Len(tail)
    /\ handling' = Idle
    /\ UNCHANGED disk

-----------------------------------------------------------------------------
(* Snapshots.  What matters here of save_snapshot is its first os.replace: *)
(* from then on a start ignores the events up to the label, whether or not *)
(* the second replace has removed them.                                    *)

WriteSnapshot ==
    /\ snap' = [seq |-> LastSeq, state |-> DurableState(registry, status, status_seq)]
    /\ tail' = <<>>

\* snapshot() returns, or finds another writer, or raises before or after the
\* first replace; only the first resets the counter of the policy.
TakeSnapshot ==
    \/ WriteSnapshot /\ since' = 0
    \/ WriteSnapshot /\ UNCHANGED since
    \/ UNCHANGED <<disk, since>>

\* _maybe_snapshot at the end of a handler.
Settle ==
    /\ up /\ handling.step = "settle"
    /\ IF since >= SnapshotEvery THEN TakeSnapshot ELSE UNCHANGED <<disk, since>>
    /\ handling' = Idle
    /\ UNCHANGED <<up, live>>

\* A hello, after its awaits: the policy, or the snapshot a resync is labelled
\* with when the persisted state is not the live one.
SnapshotForHello ==
    /\ up /\ handling = Idle
    /\ \/ since >= SnapshotEvery
       \/ snap.seq > 0 /\ snap.state # DurableState(registry, status, status_seq)
    /\ TakeSnapshot
    /\ UNCHANGED <<up, live, handling>>

\* stop: a snapshot, then the end of the process.
Stop ==
    /\ up /\ handling = Idle
    /\ WriteSnapshot \/ UNCHANGED disk
    /\ up' = FALSE
    /\ ForgetLive

-----------------------------------------------------------------------------
(* The handlers.  `trial` is the registry the event turns the live one     *)
(* into.                                                                   *)

\* _append_durable
AppendDurable(e) ==
    /\ up /\ handling = Idle
    /\ LastSeq < MaxSeq
    /\ tail' = Append(tail, [e EXCEPT !.seq = LastSeq + 1])
    /\ since' = since + 1
    /\ UNCHANGED <<snap, up, live>>

Handle(e, trial) ==
    /\ AppendDurable(e)
    /\ handling' = [step |-> "apply", event |-> [e EXCEPT !.seq = LastSeq + 1], trial |-> trial]

HelloEvent(n, i, a) == [type |-> "hello", seq |-> 0, nick |-> n, instance |-> i, addr |-> a]

\* A first frame that brings the token of its name.
HelloWithToken(n, i) ==
    /\ n \in Tokens
    /\ Handle(HelloEvent(n, i, None), Hello(registry, n, i))

\* One without, pinned to the peer's address; the event carries the address.
HelloOpenUnrecorded(n, i, a) ==
    /\ OpenMode
    /\ OpenHelloAllowed(registry, n, i, a)
    /\ Handle(HelloEvent(n, i, None), OpenHello(registry, n, i, a))
HelloOpen(n, i, a) ==
    /\ OpenMode
    /\ OpenHelloAllowed(registry, n, i, a)
    /\ Handle(HelloEvent(n, i, a), OpenHello(registry, n, i, a))

Kick(by, n) ==
    /\ IsModerator(registry, by)
    /\ Known(registry, n)
    /\ Handle([type |-> "kick", seq |-> 0, nick |-> n], Release(registry, n))

MembershipSet(by, n, gs) ==
    /\ IsModerator(registry, by)
    /\ SetGroupsAllowed(registry, n)
    /\ Handle([type |-> "membership_set", seq |-> 0, nick |-> n, groups |-> gs],
              SetGroups(registry, n, gs))

\* The name a status is about need not be one the room knows.
Status(by, n, text) ==
    /\ HasEntered(registry, by)
    /\ by = n \/ IsModerator(registry, by)
    /\ Handle([type |-> "status", seq |-> 0, nick |-> n, text |-> text], registry)

\* chat and fyi mutate nothing; a takeover notice leaves the policy to the
\* hello that writes it.
Record(step) ==
    /\ AppendDurable([type |-> "talk", seq |-> 0])
    /\ handling' = [step |-> step]

\* After the append: the swap of the registry, the entry on the board.  A hello
\* goes on to its awaits and leaves the snapshot for later.
ApplyAfterPolicy ==
    LET e == handling.event IN
    /\ up /\ handling.step = "apply"
    /\ registry' = handling.trial
    /\ status' = IF e.type = "status" THEN Put(status, e.nick, e.text) ELSE status
    /\ status_seq' = IF e.type = "status" THEN Put(status_seq, e.nick, e.seq)
                     ELSE status_seq
    /\ handling' = Idle
    /\ IF since >= SnapshotEvery THEN WriteSnapshot /\ since' = 0 ELSE UNCHANGED <<disk, since>>
    /\ UNCHANGED up
Apply ==
    LET e == handling.event IN
    /\ up /\ handling.step = "apply"
    /\ registry' = handling.trial
    /\ status' = IF e.type = "status" THEN Put(status, e.nick, e.text) ELSE status
    /\ status_seq' = IF e.type = "status" THEN Put(status_seq, e.nick, e.seq)
                     ELSE status_seq
    /\ handling' = IF e.type = "hello" THEN Idle ELSE [step |-> "settle"]
    /\ UNCHANGED <<disk, up, since>>

\* The process dies, between two handlers or anywhere inside one.
Crash ==
    /\ up
    /\ up' = FALSE
    /\ ForgetLive
    /\ UNCHANGED disk

Next ==
    \/ Start
    \/ \E n \in Nicks, i \in Instances : HelloWithToken(n, i)
    \/ \E n \in Nicks, i \in Instances, a \in PeerAddrs : HelloOpen(n, i, a)
    \/ \E by, n \in Nicks : Kick(by, n)
    \/ \E by, n \in Nicks, gs \in SUBSET Groups : MembershipSet(by, n, gs)
    \/ \E by, n \in Nicks, text \in Texts : Status(by, n, text)
    \/ \E step \in {"settle", "idle"} : Record(step)
    \/ Apply
    \/ Settle
    \/ SnapshotForHello
    \/ Stop
    \/ Crash

Spec == Init /\ [][Next]_vars

-----------------------------------------------------------------------------
(* Properties. *)

DurableStateType ==
    [registry : [gen : [Nicks -> 0..MaxSeq], instance : [Nicks -> Instances \cup {None}],
                 groups : [Nicks -> SUBSET Groups], addr : [Nicks -> Addrs \cup {None}]],
     status : [Nicks -> Texts \cup {None}],
     status_seq : [Nicks -> 0..MaxSeq]]

\* The type invariant.
TypeOK ==
    /\ snap \in [seq : 0..MaxSeq, state : DurableStateType]
    /\ LastSeq <= MaxSeq
    /\ up \in BOOLEAN
    /\ registry \in RegistryType
    /\ status \in [Nicks -> Texts \cup {None}]
    /\ status_seq \in [Nicks -> 0..MaxSeq]
    /\ since \in 0..MaxSeq
    /\ handling.step \in {"idle", "apply", "settle"}

\* Between two handlers the live registry and board are what a start would
\* make of the disk: nothing the hub acts on dies with the process, and a
\* snapshot taken anywhere is labelled with the events its state includes.
LiveIsRecovered ==
    up /\ handling.step # "apply" =>
        Recovered = [registry |-> registry, status |-> status, status_seq |-> status_seq]

\* Who holds a name, by address: what open mode has instead of a secret.
Held == IF up THEN registry.addr ELSE Recovered.registry.addr

BeingKicked(n) == /\ handling.step = "apply"
                  /\ handling.event.type = "kick"
                  /\ handling.event.nick = n

\* No restart, crash, compaction or second entry moves a name from one address
\* to another or sets it free: only a moderator's kick does, and it frees it.
BindingHeld ==
    [][\A n \in Nicks :
          Held[n] # None /\ Held'[n] # Held[n] => Held'[n] = None /\ BeingKicked(n)]_vars

-----------------------------------------------------------------------------
\* Seen from the disk, each handler is one atomic change of the roster, at its
\* append; snapshots, starts, stops and crashes change nothing.
RosterSpec == INSTANCE Roster WITH
    who <- Recovered.registry,
    board <- Recovered.status,
    board_seq <- Recovered.status_seq,
    seq <- LastSeq

ImplementsRoster == RosterSpec!Spec
=============================================================================
