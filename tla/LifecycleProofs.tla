--------------------------- MODULE LifecycleProofs ---------------------------
(***************************************************************************)
(* What start, serve, stop, restart, delete and /kill keep of a room, for  *)
(* any number of rooms, ports, processes, terminals and commands: the      *)
(* three invariants that Lifecycle.cfg checks on two of each.              *)
(*                                                                         *)
(* The check of serve is followed for every pair of processes: the later   *)
(* of two that pass it has looked at the earlier one, or at the pidfile    *)
(* alone.  The other two invariants rest on one room whose commands come   *)
(* one by one: there is one process at most that is not up yet, it belongs *)
(* to the one start that waits for it or was run by hand, and whoever has  *)
(* put an address into the config can still take it back.                  *)
(***************************************************************************)
EXTENDS Lifecycle, TLAPS, WellFoundedInduction

-----------------------------------------------------------------------------
(* Types. *)

Traces == [tokens : BOOLEAN, port : Ports \cup {0}]
Homes ==
    {h \in [here : BOOLEAN, tokens : BOOLEAN, port : Ports \cup {0}, pid : Pids \cup {None},
            log : Seq(Pids)] : ~h.here => h = Empty}
Hubs ==
    {h \in [at : Serving \cup {"unborn", "dead", "foreign"}, room : Rooms \cup {None},
            port : Ports \cup {0}, spawned : BOOLEAN, term : BOOLEAN, was : Traces,
            misled : BOOLEAN] :
        /\ h.at # "unborn" => h.room \in Rooms
        /\ h.at \in {"write", "record", "open", "bind", "up"} \/ h.spawned => h.port \in Ports}
Commands ==
    {t \in [at : Working \cup {"rest"}, op : Ops \cup {"stop"}, room : Rooms \cup {None},
            arg : Ports \cup {0}, port : Ports \cup {0}, existed : BOOLEAN, was : Traces,
            pid : Pids \cup {None}, from : Nat] :
        /\ t.at # "rest" => t.room \in Rooms
        /\ t.at \in {"ensure", "write", "spawn"} => t.port \in Ports
        /\ t.at \in {"wait", "done", "undo", "down"} => t.pid \in Pids}

Typed ==
    /\ home \in [Rooms -> Homes] /\ hub \in [Pids -> Hubs] /\ cmd \in [Cmds -> Commands]
    /\ cut \subseteq Pids /\ alien \subseteq Alien /\ begun \in 0..MaxCommands
    /\ served \in [Rooms -> SUBSET Ports] /\ calm \in [Rooms -> BOOLEAN]

\* A child whose room was removed writes to an unlinked serve.log.
Logging ==
    \A p \in Pids : hub[p].at \in Serving /\ hub[p].spawned /\ ~home[hub[p].room].here => p \in cut

-----------------------------------------------------------------------------
(* Two hubs on one room's data. *)

\* Two processes that have passed the check of serve.
Checked(p, r) == IsHub(p, r) /\ hub[p].at # "check"
Seen ==
    \A p, q \in Pids : \A r \in Rooms :
        Checked(p, r) /\ Checked(q, r) /\ p # q => hub[p].misled \/ hub[q].misled

-----------------------------------------------------------------------------
(* One room whose commands come one by one. *)

Works(c, r) == cmd[c].at # "rest" /\ cmd[c].room = r
Early(p, r) == IsHub(p, r) /\ hub[p].at \notin {"up", "closing"}

\* One command at most; a process that is not up yet is the one that a start waits
\* for, or was run by hand while nobody was at work.
OneCommand(r) == \A c, d \in Cmds : Works(c, r) /\ Works(d, r) => c = d
OneEarly(r) ==
    \A p \in Pids : Early(p, r) =>
        IF hub[p].spawned THEN \E c \in Cmds : Works(c, r) /\ cmd[c].at = "wait" /\ cmd[c].pid = p
        ELSE \A c \in Cmds : ~Works(c, r)
OneHub(r) ==
    \A p, q \in Pids : Early(p, r) /\ IsHub(q, r) /\ p # q =>
        hub[p].at = "check" /\ ~Early(q, r)

\* A start that is past its look has only its own child beside it.
Alone(r) ==
    \A c \in Cmds : Works(c, r) =>
        /\ cmd[c].at \in {"look", "ensure", "write", "spawn", "undo", "rm"} =>
             \A p \in Pids : ~IsHub(p, r)
        /\ cmd[c].at \in {"wait", "done", "down"} => \A p \in Pids : IsHub(p, r) => p = cmd[c].pid
        /\ cmd[c].at = "done" => \A p \in Pids : ~Early(p, r)

\* Config and pidfile lead to the hub.
AtHome(r) ==
    \A p \in Pids : IsHub(p, r) =>
        /\ hub[p].spawned \/ hub[p].at \in {"record", "open", "bind", "up", "closing"} =>
             home[r].tokens /\ home[r].port = hub[p].port
        /\ hub[p].at \in {"open", "bind", "up", "closing"} => home[r].pid = p
        /\ hub[p].at = "write" => home[r].tokens

\* The address is one at which the room has listened, or somebody who tries another
\* one can take it back to such an address.
Real(r) == home[r].tokens => home[r].port \in served[r]
RealBefore(r, was) == was.tokens => was.port \in served[r]
Trying == {"write", "spawn", "wait", "undo"}
Tries(p, r) == Early(p, r) /\ hub[p].at \notin {"check", "ensure"}
Addressed(r) ==
    /\ \/ \E c \in Cmds : Works(c, r) /\ cmd[c].at \in Trying
       \/ \E p \in Pids : Tries(p, r)
       \/ Real(r)
    /\ \A p \in Pids : Tries(p, r) /\ ~hub[p].spawned => RealBefore(r, hub[p].was)
Undoable(r) ==
    \A c \in Cmds : Works(c, r) =>
        /\ cmd[c].at \in {"ensure"} \cup Trying => RealBefore(r, cmd[c].was)
        /\ cmd[c].at \in {"write", "spawn", "wait"} => home[r].tokens
        /\ cmd[c].at = "spawn" => home[r].port = cmd[c].port
        /\ cmd[c].at = "wait" =>
             /\ cmd[c].from <= Len(home[r].log)
             /\ Listens(c) => home[r].port \in served[r] /\ \A p \in Pids : ~Early(p, r)

Orderly(r) ==
    /\ OneCommand(r) /\ OneEarly(r) /\ OneHub(r) /\ Alone(r)
    /\ AtHome(r) /\ Addressed(r) /\ Undoable(r)
Calm == \A r \in Rooms : calm[r] => Orderly(r)

Basics == Typed /\ Logging /\ Seen
LifecycleInv == Basics /\ Calm

-----------------------------------------------------------------------------
(* Helpers. *)

LessThan == OpToRel(<, Nat)

\* A set of ports has a first.
LEMMA FirstIs ==
    ASSUME NEW S, S \subseteq Ports, S # {}
    PROVE  First(S) \in S
<1>1. S \subseteq Nat
  BY LifecycleAssumption
<1>2. IsWellFoundedOn(LessThan, Nat)
  BY NatLessThanWellFounded DEF LessThan
<1>3. PICK m \in S : \A y \in S : ~ (<<y, m>> \in LessThan)
  BY <1>1, <1>2, WFMin
<1>4. \A y \in S : ~ (y < m)
  BY <1>1, <1>3 DEF LessThan, OpToRel
<1>5. \A y \in S : m <= y
  BY <1>1, <1>4
<1> QED BY <1>5 DEF First

\* What hub_pid may answer: a hub of the room, the stranger in the pidfile, nobody.
LEMMA HubPidsAre ==
    ASSUME Typed, NEW r \in Rooms, NEW self, NEW q \in HubPids(r, self)
    PROVE  /\ q \in Pids \cup {None}
           /\ Alive(home[r].pid) => q = home[r].pid
           /\ q = None => ~Alive(home[r].pid) /\ \A p \in Pids \ {self} : ~IsHub(p, r)
<1>1. home[r].pid \in Pids \cup {None}
  BY DEF Typed, Homes
<1> QED BY <1>1, LifecycleAssumption DEF HubPids, Alive

\* A process that serves is alive, and keeps its room and its start.
LEMMA TerminatedIs ==
    ASSUME NEW h \in Hubs, h.at # "unborn"
    PROVE  /\ Terminated(h) \in Hubs
           /\ Terminated(h).room = h.room /\ Terminated(h).port = h.port
           /\ Terminated(h).spawned = h.spawned /\ Terminated(h).misled = h.misled
           /\ Terminated(h).was = h.was
           /\ h.at \in Serving =>
                \/ Terminated(h).at = h.at
                \/ h.at = "up" /\ Terminated(h).at = "closing"
                \/ h.at \notin {"up", "closing"} /\ Terminated(h).at = "dead"
           /\ h.at \in {"up", "closing"} => Terminated(h).at = "closing"
<1>1. CASE h.at = "up"
  BY <1>1 DEF Hubs, Serving, Terminated
<1>2. CASE h.at = "bind"
  BY <1>2 DEF Hubs, Serving, Terminated
<1>3. CASE h.at = "closing"
  BY <1>3 DEF Hubs, Serving, Terminated
<1>4. CASE h.at \notin {"up", "bind", "closing"}
  <2>1. Terminated(h) = [h EXCEPT !.at = "dead"]
    BY <1>4 DEF Terminated
  <2> QED BY <1>4, <2>1 DEF Hubs, Serving
<1> QED BY <1>1, <1>2, <1>3, <1>4

-----------------------------------------------------------------------------
(* What does not concern a room leaves it in order. *)

LEMMA Untouched ==
    ASSUME NEW o \in Rooms, Orderly(o), home'[o] = home[o], served'[o] = served[o],
           \A c \in Cmds : cmd'[c] = cmd[c] \/ (~Works(c, o) /\ ~Works(c, o)'),
           \A p \in Pids : hub'[p] = hub[p] \/ (~IsHub(p, o) /\ ~IsHub(p, o)')
    PROVE  Orderly(o)'
<1>1. Orderly(o) /\ home'[o] = home[o] /\ served'[o] = served[o]
  OBVIOUS
<1>2. \A c \in Cmds : (Works(c, o)' <=> Works(c, o)) /\ (Works(c, o) => cmd'[c] = cmd[c])
  BY DEF Works
<1>3. \A p \in Pids : /\ IsHub(p, o)' <=> IsHub(p, o)
                      /\ IsHub(p, o) => hub'[p] = hub[p]
                      /\ Early(p, o)' <=> Early(p, o)
                      /\ Tries(p, o)' <=> Tries(p, o)
  BY DEF IsHub, Early, Tries
<1>4. \A c \in Cmds : Works(c, o) => (Listens(c)' <=> Listens(c))
  BY <1>1, <1>2 DEF Listens, Works
<1>5. OneCommand(o)' /\ Alone(o)'
  BY <1>1, <1>2, <1>3 DEF Orderly, OneCommand, Alone
<1>6. OneEarly(o)'
  <2> SUFFICES ASSUME NEW p \in Pids, Early(p, o)
               PROVE  IF hub'[p].spawned
                      THEN \E c \in Cmds : Works(c, o)' /\ cmd'[c].at = "wait" /\ cmd'[c].pid = p
                      ELSE \A c \in Cmds : ~Works(c, o)'
    BY <1>3 DEF OneEarly
  <2>1. hub'[p] = hub[p]
    BY <1>3 DEF Early
  <2>2. CASE hub[p].spawned
    <3>1. PICK c \in Cmds : Works(c, o) /\ cmd[c].at = "wait" /\ cmd[c].pid = p
      BY <1>1, <2>2 DEF Orderly, OneEarly
    <3>2. Works(c, o)' /\ cmd'[c] = cmd[c]
      BY <1>2, <3>1
    <3> QED BY <2>1, <2>2, <3>1, <3>2
  <2>3. CASE ~hub[p].spawned
    <3>1. \A c \in Cmds : ~Works(c, o)
      BY <1>1, <2>3 DEF Orderly, OneEarly
    <3> QED BY <1>2, <2>1, <2>3, <3>1
  <2> QED BY <2>2, <2>3
<1>7. OneHub(o)'
  BY <1>1, <1>3 DEF Orderly, OneHub, Early
<1>8. AtHome(o)'
  BY <1>1, <1>3 DEF Orderly, AtHome
<1>9. Addressed(o)'
  <2>1. Real(o)' <=> Real(o)
    BY <1>1 DEF Real
  <2>2. \A p \in Pids : Tries(p, o) => hub'[p] = hub[p]
    BY <1>3 DEF Tries, Early
  <2>3. ASSUME NEW p \in Pids, Tries(p, o)', ~hub'[p].spawned
        PROVE  RealBefore(o, hub[p].was)'
    <3>1. Tries(p, o) /\ hub'[p] = hub[p]
      BY <1>3, <2>2, <2>3
    <3>2. RealBefore(o, hub[p].was)
      BY <1>1, <2>3, <3>1 DEF Orderly, Addressed
    <3> QED BY <1>1, <3>1, <3>2 DEF RealBefore
  <2>4. \/ \E c \in Cmds : Works(c, o)' /\ cmd'[c].at \in Trying
        \/ \E p \in Pids : Tries(p, o)'
        \/ Real(o)'
    <3>1. CASE \E c \in Cmds : Works(c, o) /\ cmd[c].at \in Trying
      <4>1. PICK c \in Cmds : Works(c, o) /\ cmd[c].at \in Trying
        BY <3>1
      <4>2. Works(c, o)' /\ cmd'[c] = cmd[c]
        BY <1>2, <4>1
      <4> QED BY <4>1, <4>2
    <3>2. CASE \E p \in Pids : Tries(p, o)
      BY <1>3, <3>2
    <3> QED BY <1>1, <2>1, <3>1, <3>2 DEF Orderly, Addressed
  <2> QED BY <2>3, <2>4 DEF Addressed
<1>10. Undoable(o)'
  <2> SUFFICES ASSUME NEW c \in Cmds, Works(c, o), cmd'[c] = cmd[c]
               PROVE  /\ cmd[c].at \in {"ensure"} \cup Trying => RealBefore(o, cmd[c].was)'
                      /\ cmd[c].at \in {"write", "spawn", "wait"} => home[o].tokens
                      /\ cmd[c].at = "spawn" => home[o].port = cmd[c].port
                      /\ cmd[c].at = "wait" =>
                           /\ cmd[c].from <= Len(home[o].log)
                           /\ Listens(c) => /\ home[o].port \in served[o]
                                            /\ \A p \in Pids : ~Early(p, o)'
    BY <1>1, <1>2, <1>4 DEF Undoable
  <2> QED BY <1>1, <1>3 DEF Orderly, Undoable, RealBefore
<1> QED BY <1>5, <1>6, <1>7, <1>8, <1>9, <1>10 DEF Orderly

LEMMA Apart ==
    ASSUME Calm, NEW r \in Rooms,
           \A o \in Rooms \ {r} :
               home'[o] = home[o] /\ served'[o] = served[o] /\ (calm'[o] => calm[o]),
           \A c \in Cmds : \/ cmd'[c] = cmd[c]
                           \/ /\ cmd[c].at = "rest" \/ cmd[c].room = r
                              /\ cmd'[c].at = "rest" \/ cmd'[c].room = r,
           \A p \in Pids : \/ hub'[p] = hub[p]
                           \/ /\ hub[p].at \notin Serving \/ hub[p].room = r
                              /\ hub'[p].at \notin Serving \/ hub'[p].room = r,
           calm'[r] => Orderly(r)'
    PROVE  Calm'
<1> SUFFICES ASSUME NEW o \in Rooms, o # r, calm'[o] PROVE Orderly(o)'
  BY DEF Calm
<1>1. Orderly(o) /\ home'[o] = home[o] /\ served'[o] = served[o]
  BY DEF Calm
<1>2. \A c \in Cmds : cmd'[c] = cmd[c] \/ (~Works(c, o) /\ ~Works(c, o)')
  BY DEF Works
<1>3. \A p \in Pids : hub'[p] = hub[p] \/ (~IsHub(p, o) /\ ~IsHub(p, o)')
  BY DEF IsHub
<1> QED BY <1>1, <1>2, <1>3, Untouched

\* The check of serve: who passes it was misled or has seen nobody.
LEMMA SeenKept ==
    ASSUME Typed, Seen, NEW p \in Pids, NEW g \in Hubs, hub' = [hub EXCEPT ![p] = g],
           \/ g.at \notin Serving \ {"check"}
           \/ /\ hub[p].at \in Serving \ {"check"}
              /\ g.room = hub[p].room /\ g.misled = hub[p].misled
           \/ g.misled
           \/ \A q \in Pids \ {p} : ~IsHub(q, g.room)
    PROVE  Seen'
<1>1. hub'[p] = g /\ \A q \in Pids \ {p} : hub'[q] = hub[q]
  BY DEF Typed
<1> SUFFICES ASSUME NEW q \in Pids, NEW r \in Rooms, Checked(p, r)', Checked(q, r)', p # q
             PROVE  g.misled \/ hub[q].misled
  <2>1. ASSUME NEW a \in Pids, NEW b \in Pids, NEW r \in Rooms,
               Checked(a, r)', Checked(b, r)', a # b
        PROVE  hub'[a].misled \/ hub'[b].misled
    <3>1. CASE a # p /\ b # p
      BY <1>1, <2>1, <3>1 DEF Seen, Checked, IsHub
    <3>2. CASE a = p
      BY <1>1, <2>1, <3>2
    <3>3. CASE b = p
      BY <1>1, <2>1, <3>3
    <3> QED BY <3>1, <3>2, <3>3
  <2> QED BY <2>1 DEF Seen
<1>2. Checked(q, r) /\ g.at \in Serving \ {"check"} /\ g.room = r
  BY <1>1 DEF Checked, IsHub
<1>3. CASE hub[p].at \in Serving \ {"check"} /\ g.room = hub[p].room /\ g.misled = hub[p].misled
  <2>1. Checked(p, r)
    BY <1>2, <1>3, LifecycleAssumption DEF Checked, IsHub
  <2> QED BY <1>2, <1>3, <2>1 DEF Seen
<1> QED BY <1>2, <1>3 DEF Checked

LEMMA LoggingKept ==
    ASSUME Typed, Logging, NEW p \in Pids, NEW g \in Hubs, hub' = [hub EXCEPT ![p] = g],
           g.at \in Serving => /\ hub[p].at \in Serving /\ g.room = hub[p].room
                               /\ g.spawned = hub[p].spawned,
           \A r \in Rooms : home[r].here => home'[r].here,
           cut' = cut
    PROVE  Logging'
<1>1. hub'[p] = g /\ \A q \in Pids \ {p} : hub'[q] = hub[q]
  BY DEF Typed
<1>2. \A q \in Pids : hub[q].at \in Serving => hub[q].room \in Rooms
  BY DEF Typed, Hubs, Serving
<1> SUFFICES ASSUME NEW q \in Pids, hub'[q].at \in Serving, hub'[q].spawned,
                    ~home'[hub'[q].room].here
             PROVE  q \in cut
  BY DEF Logging
<1>3. hub[q].at \in Serving /\ hub[q].spawned /\ hub'[q].room = hub[q].room
  BY <1>1
<1>4. hub[q].room \in Rooms
  BY <1>2, <1>3
<1> QED BY <1>3, <1>4 DEF Logging

\* A room whose start does not wait has no hub that is not up yet.
LEMMA NoneEarly ==
    ASSUME NEW r \in Rooms, Orderly(r), NEW c \in Cmds, Works(c, r), cmd[c].at # "wait"
    PROVE  \A p \in Pids : ~Early(p, r)
<1> SUFFICES ASSUME NEW p \in Pids, Early(p, r) PROVE FALSE
  OBVIOUS
<1>1. CASE hub[p].spawned
  <2>1. PICK d \in Cmds : Works(d, r) /\ cmd[d].at = "wait"
    BY <1>1 DEF Orderly, OneEarly
  <2>2. d = c
    BY <2>1 DEF Orderly, OneCommand
  <2> QED BY <2>1, <2>2
<1>2. CASE ~hub[p].spawned
  BY <1>2 DEF Orderly, OneEarly
<1> QED BY <1>1, <1>2

-----------------------------------------------------------------------------
(* Most steps of a command: it looks, goes on or ends, touches the pidfile and *)
(* terminates a hub at most.                                                 *)

LEMMA CommandMoves ==
    ASSUME LifecycleInv, NEW c \in Cmds, NEW r \in Rooms,
           cmd[c].at = "rest" \/ cmd[c].room = r,
           NEW t \in Commands, cmd' = [cmd EXCEPT ![c] = t],
           t.at = "rest" \/ t.room = r,
           NEW x \in Pids \cup {None}, home' = [home EXCEPT ![r].pid = x],
           x # None => home[r].here,
           \/ hub' = hub
           \/ /\ cmd[c].at # "wait"
              /\ \E q \in Pids : IsHub(q, r) /\ hub' = [hub EXCEPT ![q] = Terminated(hub[q])],
           UNCHANGED <<cut, alien, served>>, begun' \in 0..MaxCommands,
           calm' \in [Rooms -> BOOLEAN], \A o \in Rooms : calm'[o] => calm[o],
           calm'[r] => Works(c, r) \/ ~Busy(r),
           calm'[r] /\ Orderly(r) =>
               /\ cmd[c].at = "wait" => \A p \in Pids : ~Early(p, r)
               /\ \A p \in Pids : IsHub(p, r) /\ ~Early(p, r) => x = p
               /\ t.at \notin {"write", "spawn", "wait"}
               /\ t.at \in {"look", "ensure", "undo", "rm"} => \A p \in Pids : ~IsHub(p, r)
               /\ t.at \in {"done", "down"} => \A p \in Pids : IsHub(p, r) => p = t.pid
               /\ t.at = "undo" \/ Real(r)
               /\ t.at \in {"ensure", "undo"} => RealBefore(r, t.was)
    PROVE  LifecycleInv'
<1>1. Typed /\ Logging /\ Seen /\ Calm
  BY DEF LifecycleInv, Basics
<1>2. /\ cmd' \in [Cmds -> Commands] /\ cmd'[c] = t
      /\ \A d \in Cmds \ {c} : cmd'[d] = cmd[d]
  BY <1>1 DEF Typed
<1>3. /\ home[r] \in Homes
      /\ home'[r] = [home[r] EXCEPT !.pid = x]
      /\ \A o \in Rooms \ {r} : home'[o] = home[o]
  BY <1>1 DEF Typed
<1>4. /\ home'[r].here = home[r].here /\ home'[r].tokens = home[r].tokens
      /\ home'[r].port = home[r].port /\ home'[r].pid = x /\ home'[r].log = home[r].log
      /\ home'[r] \in Homes
  BY <1>3 DEF Homes, Empty
<1>5. home' \in [Rooms -> Homes]
  BY <1>1, <1>3, <1>4 DEF Typed
<1>6. /\ hub' \in [Pids -> Hubs] /\ Seen' /\ Logging'
      /\ \A p \in Pids :
           /\ hub'[p].at \in Serving =>
                /\ hub'[p].room = hub[p].room /\ hub'[p].port = hub[p].port
                /\ hub'[p].spawned = hub[p].spawned
                /\ \/ hub'[p].at = hub[p].at
                   \/ hub[p].at = "up" /\ hub'[p].at = "closing"
           /\ hub[p].at \notin Serving => hub'[p].at \notin Serving
           /\ \/ hub'[p] = hub[p]
              \/ hub[p].room = r /\ (hub'[p].at \notin Serving \/ hub'[p].room = r)
  <2>1. \A o \in Rooms : home[o].here => home'[o].here
    BY <1>3, <1>4
  <2>2. CASE hub' = hub
    <3>1. Seen'
      BY <1>1, <2>2 DEF Seen, Checked, IsHub
    <3>2. Logging'
      <4>1. \A q \in Pids : hub[q].at \in Serving => hub[q].room \in Rooms
        BY <1>1 DEF Typed, Hubs, Serving
      <4> QED BY <1>1, <2>1, <2>2, <4>1 DEF Logging
    <3> QED BY <1>1, <2>2, <3>1, <3>2 DEF Typed
  <2>3. CASE \E q \in Pids : IsHub(q, r) /\ hub' = [hub EXCEPT ![q] = Terminated(hub[q])]
    <3>1. PICK q \in Pids : IsHub(q, r) /\ hub' = [hub EXCEPT ![q] = Terminated(hub[q])]
      BY <2>3
    <3> DEFINE g == Terminated(hub[q])
    <3>2. hub[q] \in Hubs /\ hub[q].at \in Serving /\ hub[q].room = r
      BY <1>1, <3>1 DEF Typed, IsHub
    <3>3. hub[q].at # "unborn"
      BY <3>2 DEF Serving
    <3>4. /\ g \in Hubs /\ g.room = r /\ g.port = hub[q].port
          /\ g.spawned = hub[q].spawned /\ g.misled = hub[q].misled
          /\ \/ g.at = hub[q].at
             \/ hub[q].at = "up" /\ g.at = "closing"
             \/ g.at = "dead"
      BY <3>2, <3>3, TerminatedIs
    <3>5. hub' = [hub EXCEPT ![q] = g]
      BY <3>1
    <3> HIDE DEF g
    <3>6. hub'[q] = g /\ \A p \in Pids \ {q} : hub'[p] = hub[p]
      BY <1>1, <3>5 DEF Typed
    <3>7. Seen'
      <4>1. g.at \notin Serving \ {"check"} \/ hub[q].at \in Serving \ {"check"}
        BY <3>2, <3>4 DEF Serving
      <4> QED BY <1>1, <3>2, <3>4, <3>5, <4>1, SeenKept
    <3>8. Logging'
      BY <1>1, <2>1, <3>2, <3>4, <3>5, LoggingKept
    <3>9. "dead" \notin Serving
      BY DEF Serving
    <3> QED BY <1>1, <3>2, <3>4, <3>5, <3>6, <3>7, <3>8, <3>9 DEF Typed
  <2> QED BY <2>2, <2>3
<1>7. Typed'
  BY <1>1, <1>2, <1>5, <1>6 DEF Typed
<1>8. ASSUME calm'[r] PROVE Orderly(r)'
  <2>1. Orderly(r)
    BY <1>1, <1>8 DEF Calm
  <2>2. \A p \in Pids : ~Early(p, r)
    <3>1. CASE Works(c, r)
      BY <1>8, <2>1, <3>1, NoneEarly
    <3>2. CASE ~Busy(r)
      BY <3>2 DEF Busy, Early
    <3> QED BY <1>8, <3>1, <3>2
  <2>3. \A d \in Cmds : Works(d, r)' => d = c
    <3> SUFFICES ASSUME NEW d \in Cmds, Works(d, r), d # c PROVE FALSE
      BY <1>2 DEF Works
    <3>1. CASE Works(c, r)
      BY <2>1, <3>1 DEF Orderly, OneCommand
    <3>2. CASE ~Busy(r)
      BY <3>2 DEF Busy, Works
    <3> QED BY <1>8, <3>1, <3>2
  <2>4. \A p \in Pids : /\ IsHub(p, r)' => /\ IsHub(p, r) /\ hub'[p].at \in {"up", "closing"}
                                           /\ hub'[p].port = hub[p].port
                                           /\ hub[p].at \in {"up", "closing"}
                        /\ ~Early(p, r)'
    BY <1>6, <2>2 DEF IsHub, Early
  <2>5. /\ \A p \in Pids : IsHub(p, r) => x = p
        /\ t.at \notin {"write", "spawn", "wait"}
        /\ t.at \in {"look", "ensure", "undo", "rm"} => \A p \in Pids : ~IsHub(p, r)
        /\ t.at \in {"done", "down"} => \A p \in Pids : IsHub(p, r) => p = t.pid
        /\ t.at = "undo" \/ Real(r)
        /\ t.at \in {"ensure", "undo"} => RealBefore(r, t.was)
    BY <1>8, <2>1, <2>2
  <2>6. OneCommand(r)' /\ OneEarly(r)' /\ OneHub(r)'
    BY <2>3, <2>4 DEF OneCommand, OneEarly, OneHub
  <2>7. Alone(r)'
    BY <1>2, <2>3, <2>4, <2>5 DEF Alone
  <2>8. AtHome(r)'
    BY <1>4, <2>1, <2>4, <2>5 DEF Orderly, AtHome
  <2>9. Addressed(r)'
    <3>1. \A p \in Pids : ~Tries(p, r)'
      BY <2>4 DEF Tries
    <3>2. CASE Real(r)
      BY <1>4, <3>1, <3>2 DEF Addressed, Real
    <3>3. CASE t.at = "undo"
      <4>1. t.room = r
        BY <3>3
      <4>2. Works(c, r)' /\ cmd'[c].at \in Trying
        BY <1>2, <3>3, <4>1 DEF Works, Trying
      <4> QED BY <3>1, <4>2 DEF Addressed
    <3> QED BY <2>5, <3>2, <3>3
  <2>10. Undoable(r)'
    <3> SUFFICES ASSUME Works(c, r)'
                 PROVE  /\ t.at \in {"ensure"} \cup Trying => RealBefore(r, t.was)'
                        /\ t.at \notin {"write", "spawn", "wait"}
      BY <1>2, <2>3 DEF Undoable
    <3> QED BY <2>5 DEF RealBefore, Trying
  <2> QED BY <2>6, <2>7, <2>8, <2>9, <2>10 DEF Orderly
<1>9. Calm'
  <2>1. \A d \in Cmds : \/ cmd'[d] = cmd[d]
                        \/ /\ cmd[d].at = "rest" \/ cmd[d].room = r
                           /\ cmd'[d].at = "rest" \/ cmd'[d].room = r
    BY <1>2
  <2> QED BY <1>1, <1>3, <1>6, <1>8, <2>1, Apart
<1> QED BY <1>6, <1>7, <1>9 DEF LifecycleInv, Basics

\* The pidfile of a calm room leads to the hub that is up, swept or not.
LEMMA SweptIs ==
    ASSUME Typed, NEW r \in Rooms
    PROVE  \E x \in Pids \cup {None} :
             /\ Swept(r) = [home EXCEPT ![r].pid = x]
             /\ x # None => home[r].here
             /\ Orderly(r) => \A p \in Pids : IsHub(p, r) /\ ~Early(p, r) => x = p
<1> DEFINE x == IF Alive(home[r].pid) THEN home[r].pid ELSE None
<1>1. home[r] \in Homes
  BY DEF Typed
<1>2. x \in Pids \cup {None} /\ (x # None => home[r].here)
  BY <1>1 DEF Homes, Empty
<1>3. Swept(r) = [home EXCEPT ![r].pid = x]
  BY DEF Swept
<1>4. ASSUME Orderly(r), NEW p \in Pids, IsHub(p, r), ~Early(p, r) PROVE x = p
  <2>1. home[r].pid = p
    BY <1>4 DEF Orderly, AtHome, Early
  <2> QED BY <1>4, <2>1 DEF Alive, IsHub
<1> QED BY <1>2, <1>3, <1>4

LEMMA KeptIs ==
    ASSUME Typed, NEW r \in Rooms
    PROVE  \E x \in Pids \cup {None} :
             /\ home = [home EXCEPT ![r].pid = x]
             /\ x # None => home[r].here
             /\ Orderly(r) => \A p \in Pids : IsHub(p, r) /\ ~Early(p, r) => x = p
<1> DEFINE x == home[r].pid
<1>1. home[r] \in Homes /\ home \in [Rooms -> Homes]
  BY DEF Typed
<1>2. x \in Pids \cup {None} /\ (x # None => home[r].here)
  BY <1>1 DEF Homes, Empty
<1>3. home = [home EXCEPT ![r].pid = x]
  <2>1. home[r] = [home[r] EXCEPT !.pid = x]
    BY <1>1 DEF Homes
  <2> QED BY <1>1, <2>1
<1>4. ASSUME Orderly(r), NEW p \in Pids, IsHub(p, r), ~Early(p, r) PROVE x = p
  BY <1>4 DEF Orderly, AtHome, Early
<1> QED BY <1>2, <1>3, <1>4

LEMMA RealNow ==
    ASSUME NEW r \in Rooms, Orderly(r), NEW c \in Cmds, Works(c, r), cmd[c].at \notin Trying
    PROVE  Real(r)
<1>1. \A p \in Pids : ~Tries(p, r)
  BY NoneEarly DEF Tries, Trying
<1>2. \A d \in Cmds : Works(d, r) => d = c
  BY DEF Orderly, OneCommand
<1> QED BY <1>1, <1>2 DEF Orderly, Addressed

\* Whom hub_pid does not find in a calm room is not there.
LEMMA NotFound ==
    ASSUME Typed, NEW r \in Rooms, Orderly(r), NEW c \in Cmds, Works(c, r), cmd[c].at # "wait",
           NEW q \in HubPids(r, None), ~IsHub(q, r)
    PROVE  \A p \in Pids : ~IsHub(p, r)
<1> SUFFICES ASSUME NEW p \in Pids, IsHub(p, r) PROVE FALSE
  OBVIOUS
<1>1. ~Early(p, r)
  BY NoneEarly
<1>2. home[r].pid = p
  BY <1>1 DEF Orderly, AtHome, Early
<1>3. Alive(home[r].pid)
  BY <1>2 DEF Alive, IsHub
<1> QED BY <1>2, <1>3, HubPidsAre

\* Whom it finds is the only one.
LEMMA Found ==
    ASSUME Typed, NEW r \in Rooms, Orderly(r), NEW c \in Cmds, Works(c, r), cmd[c].at # "wait",
           NEW q \in HubPids(r, None)
    PROVE  \A p \in Pids : IsHub(p, r) => p = q
<1> SUFFICES ASSUME NEW p \in Pids, IsHub(p, r) PROVE p = q
  OBVIOUS
<1>1. ~Early(p, r)
  BY NoneEarly
<1>2. home[r].pid = p
  BY <1>1 DEF Orderly, AtHome, Early
<1>3. Alive(home[r].pid)
  BY <1>2 DEF Alive, IsHub
<1> QED BY <1>2, <1>3, HubPidsAre

\* The record of a command that works, and of the one at rest.
LEMMA CommandTyped ==
    ASSUME Typed, NEW c \in Cmds
    PROVE  /\ cmd[c] \in Commands /\ Resting \in Commands /\ Resting.at = "rest"
           /\ cmd[c].at # "rest" => cmd[c].room \in Rooms /\ Works(c, cmd[c].room)
BY DEF Typed, Commands, Working, Resting, NoTrace, Traces, Works

LEMMA BeginKeeps ==
    ASSUME LifecycleInv, NEW c \in Cmds, Begin(c) PROVE LifecycleInv'
<1>1. Typed /\ Calm
  BY DEF LifecycleInv, Basics
<1>2. PICK op \in Ops, r \in Rooms :
         /\ \E arg \in IF op \in {"start", "restart"} THEN Args ELSE {0} :
              cmd' = [cmd EXCEPT ![c] = [Resting EXCEPT !.at = op, !.op = op, !.room = r, !.arg = arg]]
         /\ calm' = [calm EXCEPT ![r] = @ /\ ~Busy(r)]
  BY DEF Begin
<1>3. PICK arg \in IF op \in {"start", "restart"} THEN Args ELSE {0} :
         cmd' = [cmd EXCEPT ![c] = [Resting EXCEPT !.at = op, !.op = op, !.room = r, !.arg = arg]]
  BY <1>2
<1> DEFINE t == [Resting EXCEPT !.at = op, !.op = op, !.room = r, !.arg = arg]
<1>4. op \in {"start", "stop", "restart", "delete", "kill"} /\ arg \in Ports \cup {0}
  BY LifecycleAssumption
<1>5. t \in Commands /\ t.at = op /\ t.room = r /\ cmd' = [cmd EXCEPT ![c] = t]
  BY <1>3, <1>4 DEF Resting, Commands, Working, NoTrace, Traces
<1> HIDE DEF t
<1>6. PICK x \in Pids \cup {None} :
        /\ home = [home EXCEPT ![r].pid = x] /\ (x # None => home[r].here)
        /\ Orderly(r) => \A p \in Pids : IsHub(p, r) /\ ~Early(p, r) => x = p
  BY <1>1, KeptIs
<1>7. begun' \in 0..MaxCommands
  BY <1>1, LifecycleAssumption DEF Begin, Typed
<1>8. calm' \in [Rooms -> BOOLEAN] /\ \A o \in Rooms : calm'[o] => calm[o]
  BY <1>1, <1>2 DEF Typed
<1>9. calm'[r] => ~Busy(r)
  BY <1>1, <1>2 DEF Typed
<1>10. calm'[r] /\ Orderly(r) => Real(r)
  <2> SUFFICES ASSUME calm'[r], Orderly(r) PROVE Real(r)
    OBVIOUS
  <2>1. \A d \in Cmds : ~Works(d, r)
    BY <1>9 DEF Busy, Works
  <2>2. \A p \in Pids : ~Tries(p, r)
    BY <1>9 DEF Busy, Tries, Early
  <2> QED BY <2>1, <2>2 DEF Orderly, Addressed
<1>11. cmd[c].at = "rest" /\ UNCHANGED <<hub, cut, alien, served>> /\ home' = home
  BY DEF Begin
<1> QED BY <1>4, <1>5, <1>6, <1>7, <1>8, <1>9, <1>10, <1>11, CommandMoves

LEMMA InterruptKeeps ==
    ASSUME LifecycleInv, NEW c \in Cmds, Interrupt(c) PROVE LifecycleInv'
<1>1. Typed /\ Calm
  BY DEF LifecycleInv, Basics
<1>2. PICK r \in Rooms : r = cmd[c].room
  BY <1>1, CommandTyped DEF Interrupt
<1>3. PICK x \in Pids \cup {None} :
        home = [home EXCEPT ![r].pid = x] /\ (x # None => home[r].here)
  BY <1>1, KeptIs
<1>4. Resting \in Commands /\ Resting.at = "rest" /\ cmd' = [cmd EXCEPT ![c] = Resting]
  BY <1>1, CommandTyped DEF Interrupt, Ends
<1>5. /\ calm' \in [Rooms -> BOOLEAN] /\ \A o \in Rooms : calm'[o] => calm[o]
      /\ ~calm'[r]
  BY <1>1, <1>2 DEF Typed, Interrupt
<1>6. /\ UNCHANGED <<hub, cut, alien, served>> /\ begun' \in 0..MaxCommands
      /\ home' = [home EXCEPT ![r].pid = x] /\ cmd[c].room = r
  BY <1>1, <1>2, <1>3 DEF Interrupt, Typed
<1> QED BY <1>2, <1>3, <1>4, <1>5, <1>6, CommandMoves

\* A command at work that has not written anything yet.
LEMMA WorkMoves ==
    ASSUME LifecycleInv, NEW c \in Cmds, NEW r \in Rooms, Works(c, r), cmd[c].at \notin Trying,
           NEW t \in Commands, cmd' = [cmd EXCEPT ![c] = t], t.at = "rest" \/ t.room = r,
           home' = home \/ home' = Swept(r),
           \/ hub' = hub
           \/ \E q \in Pids : IsHub(q, r) /\ hub' = [hub EXCEPT ![q] = Terminated(hub[q])],
           UNCHANGED <<cut, alien, served, begun, calm>>,
           t.at \notin {"write", "spawn", "wait", "done", "undo"},
           Orderly(r) =>
               /\ t.at \in {"look", "ensure", "rm"} => \A p \in Pids : ~IsHub(p, r)
               /\ t.at = "down" => \A p \in Pids : IsHub(p, r) => p = t.pid
               /\ t.at = "ensure" => RealBefore(r, t.was)
    PROVE  LifecycleInv'
<1>1. Typed /\ Calm
  BY DEF LifecycleInv, Basics
<1>2. PICK x \in Pids \cup {None} :
        /\ home' = [home EXCEPT ![r].pid = x] /\ (x # None => home[r].here)
        /\ Orderly(r) => \A p \in Pids : IsHub(p, r) /\ ~Early(p, r) => x = p
  <2>1. CASE home' = home
    BY <1>1, <2>1, KeptIs
  <2>2. CASE home' = Swept(r)
    BY <1>1, <2>2, SweptIs
  <2> QED BY <2>1, <2>2
<1>3. Orderly(r) => Real(r)
  BY RealNow
<1>4. cmd[c].at # "wait" /\ cmd[c].room = r
  BY DEF Trying, Works
<1>5. begun' \in 0..MaxCommands /\ calm' \in [Rooms -> BOOLEAN] /\ \A o \in Rooms : calm'[o] => calm[o]
  BY <1>1 DEF Typed
<1>6. \/ hub' = hub
      \/ /\ cmd[c].at # "wait"
         /\ \E q \in Pids : IsHub(q, r) /\ hub' = [hub EXCEPT ![q] = Terminated(hub[q])]
  BY <1>4
<1>7. calm'[r] /\ Orderly(r) =>
         /\ cmd[c].at = "wait" => \A p \in Pids : ~Early(p, r)
         /\ \A p \in Pids : IsHub(p, r) /\ ~Early(p, r) => x = p
         /\ t.at \notin {"write", "spawn", "wait"}
         /\ t.at \in {"look", "ensure", "undo", "rm"} => \A p \in Pids : ~IsHub(p, r)
         /\ t.at \in {"done", "down"} => \A p \in Pids : IsHub(p, r) => p = t.pid
         /\ t.at = "undo" \/ Real(r)
         /\ t.at \in {"ensure", "undo"} => RealBefore(r, t.was)
  BY <1>2, <1>3, <1>4
<1> QED BY <1>2, <1>4, <1>5, <1>6, <1>7, CommandMoves

\* The records of commands that only go on, or end.
LEMMA GoesOn ==
    ASSUME Typed, NEW c \in Cmds, NEW at, Goes(c, at), cmd[c].at # "rest",
           at \in Working \ {"ensure", "write", "spawn", "wait", "done", "undo", "down"}
               \/ (at \in {"done", "undo", "down"} /\ cmd[c].pid \in Pids)
    PROVE  \E t \in Commands :
             /\ cmd' = [cmd EXCEPT ![c] = t] /\ t.at = at /\ t.room = cmd[c].room
             /\ t.pid = cmd[c].pid /\ t.was = cmd[c].was
<1> DEFINE t == [cmd[c] EXCEPT !.at = at]
<1>1. cmd[c] \in Commands
  BY DEF Typed
<1>2. t \in Commands
  BY <1>1 DEF Commands, Working
<1>3. t.at = at /\ t.room = cmd[c].room /\ t.pid = cmd[c].pid /\ t.was = cmd[c].was
  BY <1>1 DEF Commands
<1>4. cmd' = [cmd EXCEPT ![c] = t]
  BY DEF Goes
<1> QED BY <1>2, <1>3, <1>4

LEMMA StartKeeps ==
    ASSUME LifecycleInv, NEW c \in Cmds, Start(c) PROVE LifecycleInv'
<1>1. Typed
  BY DEF LifecycleInv, Basics
<1>2. PICK r \in Rooms : r = cmd[c].room /\ Works(c, r)
  BY <1>1, CommandTyped DEF Start
<1>3. PICK q \in HubPids(r, None) : IF IsHub(q, r) THEN Ends(c) ELSE Goes(c, "look")
  BY <1>2 DEF Start
<1>4. cmd[c].at = "start" /\ cmd[c].at \notin Trying /\ home' = Swept(r) /\ hub' = hub
      /\ UNCHANGED <<cut, alien, served, begun, calm>>
  BY <1>2 DEF Start, Trying
<1>5. CASE IsHub(q, r)
  <2>1. cmd' = [cmd EXCEPT ![c] = Resting] /\ Resting \in Commands /\ Resting.at = "rest"
    BY <1>1, <1>3, <1>5, CommandTyped DEF Ends
  <2> QED BY <1>2, <1>4, <2>1, WorkMoves
<1>6. CASE ~IsHub(q, r)
  <2>1. Orderly(r) => \A p \in Pids : ~IsHub(p, r)
    BY <1>1, <1>2, <1>4, <1>6, NotFound
  <2>2. PICK t \in Commands : cmd' = [cmd EXCEPT ![c] = t] /\ t.at = "look" /\ t.room = r
    BY <1>1, <1>2, <1>3, <1>4, <1>6, GoesOn DEF Working
  <2> QED BY <1>2, <1>4, <2>1, <2>2, WorkMoves
<1> QED BY <1>5, <1>6

LEMMA LookKeeps ==
    ASSUME LifecycleInv, NEW c \in Cmds, Look(c) PROVE LifecycleInv'
<1>1. Typed
  BY DEF LifecycleInv, Basics
<1>2. PICK r \in Rooms : r = cmd[c].room /\ Works(c, r)
  BY <1>1, CommandTyped DEF Look
<1>3. cmd[c].at = "look" /\ cmd[c].at \notin Trying /\ home' = home /\ hub' = hub
      /\ UNCHANGED <<cut, alien, served, begun, calm>>
  BY DEF Look, Trying
<1> DEFINE existed == home[r].port # 0
           wanted == IF cmd[c].arg # 0 THEN cmd[c].arg
                     ELSE IF existed THEN home[r].port ELSE First(Ports)
           others == {q \in FreeFrom(r, wanted) : ~Taken(q)}
           sees(q) == cmd' = [cmd EXCEPT ![c] = [@ EXCEPT !.at = "ensure", !.port = q,
                                                          !.existed = existed, !.was = Trace(r)]]
<1>4. \/ sees(wanted)
      \/ others # {} /\ sees(First(others))
      \/ Ends(c)
  BY <1>2 DEF Look
<1>5. cmd[c] \in Commands /\ home[r] \in Homes
  BY <1>1 DEF Typed
<1>6. wanted \in Ports
  <2>1. First(Ports) \in Ports
    BY LifecycleAssumption, FirstIs
  <2> QED BY <1>5, <2>1 DEF Commands, Homes
<1>7. others # {} => First(others) \in Ports
  <2>1. others \subseteq Ports
    BY DEF FreeFrom
  <2>2. others # {} => First(others) \in others
    BY <2>1, FirstIs
  <2> QED BY <2>1, <2>2
<1>8. CASE Ends(c)
  <2>1. cmd' = [cmd EXCEPT ![c] = Resting] /\ Resting \in Commands /\ Resting.at = "rest"
    BY <1>1, <1>8, CommandTyped DEF Ends
  <2> QED BY <1>2, <1>3, <2>1, WorkMoves
<1>9. ASSUME NEW q \in Ports, sees(q) PROVE LifecycleInv'
  <2> DEFINE t == [cmd[c] EXCEPT !.at = "ensure", !.port = q, !.existed = existed, !.was = Trace(r)]
  <2>1. cmd' = [cmd EXCEPT ![c] = t]
    BY <1>9
  <2>2. Trace(r) \in Traces
    BY <1>5 DEF Homes, Trace, Traces
  <2>3. t \in Commands /\ t.at = "ensure" /\ t.room = r /\ t.was = Trace(r)
    <3> DEFINE e == existed  w == Trace(r)
    <3>1. e \in BOOLEAN /\ w \in Traces
      BY <2>2
    <3> HIDE DEF e, w
    <3>2. [cmd[c] EXCEPT !.at = "ensure", !.port = q, !.existed = e, !.was = w] \in Commands
      BY <1>2, <1>5, <3>1 DEF Commands, Working
    <3>3. t = [cmd[c] EXCEPT !.at = "ensure", !.port = q, !.existed = e, !.was = w]
      BY DEF e, w
    <3> HIDE DEF t
    <3>4. t.at = "ensure" /\ t.room = r /\ t.was = w
      BY <1>2, <1>5, <3>3 DEF Commands
    <3> QED BY <3>2, <3>3, <3>4 DEF w
  <2> HIDE DEF t
  <2>4. Orderly(r) => \A p \in Pids : ~IsHub(p, r)
    BY <1>2, <1>3 DEF Orderly, Alone
  <2>5. Orderly(r) => RealBefore(r, t.was)
    <3>1. Orderly(r) => Real(r)
      BY <1>2, <1>3, RealNow
    <3> QED BY <2>3, <3>1 DEF Real, RealBefore, Trace
  <2> QED BY <1>2, <1>3, <2>1, <2>3, <2>4, <2>5, WorkMoves
<1> HIDE DEF sees, wanted, others
<1> QED BY <1>4, <1>6, <1>7, <1>8, <1>9

LEMMA StopKeeps ==
    ASSUME LifecycleInv, NEW c \in Cmds, Stop(c) PROVE LifecycleInv'
<1>1. Typed
  BY DEF LifecycleInv, Basics
<1>2. PICK r \in Rooms : r = cmd[c].room /\ Works(c, r)
  BY <1>1, CommandTyped DEF Stop
<1>3. PICK q \in HubPids(r, None) :
        hub' = IF IsHub(q, r) THEN [hub EXCEPT ![q] = Terminated(@)] ELSE hub
  BY <1>2 DEF Stop
<1>4. cmd[c].at \notin Trying /\ home' = Swept(r) /\ UNCHANGED <<cut, alien, served, begun, calm>>
  BY <1>2 DEF Stop, Trying
<1>5. cmd' = [cmd EXCEPT ![c] = Resting] /\ Resting \in Commands /\ Resting.at = "rest"
  BY <1>1, CommandTyped DEF Ends, Stop
<1>6. \/ hub' = hub
      \/ \E p \in Pids : IsHub(p, r) /\ hub' = [hub EXCEPT ![p] = Terminated(hub[p])]
  <2>1. IsHub(q, r) => q \in Pids
    BY <1>1, HubPidsAre DEF IsHub
  <2> QED BY <1>3, <2>1
<1> QED BY <1>2, <1>4, <1>5, <1>6, WorkMoves

LEMMA StopFirstKeeps ==
    ASSUME LifecycleInv, NEW c \in Cmds, StopFirst(c) PROVE LifecycleInv'
<1>1. Typed
  BY DEF LifecycleInv, Basics
<1>2. PICK r \in Rooms : r = cmd[c].room /\ Works(c, r)
  BY <1>1, CommandTyped DEF StopFirst
<1>3. cmd[c].at \notin Trying /\ cmd[c].at # "rest" /\ UNCHANGED <<cut, alien, served, begun, calm>>
  BY DEF StopFirst, Trying
<1>4. CASE cmd[c].arg # 0 /\ Reserved(r, cmd[c].arg)
  <2>1. cmd' = [cmd EXCEPT ![c] = Resting] /\ home' = home /\ hub' = hub
    BY <1>2, <1>4 DEF StopFirst, Ends
  <2>2. Resting \in Commands /\ Resting.at = "rest"
    BY <1>1, CommandTyped
  <2> QED BY <1>2, <1>3, <2>1, <2>2, WorkMoves
<1>5. CASE ~(cmd[c].arg # 0 /\ Reserved(r, cmd[c].arg))
  <2>1. home' = Swept(r)
    BY <1>2, <1>5 DEF StopFirst
  <2>2. PICK q \in HubPids(r, None) :
          IF IsHub(q, r)
          THEN /\ hub' = [hub EXCEPT ![q] = Terminated(@)]
               /\ cmd' = [cmd EXCEPT ![c] = [@ EXCEPT !.at = "down", !.pid = q]]
          ELSE /\ Goes(c, IF cmd[c].op = "restart" THEN "start" ELSE "delete")
               /\ UNCHANGED hub
    BY <1>2, <1>5 DEF StopFirst
  <2>3. CASE IsHub(q, r)
    <3> DEFINE t == [cmd[c] EXCEPT !.at = "down", !.pid = q]
    <3>1. q \in Pids
      BY <1>1, <2>3, HubPidsAre DEF IsHub
    <3>2. cmd[c] \in Commands
      BY <1>1 DEF Typed
    <3>3. t \in Commands /\ t.at = "down" /\ t.room = r /\ t.pid = q
      BY <1>2, <3>1, <3>2 DEF Commands, Working
    <3>4. cmd' = [cmd EXCEPT ![c] = t] /\ hub' = [hub EXCEPT ![q] = Terminated(hub[q])]
      BY <2>2, <2>3
    <3> HIDE DEF t
    <3>5. Orderly(r) => \A p \in Pids : IsHub(p, r) => p = q
      BY <1>1, <1>2, Found DEF StopFirst
    <3> QED BY <1>2, <1>3, <2>1, <2>3, <3>1, <3>3, <3>4, <3>5, WorkMoves
  <2>4. CASE ~IsHub(q, r)
    <3>1. PICK t \in Commands :
            cmd' = [cmd EXCEPT ![c] = t] /\ t.at \in {"start", "delete"} /\ t.room = r
      <4>1. CASE cmd[c].op = "restart"
        BY <1>1, <1>2, <1>3, <2>2, <2>4, <4>1, GoesOn DEF Working
      <4>2. CASE cmd[c].op # "restart"
        BY <1>1, <1>2, <1>3, <2>2, <2>4, <4>2, GoesOn DEF Working
      <4> QED BY <4>1, <4>2
    <3> QED BY <1>2, <1>3, <2>1, <2>2, <2>4, <3>1, WorkMoves
  <2> QED BY <2>3, <2>4
<1> QED BY <1>4, <1>5

LEMMA DeleteKeeps ==
    ASSUME LifecycleInv, NEW c \in Cmds, Delete(c) PROVE LifecycleInv'
<1>1. Typed
  BY DEF LifecycleInv, Basics
<1>2. PICK r \in Rooms : r = cmd[c].room /\ Works(c, r)
  BY <1>1, CommandTyped DEF Delete
<1>3. cmd[c].at \notin Trying /\ cmd[c].at # "rest" /\ cmd[c].at # "wait" /\ hub' = hub
      /\ UNCHANGED <<cut, alien, served, begun, calm>> /\ home' = Swept(r)
  BY <1>2 DEF Delete, Trying
<1>4. PICK q \in HubPids(r, None) : IF home[r].here /\ ~IsHub(q, r) THEN Goes(c, "rm") ELSE Ends(c)
  BY <1>2 DEF Delete
<1>5. CASE home[r].here /\ ~IsHub(q, r)
  <2>1. Orderly(r) => \A p \in Pids : ~IsHub(p, r)
    BY <1>1, <1>2, <1>3, <1>5, NotFound
  <2>2. PICK t \in Commands : cmd' = [cmd EXCEPT ![c] = t] /\ t.at = "rm" /\ t.room = r
    BY <1>1, <1>2, <1>3, <1>4, <1>5, GoesOn DEF Working
  <2> QED BY <1>2, <1>3, <2>1, <2>2, WorkMoves
<1>6. CASE ~(home[r].here /\ ~IsHub(q, r))
  <2>1. cmd' = [cmd EXCEPT ![c] = Resting] /\ Resting \in Commands /\ Resting.at = "rest"
    BY <1>1, <1>4, <1>6, CommandTyped DEF Ends
  <2> QED BY <1>2, <1>3, <2>1, WorkMoves
<1> QED BY <1>5, <1>6

LEMMA DownKeeps ==
    ASSUME LifecycleInv, NEW c \in Cmds, Down(c) PROVE LifecycleInv'
<1>1. Typed
  BY DEF LifecycleInv, Basics
<1>2. PICK r \in Rooms : r = cmd[c].room /\ Works(c, r)
  BY <1>1, CommandTyped DEF Down
<1>3. /\ cmd[c].at = "down" /\ cmd[c].at \notin Trying /\ hub' = hub
      /\ UNCHANGED <<cut, alien, served, begun, calm>>
  BY DEF Down, Trying
<1>4. CASE /\ ~Alive(cmd[c].pid) /\ cmd[c].op = "restart"
           /\ home' = [home EXCEPT ![r].pid = None] /\ Goes(c, "start")
  <2>1. PICK t \in Commands : cmd' = [cmd EXCEPT ![c] = t] /\ t.at = "start" /\ t.room = r
    BY <1>1, <1>2, <1>3, <1>4, GoesOn DEF Working
  <2>2. Orderly(r) => \A p \in Pids : ~IsHub(p, r)
    BY <1>2, <1>3, <1>4 DEF Orderly, Alone, IsHub, Alive
  <2>3. Orderly(r) => Real(r)
    BY <1>2, <1>3, RealNow
  <2>4. /\ begun' \in 0..MaxCommands /\ calm' \in [Rooms -> BOOLEAN]
        /\ \A o \in Rooms : calm'[o] => calm[o]
    BY <1>1, <1>3 DEF Typed
  <2>5. None \in Pids \cup {None} /\ cmd[c].room = r
    BY <1>2
  <2> QED BY <1>2, <1>3, <1>4, <2>1, <2>2, <2>3, <2>4, <2>5, CommandMoves
<1>5. CASE home' = home /\ Goes(c, "delete")
  <2>1. PICK t \in Commands : cmd' = [cmd EXCEPT ![c] = t] /\ t.at = "delete" /\ t.room = r
    BY <1>1, <1>2, <1>3, <1>5, GoesOn DEF Working
  <2> QED BY <1>2, <1>3, <1>5, <2>1, WorkMoves
<1>6. CASE home' = home /\ Ends(c)
  <2>1. cmd' = [cmd EXCEPT ![c] = Resting] /\ Resting \in Commands /\ Resting.at = "rest"
    BY <1>1, <1>6, CommandTyped DEF Ends
  <2> QED BY <1>2, <1>3, <1>6, <2>1, WorkMoves
<1> QED BY <1>2, <1>4, <1>5, <1>6 DEF Down

LEMMA WaitKeeps ==
    ASSUME LifecycleInv, NEW c \in Cmds, Wait(c) PROVE LifecycleInv'
<1>1. Typed
  BY DEF LifecycleInv, Basics
<1>2. PICK r \in Rooms : r = cmd[c].room /\ Works(c, r)
  BY <1>1, CommandTyped DEF Wait
<1>3. cmd[c].at = "wait" /\ home' = home /\ hub' = hub /\ UNCHANGED <<cut, alien, begun, served>>
  BY DEF Wait
<1>4. cmd[c].pid \in Pids
  BY <1>1, <1>3 DEF Typed, Commands
<1>5. PICK x \in Pids \cup {None} :
        /\ home' = [home EXCEPT ![r].pid = x] /\ (x # None => home[r].here)
        /\ Orderly(r) => \A p \in Pids : IsHub(p, r) /\ ~Early(p, r) => x = p
  BY <1>1, <1>3, KeptIs
<1>6. /\ begun' \in 0..MaxCommands /\ calm' \in [Rooms -> BOOLEAN]
      /\ \A o \in Rooms : calm'[o] => calm[o]
  BY <1>1, <1>2 DEF Typed, Wait
<1>7. CASE Listens(c) /\ Goes(c, "done")
  <2>1. PICK t \in Commands : /\ cmd' = [cmd EXCEPT ![c] = t] /\ t.at = "done" /\ t.room = r
                              /\ t.pid = cmd[c].pid
    BY <1>1, <1>2, <1>3, <1>4, <1>7, GoesOn
  <2>2. Orderly(r) => /\ Real(r) /\ \A p \in Pids : ~Early(p, r)
                      /\ \A p \in Pids : IsHub(p, r) => p = t.pid
    BY <1>2, <1>3, <1>7, <2>1 DEF Orderly, Undoable, Alone, Real
  <2>3. cmd[c].room = r
    BY <1>2
  <2> QED BY <1>2, <1>3, <1>5, <1>6, <2>1, <2>2, <2>3, CommandMoves
<1>8. CASE ~Listens(c) /\ (~Alive(cmd[c].pid) \/ ~calm'[r]) /\ Goes(c, "undo")
  <2>1. PICK t \in Commands : /\ cmd' = [cmd EXCEPT ![c] = t] /\ t.at = "undo" /\ t.room = r
                              /\ t.was = cmd[c].was
    BY <1>1, <1>2, <1>3, <1>4, <1>8, GoesOn
  <2>2. calm'[r] /\ Orderly(r) => RealBefore(r, t.was) /\ \A p \in Pids : ~IsHub(p, r)
    BY <1>2, <1>3, <1>8, <2>1 DEF Orderly, Undoable, Alone, Trying, IsHub, Alive
  <2>3. calm'[r] /\ Orderly(r) => \A p \in Pids : ~Early(p, r)
    BY <2>2 DEF Early
  <2>4. cmd[c].room = r
    BY <1>2
  <2> QED BY <1>2, <1>3, <1>5, <1>6, <2>1, <2>2, <2>3, <2>4, CommandMoves
<1> QED
  <2>1. Slow /\ calm' = [calm EXCEPT ![r] = FALSE] => ~calm'[r]
    BY <1>1 DEF Typed
  <2> QED BY <1>2, <1>7, <1>8, <2>1 DEF Wait

LEMMA DoneKeeps ==
    ASSUME LifecycleInv, NEW c \in Cmds, Done(c) PROVE LifecycleInv'
<1>1. Typed
  BY DEF LifecycleInv, Basics
<1>2. PICK r \in Rooms : r = cmd[c].room /\ Works(c, r)
  BY <1>1, CommandTyped DEF Done
<1>3. /\ cmd[c].at = "done" /\ cmd[c].at \notin Trying /\ hub' = hub
      /\ UNCHANGED <<cut, alien, begun, served, calm>>
  BY DEF Done, Trying
<1>4. cmd' = [cmd EXCEPT ![c] = Resting] /\ Resting \in Commands /\ Resting.at = "rest"
  BY <1>1, CommandTyped DEF Ends, Done
<1>5. /\ begun' \in 0..MaxCommands /\ calm' \in [Rooms -> BOOLEAN]
      /\ \A o \in Rooms : calm'[o] => calm[o]
  BY <1>1, <1>3 DEF Typed
<1> DEFINE x == IF home[r].here THEN cmd[c].pid ELSE home[r].pid
<1>6. home[r] \in Homes /\ cmd[c].pid \in Pids
  BY <1>1, <1>3 DEF Typed, Commands
<1>7. home' = [home EXCEPT ![r].pid = x] /\ x \in Pids \cup {None} /\ (x # None => home[r].here)
  BY <1>2, <1>6 DEF Done, Homes, Empty
<1>8. Orderly(r) => Real(r)
  BY <1>2, <1>3, RealNow
<1>9. Orderly(r) => \A p \in Pids : IsHub(p, r) /\ ~Early(p, r) => x = p
  <2> SUFFICES ASSUME Orderly(r), NEW p \in Pids, IsHub(p, r), ~Early(p, r) PROVE x = p
    OBVIOUS
  <2>1. p = cmd[c].pid
    BY <1>2, <1>3 DEF Orderly, Alone
  <2>2. home[r].tokens
    BY DEF Orderly, AtHome, Early
  <2>3. home[r].here
    BY <1>6, <2>2 DEF Homes, Empty
  <2> QED BY <2>1, <2>3
<1>10. cmd[c].room = r
  BY <1>2
<1> HIDE DEF x
<1> QED BY <1>2, <1>3, <1>4, <1>5, <1>7, <1>8, <1>9, <1>10, CommandMoves

-----------------------------------------------------------------------------
(* A command that writes to the room while no hub of it is there. *)

LEMMA CommandWrites ==
    ASSUME LifecycleInv, NEW c \in Cmds, NEW r \in Rooms, Works(c, r),
           cmd[c].at \in {"ensure", "write", "undo", "rm"},
           NEW t \in Commands, cmd' = [cmd EXCEPT ![c] = t], t.at = "rest" \/ t.room = r,
           NEW h \in Homes, home' = [home EXCEPT ![r] = h],
           served' \in [Rooms -> SUBSET Ports], cut' \subseteq Pids,
           \A o \in Rooms \ {r} : served'[o] = served[o],
           UNCHANGED <<hub, alien, begun, calm>>, Logging',
           t.at \in {"rest", "write", "spawn"},
           calm[r] =>
               /\ t.at = "rest" => (h.tokens => h.port \in served'[r])
               /\ t.at # "rest" => h.tokens /\ (t.was.tokens => t.was.port \in served'[r])
               /\ t.at = "spawn" => h.port = t.port
    PROVE  LifecycleInv'
<1>1. Typed /\ Logging /\ Seen /\ Calm
  BY DEF LifecycleInv, Basics
<1>2. /\ cmd' \in [Cmds -> Commands] /\ cmd'[c] = t
      /\ \A d \in Cmds \ {c} : cmd'[d] = cmd[d]
  BY <1>1 DEF Typed
<1>3. /\ home' \in [Rooms -> Homes] /\ home'[r] = h
      /\ \A o \in Rooms \ {r} : home'[o] = home[o]
  BY <1>1 DEF Typed
<1>4. Typed'
  BY <1>1, <1>2, <1>3 DEF Typed
<1>5. Seen'
  BY <1>1 DEF Seen, Checked, IsHub
<1>6. ASSUME calm'[r] PROVE Orderly(r)'
  <2>1. Orderly(r) /\ calm[r]
    BY <1>1, <1>6 DEF Calm
  <2>2. \A p \in Pids : ~IsHub(p, r)' /\ ~Early(p, r)' /\ ~Tries(p, r)'
    BY <2>1 DEF Orderly, Alone, IsHub, Early, Tries
  <2>3. \A d \in Cmds : Works(d, r)' => d = c
    BY <1>2, <2>1 DEF Orderly, OneCommand, Works
  <2>4. OneCommand(r)' /\ OneEarly(r)' /\ OneHub(r)' /\ Alone(r)' /\ AtHome(r)'
    BY <2>2, <2>3 DEF OneCommand, OneEarly, OneHub, Alone, AtHome
  <2>5. Addressed(r)'
    <3>1. CASE t.at = "rest"
      BY <1>3, <2>1, <2>2, <3>1 DEF Addressed, Real
    <3>2. CASE t.at # "rest"
      <4>1. Works(c, r)' /\ cmd'[c].at \in Trying
        BY <1>2, <3>2 DEF Works, Trying
      <4> QED BY <2>2, <4>1 DEF Addressed
    <3> QED BY <3>1, <3>2
  <2>6. Undoable(r)'
    <3> SUFFICES ASSUME Works(c, r)'
                 PROVE  /\ RealBefore(r, t.was)' /\ h.tokens
                        /\ t.at = "spawn" => h.port = t.port
                        /\ t.at # "wait"
      BY <1>2, <1>3, <2>3 DEF Undoable
    <3>1. t.at # "rest"
      BY <1>2 DEF Works
    <3> QED BY <2>1, <3>1 DEF RealBefore
  <2> QED BY <2>4, <2>5, <2>6 DEF Orderly
<1>7. Calm'
  <2>1. \A d \in Cmds : \/ cmd'[d] = cmd[d]
                        \/ /\ cmd[d].at = "rest" \/ cmd[d].room = r
                           /\ cmd'[d].at = "rest" \/ cmd'[d].room = r
    BY <1>2 DEF Works
  <2> QED BY <1>1, <1>3, <1>6, <2>1, Apart
<1> QED BY <1>4, <1>5, <1>7 DEF LifecycleInv, Basics

\* A room that keeps its directory keeps what is logged there.
LEMMA LoggingStays ==
    ASSUME Typed, Logging, hub' = hub, cut' = cut, \A r \in Rooms : home[r].here => home'[r].here
    PROVE  Logging'
<1>1. \A q \in Pids : hub[q].at \in Serving => hub[q].room \in Rooms
  BY DEF Typed, Hubs, Serving
<1> QED BY <1>1 DEF Logging

\* Refused, at once or because the directory is gone.
LEMMA GivesUp ==
    ASSUME LifecycleInv, NEW c \in Cmds, NEW r \in Rooms, Works(c, r), Ends(c),
           cmd[c].at \in {"ensure", "write", "spawn"},
           cmd[c].at # "ensure" => ~home[r].here,
           UNCHANGED <<home, hub, cut, alien, begun, served, calm>>
    PROVE  LifecycleInv'
<1>1. Typed
  BY DEF LifecycleInv, Basics
<1>2. cmd' = [cmd EXCEPT ![c] = Resting] /\ Resting \in Commands /\ Resting.at = "rest"
  BY <1>1, CommandTyped DEF Ends
<1>3. PICK x \in Pids \cup {None} :
        /\ home' = [home EXCEPT ![r].pid = x] /\ (x # None => home[r].here)
        /\ Orderly(r) => \A p \in Pids : IsHub(p, r) /\ ~Early(p, r) => x = p
  BY <1>1, KeptIs
<1>4. Orderly(r) => Real(r)
  <2>1. CASE cmd[c].at = "ensure"
    BY <2>1, RealNow DEF Trying
  <2>2. CASE cmd[c].at # "ensure"
    <3>1. ~home[r].tokens
      BY <1>1, <2>2 DEF Typed, Homes, Empty
    <3> QED BY <3>1 DEF Real
  <2> QED BY <2>1, <2>2
<1>5. begun' \in 0..MaxCommands /\ calm' \in [Rooms -> BOOLEAN] /\ \A o \in Rooms : calm'[o] => calm[o]
  BY <1>1 DEF Typed
<1>6. cmd[c].room = r
  BY DEF Works
<1> QED BY <1>2, <1>3, <1>4, <1>5, <1>6, CommandMoves

\* What ensure_hub decides.
LEMMA AddressIs ==
    ASSUME Typed, NEW r \in Rooms, NEW port \in Ports, NEW explicit \in BOOLEAN, NEW moves \in BOOLEAN,
           moves => explicit, ~RefusesAddress(r, port, explicit, moves)
    PROVE  /\ Address(r, port, explicit, moves) \in Ports
           /\ ~Writes(r, port, moves) => Address(r, port, explicit, moves) = home[r].port
           /\ home[r].port # 0 /\ (moves => home[r].port = port) => ~Writes(r, port, moves)
<1>1. home[r].port \in Ports \cup {0}
  BY DEF Typed, Homes
<1>2. CASE ~Writes(r, port, moves)
  BY <1>1, <1>2 DEF Address, Writes
<1>3. CASE Writes(r, port, moves) /\ explicit
  BY <1>3 DEF Address, Writes
<1>4. CASE Writes(r, port, moves) /\ ~explicit
  <2>1. CASE FreeFrom(r, port) # {}
    <3>1. FreeFrom(r, port) \subseteq Ports
      BY DEF FreeFrom
    <3>2. First(FreeFrom(r, port)) \in FreeFrom(r, port)
      BY <2>1, <3>1, FirstIs
    <3> QED BY <1>4, <3>1, <3>2 DEF Address, Writes
  <2>2. CASE FreeFrom(r, port) = {}
    BY <1>4, <2>2 DEF Address, Writes, RefusesAddress
  <2> QED BY <2>1, <2>2
<1> QED BY <1>2, <1>3, <1>4

LEMMA WithTokensIs ==
    ASSUME Typed, NEW r \in Rooms
    PROVE  \E h \in Homes :
             /\ WithTokens(r) = [home EXCEPT ![r] = h]
             /\ h.here /\ h.tokens /\ h.port = home[r].port /\ h.pid = home[r].pid
             /\ h.log = home[r].log
<1> DEFINE h == [home[r] EXCEPT !.here = TRUE, !.tokens = TRUE]
<1>1. home[r] \in Homes
  BY DEF Typed
<1>2. /\ h \in Homes /\ h.here /\ h.tokens /\ h.port = home[r].port /\ h.pid = home[r].pid
      /\ h.log = home[r].log
  BY <1>1 DEF Homes
<1>3. WithTokens(r) = [home EXCEPT ![r] = h]
  BY DEF WithTokens
<1> HIDE DEF h
<1> QED BY <1>2, <1>3

LEMMA EnsureKeeps ==
    ASSUME LifecycleInv, NEW c \in Cmds, Ensure(c) PROVE LifecycleInv'
<1>1. Typed /\ Logging
  BY DEF LifecycleInv, Basics
<1>2. PICK r \in Rooms : r = cmd[c].room /\ Works(c, r)
  BY <1>1, CommandTyped DEF Ensure
<1>3. cmd[c].at = "ensure" /\ UNCHANGED <<hub, cut, alien, begun, served, calm>>
  BY DEF Ensure
<1> DEFINE port == cmd[c].port
           explicit == cmd[c].arg # 0
           moves == explicit /\ cmd[c].existed
<1>4. cmd[c] \in Commands /\ port \in Ports /\ explicit \in BOOLEAN /\ moves \in BOOLEAN
  BY <1>1, <1>3 DEF Typed, Commands
<1>5. CASE RefusesAddress(r, port, explicit, moves)
  <2>1. Ends(c) /\ home' = home
    BY <1>2, <1>5 DEF Ensure
  <2> QED BY <1>2, <1>3, <2>1, GivesUp
<1>6. CASE ~RefusesAddress(r, port, explicit, moves)
  <2> DEFINE a == Address(r, port, explicit, moves)
             at == IF Writes(r, port, moves) THEN "write" ELSE "spawn"
             t == [cmd[c] EXCEPT !.at = at, !.port = a]
  <2>1. home' = WithTokens(r) /\ cmd' = [cmd EXCEPT ![c].at = at, ![c].port = a]
    BY <1>2, <1>6 DEF Ensure
  <2>2. a \in Ports /\ (~Writes(r, port, moves) => a = home[r].port)
    BY <1>1, <1>4, <1>6, AddressIs
  <2>3. at \in {"write", "spawn"} /\ (at = "spawn" => a = home[r].port)
    BY <2>2
  <2>4. cmd' = [cmd EXCEPT ![c] = t]
    BY <1>1, <2>1 DEF Typed
  <2> HIDE DEF a, at
  <2>5. t \in Commands /\ t.at = at /\ t.port = a /\ t.room = r /\ t.was = cmd[c].was
    BY <1>2, <1>4, <2>2, <2>3 DEF Commands, Working
  <2> HIDE DEF t
  <2>6. PICK h \in Homes :
          /\ home' = [home EXCEPT ![r] = h]
          /\ h.here /\ h.tokens /\ h.port = home[r].port /\ h.log = home[r].log
    BY <1>1, <2>1, WithTokensIs
  <2>7. Logging'
    BY <1>1, <1>3, <2>6, LoggingStays DEF Typed
  <2>8. Orderly(r) => RealBefore(r, t.was)
    BY <1>2, <1>3, <2>5 DEF Orderly, Undoable
  <2>9. calm[r] => (t.was.tokens => t.was.port \in served'[r])
    BY <1>3, <2>8 DEF LifecycleInv, Calm, RealBefore
  <2>10. served' \in [Rooms -> SUBSET Ports] /\ cut' \subseteq Pids
    BY <1>1, <1>3 DEF Typed
  <2> QED BY <1>2, <1>3, <2>3, <2>4, <2>5, <2>6, <2>7, <2>9, <2>10, CommandWrites
<1> QED BY <1>5, <1>6

LEMMA WriteKeeps ==
    ASSUME LifecycleInv, NEW c \in Cmds, Write(c) PROVE LifecycleInv'
<1>1. Typed /\ Logging
  BY DEF LifecycleInv, Basics
<1>2. PICK r \in Rooms : r = cmd[c].room /\ Works(c, r)
  BY <1>1, CommandTyped DEF Write
<1>3. cmd[c].at = "write" /\ UNCHANGED <<hub, cut, alien, begun, served, calm>>
  BY DEF Write
<1>4. cmd[c] \in Commands /\ cmd[c].port \in Ports /\ home[r] \in Homes
  BY <1>1, <1>3 DEF Typed, Commands
<1>5. CASE ~home[r].here
  <2>1. Ends(c) /\ home' = home
    BY <1>2, <1>5 DEF Write
  <2> QED BY <1>2, <1>3, <1>5, <2>1, GivesUp
<1>6. CASE home[r].here
  <2> DEFINE t == [cmd[c] EXCEPT !.at = "spawn"]
             h == [home[r] EXCEPT !.port = cmd[c].port]
  <2>1. home' = [home EXCEPT ![r] = h] /\ cmd' = [cmd EXCEPT ![c] = t]
    BY <1>1, <1>2, <1>6 DEF Write, Goes
  <2>2. t \in Commands /\ t.at = "spawn" /\ t.room = r /\ t.was = cmd[c].was /\ t.port = cmd[c].port
    BY <1>2, <1>4 DEF Commands, Working
  <2>3. h \in Homes /\ h.port = cmd[c].port /\ h.tokens = home[r].tokens /\ h.here
    BY <1>4, <1>6 DEF Homes
  <2> HIDE DEF t, h
  <2>4. Logging'
    BY <1>1, <1>3, <2>1, <2>3, LoggingStays DEF Typed
  <2>5. Orderly(r) => RealBefore(r, t.was) /\ home[r].tokens
    BY <1>2, <1>3, <2>2 DEF Orderly, Undoable, Trying
  <2>6. calm[r] => h.tokens /\ (t.was.tokens => t.was.port \in served'[r])
    BY <1>3, <2>3, <2>5 DEF LifecycleInv, Calm, RealBefore
  <2>7. served' \in [Rooms -> SUBSET Ports] /\ cut' \subseteq Pids
    BY <1>1, <1>3 DEF Typed
  <2> QED BY <1>2, <1>3, <2>1, <2>2, <2>3, <2>4, <2>6, <2>7, CommandWrites
<1> QED BY <1>5, <1>6

\* The directory of a room is written anew, or is gone.
LEMMA PutsIs ==
    ASSUME Typed, Logging, NEW r \in Rooms, NEW h \in Homes, Puts(r, h), NEW p,
           \/ hub' = hub
           \/ p \in Pids /\ hub' = [hub EXCEPT ![p].at = "dead"]
    PROVE  /\ served' \in [Rooms -> SUBSET Ports] /\ cut' \subseteq Pids /\ Logging'
           /\ home' = [home EXCEPT ![r] = h]
           /\ \A o \in Rooms \ {r} : served'[o] = served[o]
           /\ h.tokens => served' = served
<1>1. home' = [home EXCEPT ![r] = h] /\ (h.tokens => served' = served)
  BY DEF Puts
<1>2. served' \in [Rooms -> SUBSET Ports] /\ \A o \in Rooms \ {r} : served'[o] = served[o]
  BY DEF Puts, Typed
<1>3. cut' \subseteq Pids
  BY DEF Puts, Typed
<1>4. Logging'
  <2> SUFFICES ASSUME NEW q \in Pids, hub'[q].at \in Serving, hub'[q].spawned,
                      ~home'[hub'[q].room].here
               PROVE  q \in cut'
    BY DEF Logging
  <2>1. hub'[q] = hub[q]
    <3>1. CASE hub' = hub
      BY <3>1
    <3>2. CASE p \in Pids /\ hub' = [hub EXCEPT ![p].at = "dead"]
      <4>1. q # p
        <5>1. hub[p] \in Hubs /\ hub'[p] = [hub[p] EXCEPT !.at = "dead"]
          BY <3>2 DEF Typed
        <5>2. hub'[p].at = "dead"
          BY <5>1 DEF Hubs
        <5> QED BY <5>2 DEF Serving
      <4> QED BY <3>2, <4>1 DEF Typed
    <3> QED BY <3>1, <3>2
  <2>2. hub[q].room \in Rooms
    BY <2>1 DEF Typed, Hubs, Serving
  <2>3. CASE hub[q].room = r
    BY <1>1, <2>1, <2>3 DEF Puts, Typed
  <2>4. CASE hub[q].room # r
    <3>1. ~home[hub[q].room].here
      BY <1>1, <2>1, <2>2, <2>4 DEF Typed
    <3>2. q \in cut
      BY <2>1, <3>1 DEF Logging
    <3> QED BY <3>2 DEF Puts
  <2> QED BY <2>3, <2>4
<1> QED BY <1>1, <1>2, <1>3, <1>4

LEMMA UndoneIs ==
    ASSUME NEW h \in Homes, NEW was \in Traces, NEW pid, NEW removes \in BOOLEAN, NEW keeps \in BOOLEAN
    PROVE  /\ Undone(h, was, pid, removes, keeps) \in Homes
           /\ Undone(h, was, pid, removes, keeps).tokens =>
                /\ Undone(h, was, pid, removes, keeps).port = was.port
                /\ was.tokens \/ ~removes
           /\ ~removes => /\ Undone(h, was, pid, removes, keeps).tokens = h.tokens
                          /\ Undone(h, was, pid, removes, keeps).log = h.log
<1>1. Empty \in Homes /\ ~Empty.tokens /\ ~Empty.here /\ Empty.log = <<>>
  BY DEF Empty, Homes
<1>2. CASE ~h.here
  BY <1>1, <1>2 DEF Undone, Homes
<1>3. CASE h.here /\ (was.tokens \/ ~removes)
  <2> DEFINE x == IF h.pid = pid THEN None ELSE h.pid
             g == [h EXCEPT !.pid = x, !.port = was.port]
  <2>1. Undone(h, was, pid, removes, keeps) = g
    BY <1>3 DEF Undone
  <2>2. x \in Pids \cup {None} /\ was.port \in Ports \cup {0}
    BY DEF Homes, Traces
  <2> HIDE DEF x
  <2>3. g \in Homes /\ g.port = was.port /\ g.tokens = h.tokens /\ g.log = h.log
    BY <1>3, <2>2 DEF Homes
  <2> QED BY <1>3, <2>1, <2>3
<1>4. CASE h.here /\ ~(was.tokens \/ ~removes) /\ keeps
  <2> DEFINE g == [Empty EXCEPT !.here = TRUE, !.log = h.log]
  <2>1. Undone(h, was, pid, removes, keeps) = g
    BY <1>4 DEF Undone
  <2>2. g \in Homes /\ ~g.tokens
    BY <1>4 DEF Homes, Empty
  <2> QED BY <1>4, <2>1, <2>2
<1>5. CASE h.here /\ ~(was.tokens \/ ~removes) /\ ~keeps
  BY <1>1, <1>5 DEF Undone
<1> QED BY <1>2, <1>3, <1>4, <1>5

LEMMA UndoKeeps ==
    ASSUME LifecycleInv, NEW c \in Cmds, Undo(c) PROVE LifecycleInv'
<1>1. Typed /\ Logging
  BY DEF LifecycleInv, Basics
<1>2. PICK r \in Rooms : r = cmd[c].room /\ Works(c, r)
  BY <1>1, CommandTyped DEF Undo
<1>3. cmd[c].at = "undo" /\ UNCHANGED <<hub, alien, begun, calm>>
  BY DEF Undo
<1> DEFINE h == Undone(home[r], cmd[c].was, cmd[c].pid, TRUE, TRUE)
<1>4. Puts(r, h)
  BY <1>2 DEF Undo
<1>5. home[r] \in Homes /\ cmd[c].was \in Traces
  BY <1>1 DEF Typed, Commands
<1>6. h \in Homes /\ (h.tokens => h.port = cmd[c].was.port /\ cmd[c].was.tokens)
  <2>1. /\ h \in Homes
        /\ h.tokens => h.port = cmd[c].was.port /\ (cmd[c].was.tokens \/ ~TRUE)
    BY <1>5, UndoneIs, Zenon
  <2> QED BY <2>1
<1> HIDE DEF h
<1>7. /\ served' \in [Rooms -> SUBSET Ports] /\ cut' \subseteq Pids /\ Logging'
      /\ home' = [home EXCEPT ![r] = h] /\ \A o \in Rooms \ {r} : served'[o] = served[o]
      /\ h.tokens => served' = served
  BY <1>1, <1>3, <1>4, <1>6, PutsIs
<1>8. cmd' = [cmd EXCEPT ![c] = Resting] /\ Resting \in Commands /\ Resting.at = "rest"
  BY <1>1, CommandTyped DEF Ends, Undo
<1>9. calm[r] => (h.tokens => h.port \in served'[r])
  <2>1. calm[r] => RealBefore(r, cmd[c].was)
    BY <1>2, <1>3 DEF LifecycleInv, Calm, Orderly, Undoable, Trying
  <2> QED BY <1>6, <1>7, <2>1 DEF RealBefore
<1> QED BY <1>2, <1>3, <1>6, <1>7, <1>8, <1>9, CommandWrites

LEMMA RemoveKeeps ==
    ASSUME LifecycleInv, NEW c \in Cmds, Remove(c) PROVE LifecycleInv'
<1>1. Typed /\ Logging
  BY DEF LifecycleInv, Basics
<1>2. PICK r \in Rooms : r = cmd[c].room /\ Works(c, r)
  BY <1>1, CommandTyped DEF Remove
<1>3. cmd[c].at = "rm" /\ UNCHANGED <<hub, alien, begun, calm>> /\ Puts(r, Empty)
  BY <1>2 DEF Remove
<1>4. Empty \in Homes /\ ~Empty.tokens
  BY DEF Empty, Homes
<1>5. /\ served' \in [Rooms -> SUBSET Ports] /\ cut' \subseteq Pids /\ Logging'
      /\ home' = [home EXCEPT ![r] = Empty] /\ \A o \in Rooms \ {r} : served'[o] = served[o]
  BY <1>1, <1>3, <1>4, PutsIs
<1>6. cmd' = [cmd EXCEPT ![c] = Resting] /\ Resting \in Commands /\ Resting.at = "rest"
  BY <1>1, CommandTyped DEF Ends, Remove
<1> QED BY <1>2, <1>3, <1>4, <1>5, <1>6, CommandWrites

-----------------------------------------------------------------------------
(* A process is born. *)

LEMMA BornIs ==
    ASSUME Typed, Logging, Seen, NEW p \in Fresh, NEW r \in Rooms, NEW port \in Ports \cup {0},
           NEW spawned \in BOOLEAN, spawned => port \in Ports /\ home[r].here,
           Born(p, r, port, spawned), home' = home
    PROVE  /\ p \in Pids /\ hub[p].at \notin Serving
           /\ hub' \in [Pids -> Hubs] /\ cut' \subseteq Pids /\ Logging' /\ Seen'
           /\ \A q \in Pids \ {p} : hub'[q] = hub[q]
           /\ hub'[p].at = "check" /\ hub'[p].room = r /\ hub'[p].port = port
           /\ hub'[p].spawned = spawned
<1> DEFINE g == [Unborn EXCEPT !.at = "check", !.room = r, !.port = port, !.spawned = spawned]
<1>1. p \in Pids /\ hub[p].at \notin Serving
  BY DEF Fresh, Serving
<1>2. /\ g \in Hubs /\ g.at = "check" /\ g.room = r /\ g.port = port /\ g.spawned = spawned
  BY DEF Unborn, Hubs, Serving, NoTrace, Traces
<1>3. hub' = [hub EXCEPT ![p] = g] /\ cut' = cut \ {p}
  BY DEF Born
<1> HIDE DEF g
<1>4. hub'[p] = g /\ \A q \in Pids \ {p} : hub'[q] = hub[q]
  BY <1>1, <1>3 DEF Typed
<1>5. hub' \in [Pids -> Hubs] /\ cut' \subseteq Pids
  BY <1>1, <1>2, <1>3 DEF Typed
<1>6. Seen'
  BY <1>1, <1>2, <1>3, SeenKept
<1>7. Logging'
  <2> SUFFICES ASSUME NEW q \in Pids, hub'[q].at \in Serving, hub'[q].spawned,
                      ~home[hub'[q].room].here
               PROVE  q \in cut'
    BY DEF Logging
  <2>1. q # p
    BY <1>2, <1>4
  <2>2. hub'[q] = hub[q]
    BY <1>4, <2>1
  <2> QED BY <1>3, <2>1, <2>2 DEF Logging
<1> QED BY <1>1, <1>2, <1>4, <1>5, <1>6, <1>7

LEMMA SpawnedIs ==
    ASSUME Typed, Logging, Seen, NEW p \in Fresh, NEW r \in Rooms, NEW port \in Ports,
           home[r].here, Born(p, r, port, TRUE), home' = home
    PROVE  /\ p \in Pids /\ hub[p].at \notin Serving
           /\ hub' \in [Pids -> Hubs] /\ cut' \subseteq Pids /\ Logging' /\ Seen'
           /\ \A q \in Pids \ {p} : hub'[q] = hub[q]
           /\ hub'[p].at = "check" /\ hub'[p].room = r /\ hub'[p].port = port
           /\ hub'[p].spawned = TRUE
<1>1. port \in Ports \cup {0}
  OBVIOUS
<1>2. TRUE \in BOOLEAN
  OBVIOUS
<1>3. TRUE => port \in Ports /\ home[r].here
  OBVIOUS
<1> QED BY <1>1, <1>2, <1>3, BornIs

LEMMA SpawnKeeps ==
    ASSUME LifecycleInv, NEW c \in Cmds, Spawn(c) PROVE LifecycleInv'
<1>1. Typed /\ Logging /\ Seen /\ Calm
  BY DEF LifecycleInv, Basics
<1>2. PICK r \in Rooms : r = cmd[c].room /\ Works(c, r)
  BY <1>1, CommandTyped DEF Spawn
<1>3. cmd[c].at = "spawn" /\ UNCHANGED <<home, alien, begun, served, calm>>
  BY DEF Spawn
<1>4. cmd[c] \in Commands /\ cmd[c].port \in Ports /\ home[r] \in Homes
  BY <1>1, <1>3 DEF Typed, Commands
<1>5. CASE ~home[r].here
  <2>1. Ends(c) /\ UNCHANGED <<hub, cut>>
    BY <1>2, <1>5 DEF Spawn
  <2> QED BY <1>2, <1>3, <1>5, <2>1, GivesUp
<1>6. CASE home[r].here
  <2> DEFINE n == Len(home[r].log)
  <2>1. PICK p \in Fresh :
          /\ Born(p, r, cmd[c].port, TRUE)
          /\ cmd' = [cmd EXCEPT ![c].at = "wait", ![c].pid = p, ![c].from = n]
    BY <1>2, <1>6 DEF Spawn
  <2>2. /\ p \in Pids /\ hub[p].at \notin Serving
        /\ hub' \in [Pids -> Hubs] /\ cut' \subseteq Pids /\ Logging' /\ Seen'
        /\ \A q \in Pids \ {p} : hub'[q] = hub[q]
        /\ hub'[p].at = "check" /\ hub'[p].room = r /\ hub'[p].port = cmd[c].port
        /\ hub'[p].spawned = TRUE
    <3>1. Born(p, r, cmd[c].port, TRUE)
      BY <2>1
    <3>2. cmd[c].port \in Ports
      BY <1>4
    <3>3. home' = home
      BY <1>3
    <3> QED BY <1>1, <1>6, <3>1, <3>2, <3>3, SpawnedIs
  <2> DEFINE t == [cmd[c] EXCEPT !.at = "wait", !.pid = p, !.from = n]
  <2>3. n \in Nat
    BY <1>4 DEF Homes
  <2>4. cmd' = [cmd EXCEPT ![c] = t]
    BY <1>1, <2>1 DEF Typed
  <2> HIDE DEF n
  <2>5. /\ t \in Commands /\ t.at = "wait" /\ t.room = r /\ t.pid = p /\ t.from = n
        /\ t.was = cmd[c].was
    BY <1>2, <1>4, <2>2, <2>3 DEF Commands, Working
  <2> HIDE DEF t
  <2>6. cmd' \in [Cmds -> Commands] /\ cmd'[c] = t /\ \A d \in Cmds \ {c} : cmd'[d] = cmd[d]
    BY <1>1, <2>4, <2>5 DEF Typed
  <2>7. Typed'
    BY <1>1, <1>3, <2>2, <2>6 DEF Typed
  <2>8. ASSUME calm'[r] PROVE Orderly(r)'
    <3>1. Orderly(r)
      BY <1>1, <1>3, <2>8 DEF Calm
    <3>2. \A q \in Pids : ~IsHub(q, r)
      BY <1>2, <1>3, <3>1 DEF Orderly, Alone
    <3>3. \A q \in Pids : IsHub(q, r)' => q = p
      BY <2>2, <3>2 DEF IsHub
    <3>4. \A d \in Cmds : Works(d, r)' => d = c
      BY <1>2, <2>6, <3>1 DEF Orderly, OneCommand, Works
    <3>5. Works(c, r)' /\ cmd'[c].at = "wait" /\ cmd'[c].pid = p
      BY <2>5, <2>6 DEF Works
    <3>6. OneCommand(r)' /\ OneHub(r)' /\ Alone(r)'
      BY <2>5, <2>6, <3>3, <3>4 DEF OneCommand, OneHub, Alone, Early
    <3>7. OneEarly(r)'
      BY <2>2, <3>3, <3>5 DEF OneEarly, Early
    <3>8. home[r].tokens /\ home[r].port = cmd[c].port /\ RealBefore(r, t.was)
      BY <1>2, <1>3, <2>5, <3>1 DEF Orderly, Undoable, Trying
    <3>9. AtHome(r)'
      BY <1>3, <2>2, <3>3, <3>8 DEF AtHome
    <3>10. Addressed(r)'
      <4>1. \A q \in Pids : ~Tries(q, r)'
        BY <2>2, <3>3 DEF Tries, Early
      <4> QED BY <3>5, <4>1 DEF Addressed, Trying
    <3>11. Undoable(r)'
      <4>1. ~Listens(c)'
        BY <1>3, <2>3, <2>5, <2>6 DEF Listens, n
      <4>2. cmd'[c].from <= Len(home'[r].log)
        BY <1>3, <2>3, <2>5, <2>6 DEF n
      <4>3. RealBefore(r, cmd[c].was)'
        BY <1>3, <2>5, <2>6, <3>8 DEF RealBefore
      <4>4. home'[r].tokens /\ cmd'[c].at = "wait"
        BY <1>3, <2>5, <2>6, <3>8
      <4>5. \A d \in Cmds : Works(d, r)' => d = c /\ cmd'[d].at = "wait"
        BY <3>4, <4>4
      <4> QED BY <4>1, <4>2, <4>3, <4>4, <4>5 DEF Undoable
    <3> QED BY <3>6, <3>7, <3>9, <3>10, <3>11 DEF Orderly
  <2>9. Calm'
    <3>1. \A d \in Cmds : \/ cmd'[d] = cmd[d]
                          \/ /\ cmd[d].at = "rest" \/ cmd[d].room = r
                             /\ cmd'[d].at = "rest" \/ cmd'[d].room = r
      BY <1>2, <2>5, <2>6
    <3>2. \A q \in Pids : \/ hub'[q] = hub[q]
                          \/ /\ hub[q].at \notin Serving \/ hub[q].room = r
                             /\ hub'[q].at \notin Serving \/ hub'[q].room = r
      BY <2>2
    <3> QED BY <1>1, <1>3, <2>8, <3>1, <3>2, Apart
  <2> QED BY <2>2, <2>7, <2>9 DEF LifecycleInv, Basics
<1> QED BY <1>5, <1>6

LEMMA ServeKeeps ==
    ASSUME LifecycleInv, NEW p \in Pids, NEW r \in Rooms, Serve(p, r) PROVE LifecycleInv'
<1>1. Typed /\ Logging /\ Seen /\ Calm
  BY DEF LifecycleInv, Basics
<1>2. p \in Fresh /\ UNCHANGED <<home, cmd, alien, served>>
  BY DEF Serve
<1>3. PICK arg \in Args : Born(p, r, arg, FALSE)
  BY DEF Serve
<1>4. /\ hub[p].at \notin Serving
      /\ hub' \in [Pids -> Hubs] /\ cut' \subseteq Pids /\ Logging' /\ Seen'
      /\ \A q \in Pids \ {p} : hub'[q] = hub[q]
      /\ hub'[p].at = "check" /\ hub'[p].room = r /\ hub'[p].spawned = FALSE
  <2>1. arg \in Ports \cup {0}
    BY LifecycleAssumption
  <2>2. FALSE \in BOOLEAN
    OBVIOUS
  <2>3. FALSE => arg \in Ports /\ home[r].here
    OBVIOUS
  <2>4. p \in Fresh /\ home' = home
    BY <1>2
  <2> QED BY <1>1, <1>3, <2>1, <2>2, <2>3, <2>4, BornIs
<1>5. calm' \in [Rooms -> BOOLEAN] /\ (\A o \in Rooms : calm'[o] => calm[o]) /\ (calm'[r] => ~Busy(r))
  BY <1>1 DEF Serve, Typed
<1>6. begun' \in 0..MaxCommands
  BY <1>1, LifecycleAssumption DEF Serve, Typed
<1>7. Typed'
  BY <1>1, <1>2, <1>4, <1>5, <1>6 DEF Typed
<1>8. ASSUME calm'[r] PROVE Orderly(r)'
  <2>1. Orderly(r) /\ ~Busy(r)
    BY <1>1, <1>5, <1>8 DEF Calm
  <2>2. \A c \in Cmds : ~Works(c, r) /\ ~Works(c, r)'
    BY <1>2, <2>1 DEF Busy, Works
  <2>3. \A q \in Pids : ~Early(q, r)
    BY <2>1 DEF Busy, Early
  <2>4. \A q \in Pids \ {p} : (IsHub(q, r)' => IsHub(q, r)) /\ ~Early(q, r)'
    BY <1>4, <2>3 DEF IsHub, Early
  <2>5. \A q \in Pids : ~Tries(q, r) /\ ~Tries(q, r)'
    BY <1>4, <2>3, <2>4 DEF Tries
  <2>6. OneCommand(r)' /\ Alone(r)' /\ Undoable(r)'
    BY <2>2 DEF OneCommand, Alone, Undoable
  <2>7. OneEarly(r)'
    BY <1>4, <2>2, <2>4 DEF OneEarly
  <2>8. OneHub(r)'
    BY <1>4, <2>4 DEF OneHub
  <2>9. AtHome(r)'
    BY <1>2, <1>4, <2>1, <2>4 DEF Orderly, AtHome
  <2>10. Addressed(r)'
    <3>1. Real(r)
      BY <2>1, <2>2, <2>5 DEF Orderly, Addressed
    <3> QED BY <1>2, <2>5, <3>1 DEF Addressed, Real
  <2> QED BY <2>6, <2>7, <2>8, <2>9, <2>10 DEF Orderly
<1>9. Calm'
  <2>1. \A q \in Pids : \/ hub'[q] = hub[q]
                        \/ /\ hub[q].at \notin Serving \/ hub[q].room = r
                           /\ hub'[q].at \notin Serving \/ hub'[q].room = r
    BY <1>4
  <2>2. /\ \A o \in Rooms \ {r} :
             home'[o] = home[o] /\ served'[o] = served[o] /\ (calm'[o] => calm[o])
        /\ \A c \in Cmds : cmd'[c] = cmd[c]
    BY <1>2, <1>5
  <2> QED BY <1>1, <1>8, <2>1, <2>2, Apart
<1> QED BY <1>4, <1>7, <1>9 DEF LifecycleInv, Basics

-----------------------------------------------------------------------------
(* A process ends that has not written an address, or that a start waits for. *)

LEMMA Dies ==
    ASSUME LifecycleInv, NEW p \in Pids, NEW r \in Rooms, IsHub(p, r),
           NEW g \in Hubs, hub' = [hub EXCEPT ![p] = g], g.at = "dead",
           NEW x \in Pids \cup {None}, home' = [home EXCEPT ![r].pid = x],
           x # None => home[r].here,
           UNCHANGED <<cut, cmd, alien, begun, served>>,
           calm' \in [Rooms -> BOOLEAN], \A o \in Rooms : calm'[o] => calm[o],
           calm'[r] /\ Orderly(r) =>
               /\ Tries(p, r) => hub[p].spawned
               /\ \A q \in Pids \ {p} : IsHub(q, r) /\ ~Early(q, r) => x = q
    PROVE  LifecycleInv'
<1>1. Typed /\ Logging /\ Seen /\ Calm
  BY DEF LifecycleInv, Basics
<1>2. /\ hub' \in [Pids -> Hubs] /\ hub'[p].at \notin Serving
      /\ \A q \in Pids \ {p} : hub'[q] = hub[q]
  BY <1>1 DEF Typed, Serving
<1>3. /\ home[r] \in Homes
      /\ home'[r] = [home[r] EXCEPT !.pid = x]
      /\ \A o \in Rooms \ {r} : home'[o] = home[o]
  BY <1>1 DEF Typed
<1>4. /\ home'[r].here = home[r].here /\ home'[r].tokens = home[r].tokens
      /\ home'[r].port = home[r].port /\ home'[r].pid = x /\ home'[r].log = home[r].log
      /\ home'[r] \in Homes
  <2> DEFINE d == home[r]
             n == [d EXCEPT !.pid = x]
  <2>1. d \in Homes /\ (x # None => d.here)
    BY <1>3
  <2> HIDE DEF d
  <2>2. /\ n.here = d.here /\ n.tokens = d.tokens /\ n.port = d.port /\ n.pid = x /\ n.log = d.log
    BY <2>1 DEF Homes
  <2>3. n \in Homes
    BY <2>1 DEF Homes, Empty
  <2>4. home'[r] = n
    BY <1>3 DEF d
  <2> HIDE DEF n
  <2> QED BY <2>2, <2>3, <2>4 DEF d
<1>5. home' \in [Rooms -> Homes]
  BY <1>1, <1>3, <1>4 DEF Typed
<1>6. Typed'
  BY <1>1, <1>2, <1>5 DEF Typed
<1>7. Seen'
  <2>1. g.at \notin Serving \ {"check"}
    BY DEF Serving
  <2> QED BY <1>1, <2>1, SeenKept
<1>8. Logging'
  <2>1. g.at \notin Serving
    BY DEF Serving
  <2>2. \A o \in Rooms : home[o].here => home'[o].here
    BY <1>3, <1>4
  <2> QED BY <1>1, <2>1, <2>2, LoggingKept
<1>9. ASSUME calm'[r] PROVE Orderly(r)'
  <2>1. Orderly(r)
    BY <1>1, <1>9 DEF Calm
  <2>2. \A q \in Pids : /\ IsHub(q, r)' => q # p /\ IsHub(q, r) /\ hub'[q] = hub[q]
                        /\ Early(q, r)' => q # p /\ Early(q, r)
                        /\ Tries(q, r)' => Tries(q, r)
                        /\ Tries(q, r) /\ q # p => Tries(q, r)'
    BY <1>2 DEF IsHub, Early, Tries
  <2>3. \A c \in Cmds : Works(c, r)' <=> Works(c, r)
    BY DEF Works
  <2>4. OneCommand(r)' /\ Alone(r)'
    BY <2>1, <2>2, <2>3 DEF Orderly, OneCommand, Alone
  <2>5. OneEarly(r)'
    <3> SUFFICES ASSUME NEW q \in Pids, Early(q, r)'
                 PROVE  IF hub[q].spawned
                        THEN \E c \in Cmds : Works(c, r)' /\ cmd[c].at = "wait" /\ cmd[c].pid = q
                        ELSE \A c \in Cmds : ~Works(c, r)'
      BY <1>2, <2>2 DEF OneEarly, Early
    <3>1. IF hub[q].spawned
          THEN \E c \in Cmds : Works(c, r) /\ cmd[c].at = "wait" /\ cmd[c].pid = q
          ELSE \A c \in Cmds : ~Works(c, r)
      BY <2>1, <2>2 DEF Orderly, OneEarly
    <3> QED BY <2>3, <3>1
  <2>6. OneHub(r)'
    BY <2>1, <2>2 DEF Orderly, OneHub, Early
  <2>7. AtHome(r)'
    <3> SUFFICES ASSUME NEW q \in Pids, IsHub(q, r)'
                 PROVE  /\ hub[q].spawned \/ hub[q].at \in {"record", "open", "bind", "up", "closing"} =>
                             home[r].tokens /\ home[r].port = hub[q].port
                        /\ hub[q].at \in {"open", "bind", "up", "closing"} => x = q
                        /\ hub[q].at = "write" => home[r].tokens
      <4>1. \A q \in Pids : IsHub(q, r)' => hub'[q] = hub[q]
        BY <2>2
      <4> QED BY <1>4, <4>1 DEF AtHome
    <3>1. q # p /\ IsHub(q, r)
      BY <2>2
    <3>2. CASE Early(q, r)
      BY <2>1, <3>1, <3>2 DEF Orderly, OneHub, AtHome
    <3>3. CASE ~Early(q, r)
      BY <1>9, <2>1, <3>1, <3>3 DEF Orderly, AtHome
    <3> QED BY <3>2, <3>3
  <2>8. Addressed(r)'
    <3>1. \A q \in Pids : Tries(q, r)' /\ ~hub'[q].spawned => RealBefore(r, hub[q].was) /\ hub'[q] = hub[q]
      BY <2>1, <2>2 DEF Orderly, Addressed, Tries, Early
    <3>2. \A q \in Pids : Tries(q, r)' /\ ~hub'[q].spawned => RealBefore(r, hub[q].was)'
      BY <3>1 DEF RealBefore
    <3>3. CASE \E c \in Cmds : Works(c, r) /\ cmd[c].at \in Trying
      BY <2>3, <3>2, <3>3 DEF Addressed
    <3>4. CASE Tries(p, r)
      <4>1. hub[p].spawned /\ Early(p, r)
        BY <1>9, <2>1, <3>4 DEF Tries
      <4>2. PICK c \in Cmds : Works(c, r) /\ cmd[c].at = "wait"
        BY <2>1, <4>1 DEF Orderly, OneEarly
      <4> QED BY <3>3, <4>2 DEF Trying
    <3>5. CASE \E q \in Pids : Tries(q, r) /\ q # p
      BY <2>2, <3>2, <3>5 DEF Addressed
    <3>6. CASE Real(r)
      BY <1>4, <3>2, <3>6 DEF Addressed, Real
    <3> QED BY <2>1, <3>3, <3>4, <3>5, <3>6 DEF Orderly, Addressed
  <2>9. Undoable(r)'
    <3>1. \A c \in Cmds : Works(c, r) => (Listens(c)' <=> Listens(c))
      BY <1>4 DEF Listens, Works
    <3> SUFFICES ASSUME NEW c \in Cmds, Works(c, r)
                 PROVE  /\ cmd[c].at \in {"ensure"} \cup Trying => RealBefore(r, cmd[c].was)
                        /\ cmd[c].at \in {"write", "spawn", "wait"} => home[r].tokens
                        /\ cmd[c].at = "spawn" => home[r].port = cmd[c].port
                        /\ cmd[c].at = "wait" =>
                             /\ cmd[c].from <= Len(home[r].log)
                             /\ Listens(c) => /\ home[r].port \in served[r]
                                              /\ \A q \in Pids : ~Early(q, r)
      BY <1>4, <2>2, <2>3, <3>1 DEF Undoable, RealBefore
    <3> QED BY <2>1 DEF Orderly, Undoable
  <2> QED BY <2>4, <2>5, <2>6, <2>7, <2>8, <2>9 DEF Orderly
<1>10. Calm'
  <2>1. \A q \in Pids : \/ hub'[q] = hub[q]
                        \/ /\ hub[q].at \notin Serving \/ hub[q].room = r
                           /\ hub'[q].at \notin Serving \/ hub'[q].room = r
    BY <1>2 DEF IsHub
  <2>2. \A o \in Rooms \ {r} :
             home'[o] = home[o] /\ served'[o] = served[o] /\ (calm'[o] => calm[o])
    BY <1>3
  <2>3. \A c \in Cmds : cmd'[c] = cmd[c]
    OBVIOUS
  <2> QED BY <1>1, <1>9, <2>1, <2>2, <2>3, Apart
<1> QED BY <1>6, <1>7, <1>8, <1>10 DEF LifecycleInv, Basics

-----------------------------------------------------------------------------
(* The step of a process that is not up yet. *)

LEMMA ProcessMoves ==
    ASSUME LifecycleInv, NEW p \in Pids, NEW r \in Rooms, Early(p, r),
           NEW g \in Hubs, hub' = [hub EXCEPT ![p] = g],
           g.at # "unborn", g.room = r, g.spawned = hub[p].spawned,
           NEW h \in Homes, home' = [home EXCEPT ![r] = h],
           served' \in [Rooms -> SUBSET Ports], cut' \subseteq Pids,
           \A o \in Rooms \ {r} : served'[o] = served[o],
           UNCHANGED <<cmd, alien, begun, calm>>, Logging', Seen',
           calm[r] /\ Orderly(r) =>
               /\ \A q \in Pids : IsHub(q, r) => q = p
               /\ g.at \in Serving =>
                    /\ g.spawned \/ g.at \in {"record", "open", "bind", "up", "closing"} =>
                         h.tokens /\ h.port = g.port
                    /\ g.at \in {"open", "bind", "up", "closing"} => h.pid = p
                    /\ g.at = "write" => h.tokens
               /\ ~g.spawned =>
                    IF g.at \in Serving \ {"check", "ensure", "up", "closing"}
                    THEN g.was.tokens => g.was.port \in served'[r]
                    ELSE h.tokens => h.port \in served'[r]
               /\ g.spawned =>
                    /\ h.tokens = home[r].tokens /\ served[r] \subseteq served'[r]
                    /\ \/ Len(h.log) = Len(home[r].log)
                       \/ /\ Len(h.log) > Len(home[r].log) /\ h.port \in served'[r]
                          /\ g.at \in {"up", "closing"}
    PROVE  LifecycleInv'
<1>1. Typed /\ Logging /\ Seen /\ Calm
  BY DEF LifecycleInv, Basics
<1>2. /\ hub' \in [Pids -> Hubs] /\ hub'[p] = g
      /\ \A q \in Pids \ {p} : hub'[q] = hub[q]
  BY <1>1 DEF Typed
<1>3. /\ home' \in [Rooms -> Homes] /\ home'[r] = h /\ home[r] \in Homes
      /\ \A o \in Rooms \ {r} : home'[o] = home[o]
  BY <1>1 DEF Typed
<1>4. Typed'
  BY <1>1, <1>2, <1>3 DEF Typed
<1>5. ASSUME calm'[r] PROVE Orderly(r)'
  <2>1. Orderly(r) /\ calm[r]
    BY <1>1, <1>5 DEF Calm
  <2>2. \A q \in Pids : IsHub(q, r)' => q = p
    BY <1>2, <2>1 DEF IsHub
  <2>3. \A c \in Cmds : Works(c, r)' <=> Works(c, r)
    BY DEF Works
  <2>4. CASE hub[p].spawned
    <3>1. PICK c \in Cmds : Works(c, r) /\ cmd[c].at = "wait" /\ cmd[c].pid = p
      BY <2>1, <2>4 DEF Orderly, OneEarly
    <3>2. \A d \in Cmds : Works(d, r)' => d = c
      BY <2>1, <2>3, <3>1 DEF Orderly, OneCommand
    <3>3. Works(c, r)' /\ cmd'[c].at = "wait" /\ cmd'[c].pid = p
      BY <2>3, <3>1
    <3>4. OneCommand(r)' /\ OneHub(r)' /\ Alone(r)'
      BY <2>2, <3>2, <3>3 DEF OneCommand, OneHub, Alone, Early
    <3>5. OneEarly(r)'
      BY <1>2, <2>2, <2>4, <3>3 DEF OneEarly, Early
    <3>6. AtHome(r)'
      BY <1>2, <1>3, <2>1, <2>2 DEF AtHome, IsHub
    <3>7. Addressed(r)'
      <4>1. \A q \in Pids : Tries(q, r)' => hub'[q].spawned
        BY <1>2, <2>2, <2>4 DEF Tries, Early
      <4> QED BY <3>3, <4>1 DEF Addressed, Trying
    <3>8. Undoable(r)'
      <4>1. /\ RealBefore(r, cmd[c].was) /\ home[r].tokens
            /\ cmd[c].from <= Len(home[r].log) /\ ~Listens(c)
        BY <2>1, <3>1 DEF Orderly, Undoable, Trying
      <4>2. /\ h.tokens /\ served[r] \subseteq served'[r]
            /\ \/ Len(h.log) = Len(home[r].log)
               \/ /\ Len(h.log) > Len(home[r].log) /\ h.port \in served'[r]
                  /\ g.at \in {"up", "closing"}
        BY <2>1, <2>4, <4>1
      <4>3. RealBefore(r, cmd[c].was)'
        BY <4>1, <4>2 DEF RealBefore
      <4>4. Len(h.log) \in Nat /\ Len(home[r].log) \in Nat /\ cmd[c].from \in Nat /\ cmd[c].room = r
        BY <1>1, <1>3, <3>1 DEF Homes, Typed, Commands, Works
      <4>5. cmd'[c].from <= Len(home'[r].log)
        BY <1>3, <4>1, <4>2, <4>4
      <4>6. Listens(c)' => home'[r].port \in served'[r] /\ g.at \in {"up", "closing"}
        <5>1. Listens(c)' <=> Len(h.log) > cmd[c].from
          BY <1>3, <4>4 DEF Listens
        <5>2. ~ (Len(home[r].log) > cmd[c].from)
          BY <4>1, <4>4 DEF Listens
        <5> QED BY <1>3, <4>2, <4>4, <5>1, <5>2
      <4>7. Listens(c)' => \A q \in Pids : ~Early(q, r)'
        BY <1>2, <2>2, <4>6 DEF Early
      <4>8. \A d \in Cmds : Works(d, r)' => d = c /\ cmd'[d].at = "wait"
        BY <3>2, <3>3
      <4>9. home'[r].tokens
        BY <1>3, <4>2
      <4> QED BY <4>3, <4>5, <4>6, <4>7, <4>8, <4>9 DEF Undoable
    <3> QED BY <3>4, <3>5, <3>6, <3>7, <3>8 DEF Orderly
  <2>5. CASE ~hub[p].spawned
    <3>1. \A c \in Cmds : ~Works(c, r)'
      BY <2>1, <2>3, <2>5 DEF Orderly, OneEarly
    <3>2. OneCommand(r)' /\ OneHub(r)' /\ Alone(r)' /\ Undoable(r)'
      BY <2>2, <3>1 DEF OneCommand, OneHub, Alone, Undoable, Early
    <3>3. OneEarly(r)'
      BY <1>2, <2>2, <2>5, <3>1 DEF OneEarly, Early
    <3>4. AtHome(r)'
      BY <1>2, <1>3, <2>1, <2>2 DEF AtHome, IsHub
    <3>5. Addressed(r)'
      <4>1. CASE g.at \in Serving \ {"check", "ensure", "up", "closing"}
        <5>1. Tries(p, r)'
          BY <1>2, <4>1, LifecycleAssumption DEF Tries, Early, IsHub
        <5>2. RealBefore(r, hub[p].was)'
          BY <1>2, <2>1, <2>5, <4>1 DEF RealBefore
        <5>3. \A q \in Pids : Tries(q, r)' => q = p
          BY <2>2 DEF Tries, Early
        <5> QED BY <5>1, <5>2, <5>3 DEF Addressed
      <4>2. CASE g.at \notin Serving \ {"check", "ensure", "up", "closing"}
        <5>1. \A q \in Pids : ~Tries(q, r)'
          BY <1>2, <2>2, <4>2 DEF Tries, Early, IsHub
        <5>2. Real(r)'
          BY <1>3, <2>1, <2>5, <4>2 DEF Real
        <5> QED BY <5>1, <5>2 DEF Addressed
      <4> QED BY <4>1, <4>2
    <3> QED BY <3>1, <3>2, <3>3, <3>4, <3>5 DEF Orderly
  <2> QED BY <2>4, <2>5
<1>6. Calm'
  <2>1. \A q \in Pids : \/ hub'[q] = hub[q]
                        \/ /\ hub[q].at \notin Serving \/ hub[q].room = r
                           /\ hub'[q].at \notin Serving \/ hub'[q].room = r
    BY <1>2 DEF Early, IsHub
  <2>2. \A o \in Rooms \ {r} :
             home'[o] = home[o] /\ served'[o] = served[o] /\ (calm'[o] => calm[o])
    BY <1>3
  <2>3. \A c \in Cmds : cmd'[c] = cmd[c]
    OBVIOUS
  <2> QED BY <1>1, <1>5, <2>1, <2>2, <2>3, Apart
<1> QED BY <1>4, <1>6 DEF LifecycleInv, Basics

\* The record of a process that only goes on.
LEMMA BecomesIs ==
    ASSUME Typed, NEW p \in Pids, NEW at \in Serving \cup {"dead"}, hub[p].at # "unborn",
           at \in {"write", "record", "open", "bind", "up"} => hub[p].port \in Ports,
           Becomes(p, at)
    PROVE  \E g \in Hubs :
             /\ hub' = [hub EXCEPT ![p] = g] /\ g.at = at /\ g.room = hub[p].room
             /\ g.port = hub[p].port /\ g.spawned = hub[p].spawned /\ g.term = hub[p].term
             /\ g.was = hub[p].was /\ g.misled = hub[p].misled
<1> DEFINE g == [hub[p] EXCEPT !.at = at]
<1>1. hub[p] \in Hubs
  BY DEF Typed
<1>2. /\ g.at = at /\ g.room = hub[p].room
      /\ g.port = hub[p].port /\ g.spawned = hub[p].spawned /\ g.term = hub[p].term
      /\ g.was = hub[p].was /\ g.misled = hub[p].misled
  BY <1>1 DEF Hubs
<1>3. g \in Hubs
  <2>1. at \in Serving \cup {"unborn", "dead", "foreign"}
    OBVIOUS
  <2> QED BY <1>1, <2>1 DEF Hubs
<1>4. hub' = [hub EXCEPT ![p] = g]
  BY DEF Becomes
<1> HIDE DEF g
<1> QED BY <1>2, <1>3, <1>4

\* A process that serves, in its room.
LEMMA ServingIs ==
    ASSUME Typed, NEW p \in Pids, hub[p].at \in Serving
    PROVE  /\ hub[p].room \in Rooms /\ IsHub(p, hub[p].room) /\ hub[p].at # "unborn"
           /\ hub[p].at \notin {"up", "closing"} => Early(p, hub[p].room)
<1>1. hub[p] \in Hubs /\ p # None
  BY LifecycleAssumption DEF Typed
<1>2. hub[p].at # "unborn" /\ hub[p].room \in Rooms
  BY <1>1 DEF Hubs, Serving
<1> QED BY <1>1, <1>2 DEF IsHub, Early

LEMMA HomeStays ==
    ASSUME Typed, NEW r \in Rooms, home' = home, served' = served, cut' = cut
    PROVE  /\ home[r] \in Homes /\ home' = [home EXCEPT ![r] = home[r]]
           /\ served' \in [Rooms -> SUBSET Ports] /\ cut' \subseteq Pids
           /\ \A o \in Rooms : home[o].here => home'[o].here
BY DEF Typed

\* A process in a calm room that is past its check is alone there.
LEMMA OnlyOne ==
    ASSUME NEW r \in Rooms, Orderly(r), NEW p \in Pids, Early(p, r), hub[p].at # "check"
    PROVE  \A q \in Pids : IsHub(q, r) => q = p
BY DEF Orderly, OneHub

\* A command is waiting for a child that is not up, and nobody for another hub.
LEMMA RealWhileChecking ==
    ASSUME NEW r \in Rooms, Orderly(r), NEW p \in Pids, Early(p, r), ~hub[p].spawned,
           hub[p].at \in {"check", "ensure"}, \A q \in Pids : IsHub(q, r) => q = p
    PROVE  Real(r)
<1>1. \A c \in Cmds : ~Works(c, r)
  BY DEF Orderly, OneEarly
<1>2. \A q \in Pids : ~Tries(q, r)
  BY DEF Tries, Early
<1> QED BY <1>1, <1>2 DEF Orderly, Addressed

LEMMA ServeChecksKeeps ==
    ASSUME LifecycleInv, NEW p \in Pids, ServeChecks(p) PROVE LifecycleInv'
<1>1. Typed /\ Logging /\ Seen
  BY DEF LifecycleInv, Basics
<1>2. hub[p].at = "check" /\ UNCHANGED <<cut, cmd, alien, begun, served, calm>>
  BY DEF ServeChecks
<1>3. PICK r \in Rooms : r = hub[p].room /\ IsHub(p, r) /\ Early(p, r)
  BY <1>1, <1>2, ServingIs DEF Serving
<1>4. home' = Swept(r)
  BY <1>3 DEF ServeChecks
<1>5. PICK q \in HubPids(r, p) :
        hub' = [hub EXCEPT ![p].at = IF q # p /\ IsHub(q, r) THEN "dead" ELSE "ensure",
                           ![p].misled = q # None /\ ~(q # p /\ IsHub(q, r))]
  BY <1>3 DEF ServeChecks
<1> DEFINE other == q # p /\ IsHub(q, r)
           at == IF other THEN "dead" ELSE "ensure"
           misled == q # None /\ ~other
           g == [hub[p] EXCEPT !.at = at, !.misled = misled]
<1>6. hub' = [hub EXCEPT ![p] = g]
  BY <1>1, <1>5 DEF Typed
<1>7. other \in BOOLEAN /\ misled \in BOOLEAN /\ at \in {"dead", "ensure"}
  BY DEF IsHub
<1>8. hub[p] \in Hubs
  BY <1>1 DEF Typed
<1>9. (at = "dead") = other /\ misled = (q # None /\ ~other)
  BY <1>7
<1>10. other = (q # p /\ IsHub(q, r))
  OBVIOUS
<1> HIDE DEF other, at, misled
<1>11. /\ g \in Hubs /\ g.at = at /\ g.room = r /\ g.port = hub[p].port
       /\ g.spawned = hub[p].spawned /\ g.misled = misled
  BY <1>2, <1>3, <1>7, <1>8 DEF Hubs, Serving
<1> HIDE DEF g
<1>12. PICK x \in Pids \cup {None} :
         /\ home' = [home EXCEPT ![r].pid = x] /\ (x # None => home[r].here)
         /\ Orderly(r) => \A a \in Pids : IsHub(a, r) /\ ~Early(a, r) => x = a
  BY <1>1, <1>4, SweptIs
<1>13. CASE other
  <2>1. g.at = "dead" /\ ~Tries(p, r)
    BY <1>2, <1>7, <1>9, <1>11, <1>13 DEF Tries
  <2>2. calm' \in [Rooms -> BOOLEAN] /\ \A o \in Rooms : calm'[o] => calm[o]
    BY <1>1, <1>2 DEF Typed
  <2> QED BY <1>2, <1>3, <1>6, <1>11, <1>12, <2>1, <2>2, Dies
<1>14. CASE ~other
  <2> DEFINE h == [home[r] EXCEPT !.pid = x]
  <2>1. g.at = "ensure" /\ (misled \/ q = None)
    BY <1>7, <1>9, <1>11, <1>14
  <2>2. home[r] \in Homes /\ home' = [home EXCEPT ![r] = h]
    BY <1>1, <1>12 DEF Typed
  <2>3. /\ h \in Homes /\ h.here = home[r].here /\ h.tokens = home[r].tokens
        /\ h.port = home[r].port /\ h.log = home[r].log
    BY <1>12, <2>2 DEF Homes, Empty
  <2> HIDE DEF h
  <2>4. Seen'
    <3>1. g.misled \/ \A a \in Pids \ {p} : ~IsHub(a, g.room)
      BY <1>1, <1>11, <2>1, HubPidsAre
    <3> QED BY <1>1, <1>6, <1>11, <3>1, SeenKept
  <2>5. Logging'
    <3>1. \A o \in Rooms : home[o].here => home'[o].here
      BY <1>1, <2>2, <2>3 DEF Typed
    <3>2. hub[p].at \in Serving /\ g.room = hub[p].room
      BY <1>3, <1>11 DEF IsHub
    <3> QED BY <1>1, <1>2, <1>6, <1>11, <3>1, <3>2, LoggingKept
  <2>6. Orderly(r) => \A a \in Pids : IsHub(a, r) => a = p
    <3> SUFFICES ASSUME Orderly(r), NEW a \in Pids, IsHub(a, r), a # p PROVE FALSE
      OBVIOUS
    <3>1. ~Early(a, r)
      BY <1>3 DEF Orderly, OneHub
    <3>2. home[r].pid = a
      BY <3>1 DEF Orderly, AtHome, Early
    <3>3. Alive(home[r].pid)
      BY <3>2 DEF Alive, IsHub
    <3>4. q = a
      BY <1>1, <3>2, <3>3, HubPidsAre
    <3> QED BY <1>10, <1>14, <3>4
  <2>7. Orderly(r) /\ hub[p].spawned => home[r].tokens /\ home[r].port = hub[p].port
    BY <1>3 DEF Orderly, AtHome
  <2>8. Orderly(r) /\ ~hub[p].spawned => (home[r].tokens => home[r].port \in served[r])
    BY <1>2, <1>3, <2>6, RealWhileChecking DEF Real
  <2>9. served' \in [Rooms -> SUBSET Ports] /\ cut' \subseteq Pids
    BY <1>1, <1>2 DEF Typed
  <2> QED BY <1>2, <1>3, <1>6, <1>11, <2>1, <2>2, <2>3, <2>4, <2>5, <2>6, <2>7, <2>8, <2>9, ProcessMoves
<1> QED BY <1>13, <1>14

\* From the check to the port: nothing is logged, and no address has been listened on.
LEMMA ProcessGoes ==
    ASSUME LifecycleInv, NEW p \in Pids, NEW r \in Rooms, Early(p, r), hub[p].at # "check",
           NEW g \in Hubs, hub' = [hub EXCEPT ![p] = g],
           g.at \in Serving \ {"check", "ensure", "up", "closing"},
           g.room = r, g.spawned = hub[p].spawned, g.misled = hub[p].misled,
           NEW h \in Homes, home' = [home EXCEPT ![r] = h],
           home[r].here => h.here, h.log = home[r].log,
           UNCHANGED <<cut, cmd, alien, begun, served, calm>>,
           calm[r] /\ Orderly(r) =>
               /\ g.spawned \/ g.at \in {"record", "open", "bind"} =>
                    h.tokens /\ h.port = g.port
               /\ g.at \in {"open", "bind"} => h.pid = p
               /\ g.at = "write" => h.tokens
               /\ ~g.spawned => RealBefore(r, g.was)
               /\ g.spawned => h.tokens = home[r].tokens
    PROVE  LifecycleInv'
<1>1. Typed /\ Logging /\ Seen
  BY DEF LifecycleInv, Basics
<1>2. served' \in [Rooms -> SUBSET Ports] /\ cut' \subseteq Pids
  BY <1>1 DEF Typed
<1>3. hub[p].at \in Serving /\ hub[p].room = r
  BY DEF Early, IsHub
<1>4. Seen'
  BY <1>1, <1>3, SeenKept
<1>5. Logging'
  <2>1. \A o \in Rooms : home[o].here => home'[o].here
    BY <1>1 DEF Typed
  <2> QED BY <1>1, <1>3, <2>1, LoggingKept
<1>6. Orderly(r) => \A q \in Pids : IsHub(q, r) => q = p
  BY OnlyOne
<1>7. RealBefore(r, g.was) => (g.was.tokens => g.was.port \in served'[r])
  BY DEF RealBefore
<1>8. g.at # "unborn" /\ g.at \in Serving
  BY DEF Serving
<1>9. calm[r] /\ Orderly(r) =>
         /\ \A q \in Pids : IsHub(q, r) => q = p
         /\ g.at \in Serving =>
              /\ g.spawned \/ g.at \in {"record", "open", "bind", "up", "closing"} =>
                   h.tokens /\ h.port = g.port
              /\ g.at \in {"open", "bind", "up", "closing"} => h.pid = p
              /\ g.at = "write" => h.tokens
         /\ ~g.spawned =>
              IF g.at \in Serving \ {"check", "ensure", "up", "closing"}
              THEN g.was.tokens => g.was.port \in served'[r]
              ELSE h.tokens => h.port \in served'[r]
         /\ g.spawned =>
              /\ h.tokens = home[r].tokens /\ served[r] \subseteq served'[r]
              /\ \/ Len(h.log) = Len(home[r].log)
                 \/ /\ Len(h.log) > Len(home[r].log) /\ h.port \in served'[r]
                    /\ g.at \in {"up", "closing"}
  BY <1>6, <1>7
<1> QED BY <1>2, <1>4, <1>5, <1>8, <1>9, ProcessMoves

\* It is refused its address, finds its directory gone, or is killed.
LEMMA Refused ==
    ASSUME LifecycleInv, NEW p \in Pids, NEW r \in Rooms, IsHub(p, r), Becomes(p, "dead"),
           UNCHANGED <<home, cut, cmd, alien, begun, served>>,
           calm' \in [Rooms -> BOOLEAN], \A o \in Rooms : calm'[o] => calm[o],
           calm'[r] /\ Orderly(r) => (Tries(p, r) => hub[p].spawned)
    PROVE  LifecycleInv'
<1>1. Typed
  BY DEF LifecycleInv, Basics
<1>2. hub[p].at # "unborn"
  BY DEF IsHub, Serving
<1>3. PICK g \in Hubs : hub' = [hub EXCEPT ![p] = g] /\ g.at = "dead"
  BY <1>1, <1>2, BecomesIs
<1>4. PICK x \in Pids \cup {None} :
        /\ home' = [home EXCEPT ![r].pid = x] /\ (x # None => home[r].here)
        /\ Orderly(r) => \A a \in Pids : IsHub(a, r) /\ ~Early(a, r) => x = a
  BY <1>1, KeptIs
<1> QED BY <1>3, <1>4, Dies

LEMMA ServeEnsuresKeeps ==
    ASSUME LifecycleInv, NEW p \in Pids, ServeEnsures(p) PROVE LifecycleInv'
<1>1. Typed
  BY DEF LifecycleInv, Basics
<1>2. hub[p].at = "ensure" /\ UNCHANGED <<cut, cmd, alien, begun, served, calm>>
  BY DEF ServeEnsures
<1>3. PICK r \in Rooms : r = hub[p].room /\ IsHub(p, r) /\ Early(p, r)
  BY <1>1, <1>2, ServingIs DEF Serving
<1> DEFINE explicit == hub[p].port # 0
           port == IF explicit THEN hub[p].port ELSE First(Ports)
           a == Address(r, port, explicit, FALSE)
           at == IF home[r].port = 0 THEN "write" ELSE "record"
           was == Trace(r)
           g == [hub[p] EXCEPT !.at = at, !.port = a, !.was = was]
<1>4. hub[p] \in Hubs /\ home[r] \in Homes
  BY <1>1 DEF Typed
<1>5. port \in Ports /\ explicit \in BOOLEAN /\ FALSE \in BOOLEAN /\ (explicit => port = hub[p].port)
  <2>1. First(Ports) \in Ports
    BY LifecycleAssumption, FirstIs
  <2> QED BY <1>4, <2>1 DEF Hubs
<1>6. CASE RefusesAddress(r, port, explicit, FALSE)
  <2>1. Becomes(p, "dead") /\ home' = home
    BY <1>3, <1>6 DEF ServeEnsures
  <2>2. ~Tries(p, r)
    BY <1>2 DEF Tries
  <2>3. calm' \in [Rooms -> BOOLEAN] /\ \A o \in Rooms : calm'[o] => calm[o]
    BY <1>1, <1>2 DEF Typed
  <2> QED BY <1>2, <1>3, <2>1, <2>2, <2>3, Refused
<1>7. CASE ~RefusesAddress(r, port, explicit, FALSE)
  <2>1. home' = WithTokens(r) /\ hub' = [hub EXCEPT ![p].at = at, ![p].port = a, ![p].was = was]
    BY <1>3, <1>7 DEF ServeEnsures
  <2>2. a \in Ports /\ (home[r].port # 0 => a = home[r].port)
    BY <1>1, <1>5, <1>7, AddressIs
  <2>3. /\ at \in {"write", "record"} /\ (at = "record" <=> home[r].port # 0)
    OBVIOUS
  <2>4. hub' = [hub EXCEPT ![p] = g]
    BY <1>1, <2>1 DEF Typed
  <2>5. was \in Traces /\ was.tokens = home[r].tokens /\ was.port = home[r].port
    BY <1>4 DEF Homes, Trace, Traces
  <2> HIDE DEF explicit, port, a, at, was
  <2>6. /\ g \in Hubs /\ g.at = at /\ g.port = a /\ g.was = was /\ g.room = r
        /\ g.spawned = hub[p].spawned /\ g.misled = hub[p].misled
    BY <1>2, <1>3, <1>4, <2>2, <2>3, <2>5 DEF Hubs, Serving
  <2> HIDE DEF g
  <2>7. PICK h \in Homes :
          /\ home' = [home EXCEPT ![r] = h]
          /\ h.here /\ h.tokens /\ h.port = home[r].port /\ h.log = home[r].log
    BY <1>1, <2>1, WithTokensIs
  <2>8. Orderly(r) /\ g.spawned => home[r].tokens /\ home[r].port # 0 /\ a = home[r].port
    <3> SUFFICES ASSUME Orderly(r), hub[p].spawned
                 PROVE  home[r].tokens /\ home[r].port # 0
      BY <2>2, <2>6
    <3>1. home[r].tokens /\ home[r].port = hub[p].port
      BY <1>3 DEF Orderly, AtHome
    <3>2. hub[p].port \in Ports /\ 0 \notin Ports
      BY <1>4, LifecycleAssumption DEF Hubs
    <3> QED BY <3>1, <3>2
  <2>9. Orderly(r) /\ ~g.spawned => RealBefore(r, g.was)
    <3> SUFFICES ASSUME Orderly(r), ~hub[p].spawned PROVE Real(r)
      BY <2>5, <2>6 DEF Real, RealBefore
    <3>1. \A q \in Pids : IsHub(q, r) => q = p
      BY <1>2, <1>3, OnlyOne
    <3> QED BY <1>2, <1>3, <3>1, RealWhileChecking
  <2>10. g.at \in Serving \ {"check", "ensure", "up", "closing"} /\ g.at \notin {"open", "bind"}
    BY <2>3, <2>6 DEF Serving
  <2>11. calm[r] /\ Orderly(r) =>
           /\ g.spawned \/ g.at \in {"record", "open", "bind"} => h.tokens /\ h.port = g.port
           /\ g.at \in {"open", "bind"} => h.pid = p
           /\ g.at = "write" => h.tokens
           /\ ~g.spawned => RealBefore(r, g.was)
           /\ g.spawned => h.tokens = home[r].tokens
    BY <2>2, <2>3, <2>6, <2>7, <2>8, <2>9, <2>10
  <2> QED BY <1>2, <1>3, <2>4, <2>6, <2>7, <2>10, <2>11, ProcessGoes
<1> QED BY <1>6, <1>7

LEMMA ServeWritesKeeps ==
    ASSUME LifecycleInv, NEW p \in Pids, ServeWrites(p) PROVE LifecycleInv'
<1>1. Typed
  BY DEF LifecycleInv, Basics
<1>2. hub[p].at = "write" /\ UNCHANGED <<cut, cmd, alien, begun, served, calm>>
  BY DEF ServeWrites
<1>3. PICK r \in Rooms : r = hub[p].room /\ IsHub(p, r) /\ Early(p, r)
  BY <1>1, <1>2, ServingIs DEF Serving
<1>4. hub[p] \in Hubs /\ hub[p].port \in Ports /\ home[r] \in Homes
  BY <1>1, <1>2 DEF Typed, Hubs
<1>5. Orderly(r) => home[r].tokens
  BY <1>2, <1>3 DEF Orderly, AtHome
<1>6. CASE ~home[r].here
  <2>1. Becomes(p, "dead") /\ home' = home
    BY <1>3, <1>6 DEF ServeWrites
  <2>2. ~Orderly(r)
    BY <1>4, <1>5, <1>6 DEF Homes, Empty
  <2>3. calm' \in [Rooms -> BOOLEAN] /\ \A o \in Rooms : calm'[o] => calm[o]
    BY <1>1, <1>2 DEF Typed
  <2> QED BY <1>2, <1>3, <2>1, <2>2, <2>3, Refused
<1>7. CASE home[r].here
  <2> DEFINE h == [home[r] EXCEPT !.port = hub[p].port]
  <2>1. home' = [home EXCEPT ![r] = h] /\ Becomes(p, "record")
    BY <1>1, <1>3, <1>7 DEF ServeWrites, Typed
  <2>2. /\ h \in Homes /\ h.port = hub[p].port /\ h.tokens = home[r].tokens /\ h.here
        /\ h.log = home[r].log
    BY <1>4, <1>7 DEF Homes
  <2> HIDE DEF h
  <2>3. hub[p].at # "unborn" /\ "record" \in Serving
    BY <1>2 DEF Serving
  <2>4. PICK g \in Hubs :
          /\ hub' = [hub EXCEPT ![p] = g] /\ g.at = "record" /\ g.room = r
          /\ g.port = hub[p].port /\ g.spawned = hub[p].spawned
          /\ g.was = hub[p].was /\ g.misled = hub[p].misled
    BY <1>1, <1>3, <1>4, <2>1, <2>3, BecomesIs
  <2>5. Orderly(r) /\ ~g.spawned => RealBefore(r, g.was)
    BY <1>2, <1>3, <2>4 DEF Orderly, Addressed, Tries
  <2>6. calm[r] /\ Orderly(r) =>
           /\ g.spawned \/ g.at \in {"record", "open", "bind"} => h.tokens /\ h.port = g.port
           /\ g.at \in {"open", "bind"} => h.pid = p
           /\ g.at = "write" => h.tokens
           /\ ~g.spawned => RealBefore(r, g.was)
           /\ g.spawned => h.tokens = home[r].tokens
    BY <1>5, <2>2, <2>4, <2>5
  <2>7. g.at \in Serving \ {"check", "ensure", "up", "closing"} /\ hub[p].at # "check"
    BY <1>2, <2>4 DEF Serving
  <2> QED BY <1>2, <1>3, <2>1, <2>2, <2>4, <2>6, <2>7, ProcessGoes
<1> QED BY <1>6, <1>7

LEMMA ServeRecordsKeeps ==
    ASSUME LifecycleInv, NEW p \in Pids, ServeRecords(p) PROVE LifecycleInv'
<1>1. Typed
  BY DEF LifecycleInv, Basics
<1>2. hub[p].at = "record" /\ UNCHANGED <<cut, cmd, alien, begun, served, calm>>
  BY DEF ServeRecords
<1>3. PICK r \in Rooms : r = hub[p].room /\ IsHub(p, r) /\ Early(p, r)
  BY <1>1, <1>2, ServingIs DEF Serving
<1>4. hub[p] \in Hubs /\ hub[p].port \in Ports /\ home[r] \in Homes /\ hub[p].at # "unborn"
  BY <1>1, <1>2 DEF Typed, Hubs
<1>5. Orderly(r) => home[r].tokens /\ home[r].port = hub[p].port
  BY <1>2, <1>3 DEF Orderly, AtHome
<1>6. calm' \in [Rooms -> BOOLEAN] /\ \A o \in Rooms : calm'[o] => calm[o]
  BY <1>1, <1>2 DEF Typed
<1>7. CASE ~home[r].here
  <2>1. Becomes(p, "dead") /\ home' = home
    BY <1>3, <1>7 DEF ServeRecords
  <2>2. ~Orderly(r)
    BY <1>4, <1>5, <1>7 DEF Homes, Empty
  <2> QED BY <1>2, <1>3, <1>6, <2>1, <2>2, Refused
<1>8. CASE home[r].here /\ ~home[r].tokens
  <2>1. Becomes(p, "dead") /\ home' = [home EXCEPT ![r].pid = p]
    BY <1>3, <1>8 DEF ServeRecords
  <2>2. PICK g \in Hubs : hub' = [hub EXCEPT ![p] = g] /\ g.at = "dead"
    BY <1>1, <1>4, <2>1, BecomesIs
  <2>3. ~Orderly(r)
    BY <1>5, <1>8
  <2>4. p \in Pids \cup {None} /\ (p # None => home[r].here)
    BY <1>8
  <2> QED BY <1>2, <1>3, <1>6, <2>1, <2>2, <2>3, <2>4, Dies
<1>9. CASE home[r].here /\ home[r].tokens
  <2> DEFINE h == [home[r] EXCEPT !.pid = p]
  <2>1. home' = [home EXCEPT ![r] = h] /\ Becomes(p, "open")
    BY <1>1, <1>3, <1>9 DEF ServeRecords, Typed
  <2>2. /\ h \in Homes /\ h.port = home[r].port /\ h.tokens = home[r].tokens /\ h.here
        /\ h.log = home[r].log /\ h.pid = p
    BY <1>4, <1>9 DEF Homes
  <2> HIDE DEF h
  <2>3. "open" \in Serving
    BY DEF Serving
  <2>4. PICK g \in Hubs :
          /\ hub' = [hub EXCEPT ![p] = g] /\ g.at = "open" /\ g.room = r
          /\ g.port = hub[p].port /\ g.spawned = hub[p].spawned
          /\ g.was = hub[p].was /\ g.misled = hub[p].misled
    BY <1>1, <1>3, <1>4, <2>1, <2>3, BecomesIs
  <2>5. Orderly(r) /\ ~g.spawned => RealBefore(r, g.was)
    BY <1>2, <1>3, <2>4 DEF Orderly, Addressed, Tries
  <2>6. calm[r] /\ Orderly(r) =>
           /\ g.spawned \/ g.at \in {"record", "open", "bind"} => h.tokens /\ h.port = g.port
           /\ g.at \in {"open", "bind"} => h.pid = p
           /\ g.at = "write" => h.tokens
           /\ ~g.spawned => RealBefore(r, g.was)
           /\ g.spawned => h.tokens = home[r].tokens
    BY <1>5, <2>2, <2>4, <2>5
  <2>7. g.at \in Serving \ {"check", "ensure", "up", "closing"} /\ hub[p].at # "check"
    BY <1>2, <2>4 DEF Serving
  <2> QED BY <1>2, <1>3, <2>1, <2>2, <2>4, <2>6, <2>7, ProcessGoes
<1> QED BY <1>7, <1>8, <1>9

\* The data are opened, or the port is found taken.
LEMMA OpensOrFails ==
    ASSUME LifecycleInv, NEW p \in Pids, hub[p].at \in {"open", "bind"},
           NEW r \in Rooms, hub[p].room = r,
           NEW at \in {"bind", "undo"}, Becomes(p, at),
           NEW h \in Homes, home' = [home EXCEPT ![r] = h],
           h.here = home[r].here, h.tokens = home[r].tokens, h.port = home[r].port,
           h.pid = home[r].pid, h.log = home[r].log,
           UNCHANGED <<cut, cmd, alien, begun, served, calm>>
    PROVE  LifecycleInv'
<1>1. Typed
  BY DEF LifecycleInv, Basics
<1>2. IsHub(p, r) /\ Early(p, r)
  BY <1>1, ServingIs DEF Serving
<1>3. hub[p] \in Hubs /\ hub[p].port \in Ports /\ hub[p].at # "unborn"
  BY <1>1 DEF Typed, Hubs
<1>4. at \in Serving \ {"check", "ensure", "up", "closing"} /\ hub[p].at # "check"
  BY DEF Serving
<1>5. PICK g \in Hubs :
        /\ hub' = [hub EXCEPT ![p] = g] /\ g.at = at /\ g.room = r
        /\ g.port = hub[p].port /\ g.spawned = hub[p].spawned
        /\ g.was = hub[p].was /\ g.misled = hub[p].misled
  BY <1>1, <1>3, <1>4, BecomesIs
<1>6. Orderly(r) => /\ h.tokens /\ h.port = g.port /\ h.pid = p
                    /\ ~g.spawned => RealBefore(r, g.was)
  BY <1>2, <1>5 DEF Orderly, AtHome, Addressed, Tries
<1>7. calm[r] /\ Orderly(r) =>
         /\ g.spawned \/ g.at \in {"record", "open", "bind"} => h.tokens /\ h.port = g.port
         /\ g.at \in {"open", "bind"} => h.pid = p
         /\ g.at = "write" => h.tokens
         /\ ~g.spawned => RealBefore(r, g.was)
         /\ g.spawned => h.tokens = home[r].tokens
  BY <1>5, <1>6
<1>8. g.at \in Serving \ {"check", "ensure", "up", "closing"}
  BY <1>4, <1>5
<1> QED BY <1>2, <1>4, <1>5, <1>7, <1>8, ProcessGoes

LEMMA OpensKeeps ==
    ASSUME LifecycleInv, NEW p \in Pids, Opens(p) PROVE LifecycleInv'
<1>1. Typed
  BY DEF LifecycleInv, Basics
<1>2. PICK at \in {"bind", "undo"} : Becomes(p, at)
  BY DEF Opens
<1>3. hub[p].at \in {"open", "bind"} /\ UNCHANGED <<home, cut, cmd, alien, begun, served, calm>>
  BY DEF Opens
<1>4. PICK r \in Rooms : hub[p].room = r
  BY <1>1, <1>3, ServingIs DEF Serving
<1>5. PICK h \in Homes : h = home[r] /\ home' = [home EXCEPT ![r] = h]
  BY <1>1, <1>3, HomeStays
<1>6. /\ home' = [home EXCEPT ![r] = h] /\ h.here = home[r].here /\ h.tokens = home[r].tokens
      /\ h.port = home[r].port /\ h.pid = home[r].pid /\ h.log = home[r].log
  BY <1>5
<1>7. hub[p].at \in {"open", "bind"} /\ UNCHANGED <<cut, cmd, alien, begun, served, calm>>
  BY <1>3
<1> QED BY <1>2, <1>4, <1>6, <1>7, OpensOrFails

LEMMA BindsKeeps ==
    ASSUME LifecycleInv, NEW p \in Pids, Binds(p) PROVE LifecycleInv'
<1>1. Typed /\ Logging /\ Seen
  BY DEF LifecycleInv, Basics
<1>2. hub[p].at = "bind" /\ UNCHANGED <<cut, cmd, alien, begun, calm>>
  BY DEF Binds
<1>3. CASE Taken(hub[p].port)
  <2>1. Becomes(p, "undo") /\ UNCHANGED <<home, served>>
    BY <1>3 DEF Binds
  <2>2. PICK r \in Rooms : hub[p].room = r
    BY <1>1, <1>2, ServingIs DEF Serving
  <2>3. PICK h \in Homes : h = home[r] /\ home' = [home EXCEPT ![r] = h]
    BY <1>1, <1>2, <2>1, HomeStays
  <2>4. /\ home' = [home EXCEPT ![r] = h] /\ h.here = home[r].here /\ h.tokens = home[r].tokens
        /\ h.port = home[r].port /\ h.pid = home[r].pid /\ h.log = home[r].log
    BY <2>3
  <2>5. Becomes(p, "undo") /\ UNCHANGED <<cut, cmd, alien, begun, served, calm>>
    BY <1>2, <2>1
  <2>6. hub[p].at \in {"open", "bind"}
    BY <1>2
  <2> QED BY <2>2, <2>4, <2>5, <2>6, OpensOrFails
<1>4. CASE ~Taken(hub[p].port)
  <2>1. PICK r \in Rooms : r = hub[p].room /\ IsHub(p, r) /\ Early(p, r)
    BY <1>1, <1>2, ServingIs DEF Serving
  <2> DEFINE at == IF hub[p].term THEN "closing" ELSE "up"
             logs == hub[p].spawned /\ p \notin cut
             h == IF logs THEN [home[r] EXCEPT !.log = Append(@, p)] ELSE home[r]
  <2>2. /\ Becomes(p, at) /\ served' = [served EXCEPT ![r] = @ \cup {hub[p].port}]
        /\ home' = IF logs THEN [home EXCEPT ![r].log = Append(@, p)] ELSE home
    BY <1>4, <2>1 DEF Binds
  <2>3. hub[p] \in Hubs /\ hub[p].port \in Ports /\ hub[p].at # "unborn" /\ home[r] \in Homes
    BY <1>1, <1>2 DEF Typed, Hubs
  <2>4. home' = [home EXCEPT ![r] = h]
    <3>1. CASE logs
      BY <2>2, <3>1
    <3>2. CASE ~logs
      <4>1. home' = [home EXCEPT ![r] = home[r]]
        BY <1>1, <2>2, <3>2 DEF Typed
      <4> QED BY <3>2, <4>1
    <3> QED BY <3>1, <3>2
  <2>5. /\ h \in Homes /\ h.here = home[r].here /\ h.tokens = home[r].tokens
        /\ h.port = home[r].port /\ h.pid = home[r].pid
        /\ Len(h.log) = Len(home[r].log) \/ Len(h.log) > Len(home[r].log)
    <3>1. CASE logs
      <4>1. home[r].here
        BY <1>1, <2>1, <3>1 DEF Logging, IsHub
      <4> DEFINE l == Append(home[r].log, p)
                 n == [home[r] EXCEPT !.log = l]
      <4>2. l \in Seq(Pids) /\ Len(l) = Len(home[r].log) + 1 /\ Len(home[r].log) \in Nat
        BY <2>3 DEF Homes
      <4> HIDE DEF l
      <4>3. /\ n \in Homes /\ n.here = home[r].here /\ n.tokens = home[r].tokens
            /\ n.port = home[r].port /\ n.pid = home[r].pid /\ n.log = l
        BY <2>3, <4>1, <4>2 DEF Homes
      <4>4. h = n
        BY <3>1 DEF l
      <4> HIDE DEF n, h
      <4>5. Len(h.log) > Len(home[r].log)
        BY <4>2, <4>3, <4>4
      <4> QED BY <4>3, <4>4, <4>5
    <3>2. CASE ~logs
      BY <2>3, <3>2
    <3> QED BY <3>1, <3>2
  <2> HIDE DEF h, logs
  <2>6. at \in {"up", "closing"} /\ at \in Serving /\ at \notin {"write", "record", "open", "bind"}
    BY DEF Serving
  <2> HIDE DEF at
  <2>7. PICK g \in Hubs :
          /\ hub' = [hub EXCEPT ![p] = g] /\ g.at = at /\ g.room = r
          /\ g.port = hub[p].port /\ g.spawned = hub[p].spawned
          /\ g.was = hub[p].was /\ g.misled = hub[p].misled
    BY <1>1, <2>1, <2>2, <2>3, <2>6, BecomesIs
  <2>8. served' \in [Rooms -> SUBSET Ports] /\ cut' \subseteq Pids
    BY <1>1, <1>2, <2>2, <2>3 DEF Typed
  <2>9. /\ hub[p].port \in served'[r] /\ served[r] \subseteq served'[r]
        /\ \A o \in Rooms \ {r} : served'[o] = served[o]
    BY <1>1, <2>2 DEF Typed
  <2>10. hub[p].at \in Serving \ {"check"} /\ hub[p].at \in Serving /\ hub[p].room = r
    BY <1>2, <2>1 DEF Serving
  <2>11. Seen'
    BY <1>1, <2>7, <2>10, SeenKept
  <2>12. Logging'
    <3>1. \A o \in Rooms : home[o].here => home'[o].here
      BY <1>1, <2>4, <2>5 DEF Typed
    <3> QED BY <1>1, <1>2, <2>7, <2>10, <3>1, LoggingKept
  <2>13. Orderly(r) => /\ home[r].tokens /\ home[r].port = hub[p].port /\ home[r].pid = p
                       /\ \A q \in Pids : IsHub(q, r) => q = p
    BY <1>2, <2>1, OnlyOne DEF Orderly, AtHome
  <2>14. calm[r] /\ Orderly(r) =>
           /\ \A q \in Pids : IsHub(q, r) => q = p
           /\ g.at \in Serving =>
                /\ g.spawned \/ g.at \in {"record", "open", "bind", "up", "closing"} =>
                     h.tokens /\ h.port = g.port
                /\ g.at \in {"open", "bind", "up", "closing"} => h.pid = p
                /\ g.at = "write" => h.tokens
           /\ ~g.spawned =>
                IF g.at \in Serving \ {"check", "ensure", "up", "closing"}
                THEN g.was.tokens => g.was.port \in served'[r]
                ELSE h.tokens => h.port \in served'[r]
           /\ g.spawned =>
                /\ h.tokens = home[r].tokens /\ served[r] \subseteq served'[r]
                /\ \/ Len(h.log) = Len(home[r].log)
                   \/ /\ Len(h.log) > Len(home[r].log) /\ h.port \in served'[r]
                      /\ g.at \in {"up", "closing"}
    BY <2>5, <2>6, <2>7, <2>9, <2>13
  <2>15. g.at # "unborn"
    BY <2>6, <2>7
  <2> QED BY <1>2, <2>1, <2>4, <2>5, <2>7, <2>8, <2>9, <2>11, <2>12, <2>14, <2>15, ProcessMoves
<1> QED BY <1>3, <1>4

LEMMA ServeUndoesKeeps ==
    ASSUME LifecycleInv, NEW p \in Pids, ServeUndoes(p) PROVE LifecycleInv'
<1>1. Typed /\ Logging /\ Seen
  BY DEF LifecycleInv, Basics
<1>2. hub[p].at = "undo" /\ UNCHANGED <<cmd, alien, begun, calm>> /\ Becomes(p, "dead")
  BY DEF ServeUndoes
<1>3. PICK r \in Rooms : r = hub[p].room /\ IsHub(p, r) /\ Early(p, r)
  BY <1>1, <1>2, ServingIs DEF Serving
<1>4. hub[p] \in Hubs /\ hub[p].was \in Traces /\ hub[p].at # "unborn" /\ home[r] \in Homes
  BY <1>1, <1>2 DEF Typed, Hubs
<1> DEFINE removes == ~hub[p].spawned
           h == Undone(home[r], hub[p].was, p, removes, FALSE)
<1>5. Puts(r, h)
  BY <1>3 DEF ServeUndoes
<1>6. removes \in BOOLEAN /\ FALSE \in BOOLEAN /\ removes = ~hub[p].spawned
  BY <1>4 DEF Hubs
<1> HIDE DEF removes
<1>7. /\ h \in Homes
      /\ h.tokens => h.port = hub[p].was.port /\ (hub[p].was.tokens \/ ~removes)
      /\ ~removes => h.tokens = home[r].tokens /\ h.log = home[r].log
  <2> DEFINE d == Undone(home[r], hub[p].was, p, TRUE, FALSE)
             e == Undone(home[r], hub[p].was, p, FALSE, FALSE)
  <2>1. /\ d \in Homes
        /\ d.tokens => d.port = hub[p].was.port /\ (hub[p].was.tokens \/ ~TRUE)
    <3>1. TRUE \in BOOLEAN /\ FALSE \in BOOLEAN
      OBVIOUS
    <3> QED BY <1>4, <3>1, UndoneIs, ZenonT(30)
  <2>2. /\ e \in Homes
        /\ e.tokens => e.port = hub[p].was.port /\ (hub[p].was.tokens \/ ~FALSE)
        /\ ~FALSE => e.tokens = home[r].tokens /\ e.log = home[r].log
    <3>1. TRUE \in BOOLEAN /\ FALSE \in BOOLEAN
      OBVIOUS
    <3> QED BY <1>4, <3>1, UndoneIs, ZenonT(30)
  <2>3. CASE removes = TRUE
    <3>1. h = d
      BY <2>3
    <3> HIDE DEF d, h
    <3> QED BY <2>1, <2>3, <3>1
  <2>4. CASE removes = FALSE
    <3>1. h = e
      BY <2>4
    <3> HIDE DEF e, h
    <3> QED BY <2>2, <2>4, <3>1
  <2> QED BY <1>6, <2>3, <2>4
<1> HIDE DEF h
<1>8. /\ served' \in [Rooms -> SUBSET Ports] /\ cut' \subseteq Pids /\ Logging'
      /\ home' = [home EXCEPT ![r] = h] /\ \A o \in Rooms \ {r} : served'[o] = served[o]
      /\ h.tokens => served' = served
  <2>1. hub' = [hub EXCEPT ![p].at = "dead"]
    BY <1>2 DEF Becomes
  <2> QED BY <1>1, <1>5, <1>7, <2>1, PutsIs
<1>9. PICK g \in Hubs :
        /\ hub' = [hub EXCEPT ![p] = g] /\ g.at = "dead" /\ g.room = r
        /\ g.port = hub[p].port /\ g.spawned = hub[p].spawned
        /\ g.was = hub[p].was /\ g.misled = hub[p].misled
  BY <1>1, <1>2, <1>3, <1>4, BecomesIs
<1>10. g.at \notin Serving
  BY <1>9 DEF Serving
<1>11. Seen'
  BY <1>1, <1>9, <1>10, SeenKept
<1>12. Orderly(r) => /\ \A q \in Pids : IsHub(q, r) => q = p
                     /\ hub[p].spawned => home[r].tokens
                     /\ ~hub[p].spawned => RealBefore(r, hub[p].was)
  <2>1. Tries(p, r)
    BY <1>2, <1>3 DEF Tries
  <2> QED BY <1>2, <1>3, <2>1, OnlyOne DEF Orderly, AtHome, Addressed
<1>13. Orderly(r) =>
         /\ ~g.spawned => (h.tokens => h.port \in served'[r])
         /\ g.spawned => /\ h.tokens = home[r].tokens /\ served[r] \subseteq served'[r]
                         /\ Len(h.log) = Len(home[r].log)
  BY <1>6, <1>7, <1>8, <1>9, <1>12 DEF RealBefore
<1>14. calm[r] /\ Orderly(r) =>
         /\ \A q \in Pids : IsHub(q, r) => q = p
         /\ g.at \in Serving =>
              /\ g.spawned \/ g.at \in {"record", "open", "bind", "up", "closing"} =>
                   h.tokens /\ h.port = g.port
              /\ g.at \in {"open", "bind", "up", "closing"} => h.pid = p
              /\ g.at = "write" => h.tokens
         /\ ~g.spawned =>
              IF g.at \in Serving \ {"check", "ensure", "up", "closing"}
              THEN g.was.tokens => g.was.port \in served'[r]
              ELSE h.tokens => h.port \in served'[r]
         /\ g.spawned =>
              /\ h.tokens = home[r].tokens /\ served[r] \subseteq served'[r]
              /\ \/ Len(h.log) = Len(home[r].log)
                 \/ /\ Len(h.log) > Len(home[r].log) /\ h.port \in served'[r]
                    /\ g.at \in {"up", "closing"}
  BY <1>10, <1>12, <1>13
<1>15. g.at # "unborn"
  BY <1>9
<1> QED BY <1>2, <1>3, <1>7, <1>8, <1>9, <1>11, <1>14, <1>15, ProcessMoves

LEMMA ExitsKeeps ==
    ASSUME LifecycleInv, NEW p \in Pids, Exits(p) PROVE LifecycleInv'
<1>1. Typed
  BY DEF LifecycleInv, Basics
<1>2. /\ hub[p].at = "closing" /\ Becomes(p, "dead")
      /\ UNCHANGED <<home, cut, cmd, alien, begun, served, calm>>
  BY DEF Exits
<1>3. PICK r \in Rooms : r = hub[p].room /\ IsHub(p, r)
  BY <1>1, <1>2, ServingIs DEF Serving
<1>4. ~Tries(p, r)
  BY <1>2 DEF Tries, Early
<1>5. calm' \in [Rooms -> BOOLEAN] /\ \A o \in Rooms : calm'[o] => calm[o]
  BY <1>1, <1>2 DEF Typed
<1> QED BY <1>2, <1>3, <1>4, <1>5, Refused

LEMMA CrashKeeps ==
    ASSUME LifecycleInv, NEW p \in Pids, Crash(p) PROVE LifecycleInv'
<1>1. Typed
  BY DEF LifecycleInv, Basics
<1>2. /\ hub[p].at \in Serving /\ Becomes(p, "dead")
      /\ UNCHANGED <<home, cut, cmd, alien, begun, served>>
  BY DEF Crash
<1>3. PICK r \in Rooms : r = hub[p].room /\ IsHub(p, r)
  BY <1>1, <1>2, ServingIs
<1>4. calm' = [calm EXCEPT ![r] = @ /\ (hub[p].spawned \/ hub[p].at \in {"up", "closing"})]
  BY <1>3 DEF Crash
<1>5. hub[p].spawned \in BOOLEAN
  BY <1>1 DEF Typed, Hubs
<1>6. calm' \in [Rooms -> BOOLEAN] /\ \A o \in Rooms : calm'[o] => calm[o]
  BY <1>1, <1>4, <1>5 DEF Typed
<1>7. calm'[r] => (Tries(p, r) => hub[p].spawned)
  BY <1>1, <1>4 DEF Typed, Tries, Early
<1> QED BY <1>2, <1>3, <1>6, <1>7, Refused

-----------------------------------------------------------------------------
(* Other programs, and the steps that change nothing. *)

LEMMA StrangersKeep ==
    ASSUME LifecycleInv, UNCHANGED <<home, cut, cmd, begun, served, calm>>, alien' \subseteq Alien,
           \/ hub' = hub
           \/ \E p \in Pids, at \in {"foreign", "dead"} :
                hub[p].at \in {"dead", "foreign"} /\ Becomes(p, at)
    PROVE  LifecycleInv'
<1>1. Typed /\ Logging /\ Seen /\ Calm
  BY DEF LifecycleInv, Basics
<1>2. /\ hub' \in [Pids -> Hubs]
      /\ \A p \in Pids : hub'[p] = hub[p] \/ (hub[p].at \notin Serving /\ hub'[p].at \notin Serving)
  <2>1. CASE hub' = hub
    BY <1>1, <2>1 DEF Typed
  <2>2. CASE \E p \in Pids, at \in {"foreign", "dead"} :
               hub[p].at \in {"dead", "foreign"} /\ Becomes(p, at)
    <3>1. PICK p \in Pids, at \in {"foreign", "dead"} :
            hub[p].at \in {"dead", "foreign"} /\ hub' = [hub EXCEPT ![p].at = at]
      BY <2>2 DEF Becomes
    <3> DEFINE g == [hub[p] EXCEPT !.at = at]
    <3>2. hub[p] \in Hubs /\ hub[p].at \notin Serving
      BY <1>1, <3>1 DEF Typed, Serving
    <3>3. g \in Hubs /\ g.at = at /\ at \notin Serving
      BY <3>1, <3>2 DEF Hubs, Serving
    <3>4. hub' = [hub EXCEPT ![p] = g]
      BY <3>1
    <3> HIDE DEF g
    <3> QED BY <1>1, <3>2, <3>3, <3>4 DEF Typed
  <2> QED BY <2>1, <2>2
<1>3. Typed'
  BY <1>1, <1>2 DEF Typed
<1>4. \A p \in Pids : hub'[p].at \in Serving => hub'[p] = hub[p]
  BY <1>2
<1>5. Seen'
  BY <1>1, <1>4 DEF Seen, Checked, IsHub
<1>6. Logging'
  BY <1>1, <1>4 DEF Logging
<1>7. ASSUME NEW o \in Rooms, calm'[o] PROVE Orderly(o)'
  <2>1. Orderly(o) /\ home'[o] = home[o] /\ served'[o] = served[o]
    BY <1>1, <1>7 DEF Calm
  <2>2. \A c \in Cmds : cmd'[c] = cmd[c] \/ (~Works(c, o) /\ ~Works(c, o)')
    OBVIOUS
  <2>3. \A p \in Pids : hub'[p] = hub[p] \/ (~IsHub(p, o) /\ ~IsHub(p, o)')
    BY <1>2 DEF IsHub
  <2> QED BY <2>1, <2>2, <2>3, Untouched
<1>8. Calm'
  BY <1>7 DEF Calm
<1> QED BY <1>3, <1>5, <1>6, <1>8 DEF LifecycleInv, Basics

LEMMA OthersKeep ==
    ASSUME LifecycleInv, Others PROVE LifecycleInv'
<1>1. UNCHANGED <<home, cut, cmd, begun, served, calm>>
  BY DEF Others
<1>2. alien \subseteq Alien
  BY DEF LifecycleInv, Basics, Typed
<1>3. alien' \subseteq Alien
  BY <1>2 DEF Others
<1>4. \/ hub' = hub
      \/ \E p \in Pids, at \in {"foreign", "dead"} :
           hub[p].at \in {"dead", "foreign"} /\ Becomes(p, at)
  <2>1. ASSUME NEW p \in Pids, hub[p].at \in {"dead", "foreign"},
               Becomes(p, IF hub[p].at = "dead" THEN "foreign" ELSE "dead")
        PROVE  \E at \in {"foreign", "dead"} : Becomes(p, at)
    BY <2>1
  <2> QED BY <2>1 DEF Others
<1> QED BY <1>1, <1>3, <1>4, StrangersKeep

LEMMA Initially ==
    ASSUME Init PROVE LifecycleInv
<1>1. /\ Empty \in Homes /\ ~Empty.here /\ ~Empty.tokens
      /\ Unborn \in Hubs /\ Unborn.at = "unborn" /\ Unborn.at \notin Serving
      /\ Resting \in Commands /\ Resting.at = "rest"
  BY DEF Empty, Homes, Unborn, Hubs, NoTrace, Traces, Serving, Resting, Commands, Working
<1>2. Typed
  BY <1>1, LifecycleAssumption DEF Init, Typed
<1>3. \A p \in Pids : hub[p].at \notin Serving
  BY <1>1 DEF Init
<1>4. \A c \in Cmds : cmd[c].at = "rest"
  BY <1>1 DEF Init
<1>5. Logging /\ Seen
  BY <1>3 DEF Logging, Seen, Checked, IsHub
<1>6. ASSUME NEW r \in Rooms PROVE Orderly(r)
  <2>1. (\A p \in Pids : ~IsHub(p, r)) /\ (\A c \in Cmds : ~Works(c, r))
    BY <1>3, <1>4 DEF IsHub, Works
  <2>2. Real(r)
    BY <1>1 DEF Init, Real
  <2> QED BY <2>1, <2>2
    DEF Orderly, OneCommand, OneEarly, OneHub, Alone, AtHome, Addressed, Undoable, Early, Tries
<1> QED BY <1>2, <1>5, <1>6 DEF LifecycleInv, Basics, Calm

LEMMA CommandKeeps ==
    ASSUME LifecycleInv, NEW c \in Cmds, Command(c) PROVE LifecycleInv'
BY BeginKeeps, InterruptKeeps, StartKeeps, LookKeeps, EnsureKeeps, WriteKeeps, SpawnKeeps,
   WaitKeeps, DoneKeeps, UndoKeeps, StopKeeps, StopFirstKeeps, DownKeeps, DeleteKeeps, RemoveKeeps
   DEF Command

LEMMA HubKeeps ==
    ASSUME LifecycleInv, NEW p \in Pids, Hub(p) PROVE LifecycleInv'
BY ServeKeeps, ServeChecksKeeps, ServeEnsuresKeeps, ServeWritesKeeps, ServeRecordsKeeps,
   OpensKeeps, BindsKeeps, ServeUndoesKeeps, ExitsKeeps, CrashKeeps
   DEF Hub

\* Every step keeps it.
LEMMA Step ==
    ASSUME LifecycleInv, [Next]_vars PROVE LifecycleInv'
<1>1. CASE UNCHANGED vars
  <2>1. UNCHANGED <<home, cut, cmd, begun, served, calm>> /\ hub' = hub /\ alien' = alien
    BY <1>1 DEF vars
  <2>2. alien' \subseteq Alien
    BY <2>1 DEF LifecycleInv, Basics, Typed
  <2> QED BY <2>1, <2>2, StrangersKeep
<1>2. CASE Next
  BY <1>2, CommandKeeps, HubKeeps, OthersKeep DEF Next
<1> QED BY <1>1, <1>2

-----------------------------------------------------------------------------
(* The theorems. *)

\* What start, serve, stop, restart, delete and /kill keep of the rooms of a machine,
\* however they interleave and whatever dies between two of their steps.
THEOREM Invariant == Spec => []LifecycleInv
<1>1. Init => LifecycleInv
  BY Initially
<1>2. LifecycleInv /\ [Next]_vars => LifecycleInv'
  BY Step
<1> QED BY <1>1, <1>2, PTL DEF Spec

\* Types: a directory that is gone is empty, a process that serves has a room, one
\* that is about to bind has a port of the range.
THEOREM TypesHold == Spec => []TypeOK
<1>1. Typed => TypeOK
  BY DEF Typed, TypeOK, Homes, Hubs, Commands
<1>2. LifecycleInv => TypeOK
  BY <1>1 DEF LifecycleInv, Basics
<1> QED BY <1>2, Invariant, PTL

\* cmd_serve, "fail fast instead of split-brain": two hubs have one room's data open
\* only if the pidfile misled one of them past the scan of the processes.
THEOREM NoSplitUnlessMisled == Spec => []SplitOnlyIfMisled
<1>1. LifecycleInv => SplitOnlyIfMisled
  <2> SUFFICES ASSUME LifecycleInv, NEW p \in Pids, NEW q \in Pids, HasOpen(p), HasOpen(q),
                      hub[p].room = hub[q].room, p # q
               PROVE  hub[p].misled \/ hub[q].misled
    BY DEF SplitOnlyIfMisled
  <2>1. Typed /\ Seen
    BY DEF LifecycleInv, Basics
  <2>2. hub[p].at \in Serving \ {"check"} /\ hub[q].at \in Serving \ {"check"}
    BY DEF HasOpen, Serving
  <2>3. PICK r \in Rooms : r = hub[p].room /\ IsHub(p, r) /\ IsHub(q, r)
    BY <2>1, <2>2, ServingIs
  <2> QED BY <2>1, <2>2, <2>3 DEF Seen, Checked
<1> QED BY <1>1, Invariant, PTL

\* _cofnij_slad_nieudanego_startu: with its commands one by one, a room at rest has an
\* address at which it has listened; no failed start leaves another one behind.
THEOREM AddressesAreReal == Spec => []AddressIsReal
<1>1. LifecycleInv => AddressIsReal
  <2> SUFFICES ASSUME LifecycleInv, NEW r \in Rooms, calm[r], ~Busy(r), home[r].tokens
               PROVE  home[r].port \in served[r]
    BY DEF AddressIsReal
  <2>1. Orderly(r)
    BY DEF LifecycleInv, Calm
  <2>2. \A c \in Cmds : ~Works(c, r)
    BY DEF Busy, Works
  <2>3. \A p \in Pids : ~Tries(p, r)
    BY DEF Busy, Tries, Early
  <2> QED BY <2>1, <2>2, <2>3 DEF Orderly, Addressed, Real
<1> QED BY <1>1, Invariant, PTL

\* cmd_start, cmd_serve and hub_pid: with its commands one by one, the hub of a room
\* that is up is where the config says, and the pidfile leads to it.
THEOREM HubsAreHome == Spec => []HubAtItsAddress
<1>1. LifecycleInv => HubAtItsAddress
  <2> SUFFICES ASSUME LifecycleInv, NEW p \in Pids, hub[p].at = "up", calm[hub[p].room]
               PROVE  /\ home[hub[p].room].tokens /\ home[hub[p].room].port = hub[p].port
                      /\ home[hub[p].room].pid = p
    BY DEF HubAtItsAddress
  <2>1. PICK r \in Rooms : r = hub[p].room /\ IsHub(p, r)
    BY ServingIs DEF LifecycleInv, Basics, Serving
  <2>2. Orderly(r)
    BY <2>1 DEF LifecycleInv, Calm
  <2> QED BY <2>1, <2>2 DEF Orderly, AtHome
<1> QED BY <1>1, Invariant, PTL
=============================================================================
