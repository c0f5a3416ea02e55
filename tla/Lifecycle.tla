------------------------------ MODULE Lifecycle ------------------------------
(***************************************************************************)
(* agentmachi/cli.py: starting, stopping and deleting the rooms of one     *)
(* machine.  A room is a directory; `start` writes its address there,      *)
(* spawns `serve`, and takes the address back unless the child says in     *)
(* serve.log that it listens.  Nothing is locked: commands, children and   *)
(* crashes interleave at every step that reads or writes the disk or looks *)
(* at the processes.                                                       *)
(*                                                                         *)
(* One AGENTMACHI_HOME, one interface; the tokens stand for whatever makes *)
(* the directory a room (tokens, rules, history).                          *)
(***************************************************************************)
EXTENDS Naturals, Sequences, FiniteSets

CONSTANTS
    Rooms,
    Ports,        \* a range of numbers, the first is DEFAULT_PORT
    Pids,
    Cmds,         \* terminals to give commands from
    None,
    Ops,          \* the commands that are given
    Args,         \* the values of --port, 0 for none
    Alien,        \* the ports that other programs may use
    MaxCommands,  \* bound: commands given
    Standalone,   \* serve is also run by hand
    Slow,         \* a start may wait in vain for a child that is alive
    Recycles      \* the number of a dead process may be given to another

ASSUME LifecycleAssumption ==
    /\ Ports \subseteq Nat \ {0} /\ Ports # {} /\ Args \subseteq Ports \cup {0} /\ Alien \subseteq Ports
    /\ Ops \subseteq {"start", "stop", "restart", "delete", "kill"}
    /\ MaxCommands \in Nat /\ None \notin Pids \cup Rooms
    /\ Standalone \in BOOLEAN /\ Slow \in BOOLEAN /\ Recycles \in BOOLEAN

VARIABLES
    home,    \* home[r]: the directory of room r, see Empty
    hub,     \* hub[p]: process p, see Unborn
    cut,     \* processes whose serve.log has been unlinked
    cmd,     \* cmd[c]: the command at terminal c, see Resting
    alien,   \* the ports that other programs use
    begun,   \* commands given
    served,  \* history: the ports that the room has listened on
    calm     \* history: calm[r]: never two commands at work on r, none
             \* interrupted, no start that gave up on a living child

vars == <<home, hub, cut, cmd, alien, begun, served, calm>>

Empty == [here |-> FALSE, tokens |-> FALSE, port |-> 0, pid |-> None, log |-> <<>>]
NoTrace == [tokens |-> FALSE, port |-> 0]
Unborn == [at |-> "unborn", room |-> None, port |-> 0, spawned |-> FALSE,
           term |-> FALSE, was |-> NoTrace, misled |-> FALSE]
Resting == [at |-> "rest", op |-> "stop", room |-> None, arg |-> 0, port |-> 0,
            existed |-> FALSE, was |-> NoTrace, pid |-> None, from |-> 0]

\* The program points of cmd_serve, and of the commands.
Serving == {"check", "ensure", "write", "record", "open", "bind", "up", "closing", "undo"}
Working == {"start", "look", "ensure", "write", "spawn", "wait", "done", "undo",
            "stop", "restart", "down", "delete", "kill", "rm"}

Init ==
    /\ home = [r \in Rooms |-> Empty]
    /\ hub = [p \in Pids |-> Unborn] /\ cut = {}
    /\ cmd = [c \in Cmds |-> Resting]
    /\ alien = {} /\ begun = 0
    /\ served = [r \in Rooms |-> {}] /\ calm = [r \in Rooms |-> TRUE]

-----------------------------------------------------------------------------
(* What a process can find out. *)

Alive(p) == p # None /\ hub[p].at \in Serving \cup {"foreign"}
IsHub(p, r) == p # None /\ hub[p].at \in Serving /\ hub[p].room = r
Taken(q) == q \in alien \/ \E p \in Pids : hub[p].at = "up" /\ hub[p].port = q
Reserved(r, q) == \E o \in Rooms \ {r} : home[o].port = q

\* hub_pid: the pidfile if it names a living process, else a hub of that room that
\* a scan of the processes finds; a pidfile that names a dead one is removed.
HubPids(r, self) ==
    LET found == {p \in Pids \ {self} : IsHub(p, r)}
    IN  IF Alive(home[r].pid) THEN {home[r].pid}
        ELSE IF found = {} THEN {None} ELSE found
Swept(r) ==
    [home EXCEPT ![r].pid = IF Alive(@) THEN @ ELSE None]

\* ensure_hub, up to the config: refused, kept as it is, or to be written; `moves`
\* is the explicit port that start puts an existing room at.
FreeFrom(r, q) == {k \in Ports : k >= q /\ ~Reserved(r, k)}
First(S) == CHOOSE q \in S : \A k \in S : q <= k
Writes(r, port, moves) == home[r].port = 0 \/ (moves /\ home[r].port # port)
RefusesAddress(r, port, explicit, moves) ==
    \/ explicit /\ Writes(r, port, moves) /\ Reserved(r, port)
    \/ ~explicit /\ home[r].port = 0 /\ FreeFrom(r, port) = {}
AddressAsAsked(r, port, explicit, moves) ==
    IF explicit THEN port
    ELSE IF home[r].port # 0 THEN home[r].port ELSE First(FreeFrom(r, port))
Address(r, port, explicit, moves) ==
    IF ~Writes(r, port, moves) THEN home[r].port
    ELSE IF explicit THEN port ELSE First(FreeFrom(r, port))
WithTokens(r) == [home EXCEPT ![r].here = TRUE, ![r].tokens = TRUE]

\* _migawka_adresu, and _cofnij_slad_nieudanego_startu: h as it is after the
\* address is taken back.  A room that was none is removed again (`removes`), but
\* for its serve.log (`keeps`).
Trace(r) == [tokens |-> home[r].tokens, port |-> home[r].port]
UndoneInPlace(h, was, pid, removes, keeps) ==
    IF ~h.here THEN h
    ELSE [h EXCEPT !.pid = IF @ = pid THEN None ELSE @, !.port = was.port]
Undone(h, was, pid, removes, keeps) ==
    IF ~h.here THEN h
    ELSE IF was.tokens \/ ~removes
         THEN [h EXCEPT !.pid = IF @ = pid THEN None ELSE @, !.port = was.port]
    ELSE IF keeps THEN [Empty EXCEPT !.here = TRUE, !.log = h.log]
    ELSE Empty
\* What is unlinked on the way, and what is then forgotten of the room.
Puts(r, h) ==
    /\ home' = [home EXCEPT ![r] = h]
    /\ cut' = IF h.here THEN cut ELSE cut \cup {p \in Pids : hub[p].room = r}
    /\ served' = IF h.tokens THEN served ELSE [served EXCEPT ![r] = {}]

-----------------------------------------------------------------------------
(* Commands. *)

Goes(c, at) == cmd' = [cmd EXCEPT ![c].at = at]
Ends(c) == cmd' = [cmd EXCEPT ![c] = Resting]

\* Somebody is at work on the room.
Busy(r) ==
    \/ \E c \in Cmds : cmd[c].at # "rest" /\ cmd[c].room = r
    \/ \E p \in Pids : IsHub(p, r) /\ hub[p].at \notin {"up", "closing"}

Begin(c) ==
    /\ cmd[c].at = "rest" /\ begun < MaxCommands
    /\ begun' = begun + 1
    /\ \E op \in Ops, r \in Rooms :
         /\ \E arg \in IF op \in {"start", "restart"} THEN Args ELSE {0} :
              cmd' = [cmd EXCEPT ![c] = [Resting EXCEPT !.at = op, !.op = op, !.room = r, !.arg = arg]]
         /\ calm' = [calm EXCEPT ![r] = @ /\ ~Busy(r)]
    /\ UNCHANGED <<home, hub, cut, alien, served>>

Interrupt(c) ==
    /\ cmd[c].at # "rest"
    /\ Ends(c)
    /\ calm' = [calm EXCEPT ![cmd[c].room] = FALSE]
    /\ UNCHANGED <<home, hub, cut, alien, begun, served>>

\* cmd_start: is it running?
Start(c) ==
    LET r == cmd[c].room IN
    /\ cmd[c].at = "start"
    /\ home' = Swept(r)
    /\ \E p \in HubPids(r, None) : IF IsHub(p, r) THEN Ends(c) ELSE Goes(c, "look")
    /\ UNCHANGED <<hub, cut, alien, begun, served, calm>>

\* The state to come back to, and a port that nobody listens on.
Look(c) ==
    LET r == cmd[c].room
        existed == home[r].port # 0
        wanted == IF cmd[c].arg # 0 THEN cmd[c].arg
                  ELSE IF existed THEN home[r].port ELSE First(Ports)
        others == {q \in FreeFrom(r, wanted) : ~Taken(q)}
        sees(q) == cmd' = [cmd EXCEPT ![c] = [@ EXCEPT !.at = "ensure", !.port = q,
                                                       !.existed = existed, !.was = Trace(r)]]
    IN  /\ cmd[c].at = "look"
        /\ \/ ~Taken(wanted) /\ sees(wanted)
           \/ Taken(wanted) /\ ~existed /\ cmd[c].arg = 0 /\ others # {} /\ sees(First(others))
           \/ Taken(wanted) /\ (existed \/ cmd[c].arg # 0 \/ others = {}) /\ Ends(c)
        /\ UNCHANGED <<home, hub, cut, alien, begun, served, calm>>

Ensure(c) ==
    LET r == cmd[c].room
        port == cmd[c].port
        explicit == cmd[c].arg # 0
        moves == explicit /\ cmd[c].existed
    IN  /\ cmd[c].at = "ensure"
        /\ IF RefusesAddress(r, port, explicit, moves)
           THEN Ends(c) /\ UNCHANGED home
           ELSE /\ home' = WithTokens(r)
                /\ cmd' = [cmd EXCEPT ![c].at = IF Writes(r, port, moves) THEN "write" ELSE "spawn",
                                      ![c].port = Address(r, port, explicit, moves)]
        /\ UNCHANGED <<hub, cut, alien, begun, served, calm>>
Write(c) ==
    /\ cmd[c].at = "write"
    /\ IF home[cmd[c].room].here
       THEN home' = [home EXCEPT ![cmd[c].room].port = cmd[c].port] /\ Goes(c, "spawn")
       ELSE Ends(c) /\ UNCHANGED home
    /\ UNCHANGED <<hub, cut, alien, begun, served, calm>>

\* _spawn_detached
Fresh == {p \in Pids : hub[p].at = "unborn" \/ (Recycles /\ hub[p].at = "dead")}
Born(p, r, port, spawned) ==
    /\ hub' = [hub EXCEPT ![p] = [Unborn EXCEPT !.at = "check", !.room = r,
                                                !.port = port, !.spawned = spawned]]
    /\ cut' = cut \ {p}
Spawn(c) ==
    LET r == cmd[c].room IN
    /\ cmd[c].at = "spawn"
    /\ IF home[r].here
       THEN \E p \in Fresh :
              /\ Born(p, r, cmd[c].port, TRUE)
              /\ cmd' = [cmd EXCEPT ![c].at = "wait", ![c].pid = p, ![c].from = Len(home[r].log)]
       ELSE Ends(c) /\ UNCHANGED <<hub, cut>>
    /\ UNCHANGED <<home, alien, begun, served, calm>>

\* _wait_until_listening: a line in serve.log since then, or the child is dead, or
\* time is up.
Listens(c) == Len(home[cmd[c].room].log) > cmd[c].from
Wait(c) ==
    LET r == cmd[c].room IN
    /\ cmd[c].at = "wait"
    /\ \/ Listens(c) /\ Goes(c, "done") /\ UNCHANGED calm
       \/ ~Listens(c) /\ ~Alive(cmd[c].pid) /\ Goes(c, "undo") /\ UNCHANGED calm
       \/ ~Listens(c) /\ Slow /\ Goes(c, "undo") /\ calm' = [calm EXCEPT ![r] = FALSE]
    /\ UNCHANGED <<home, hub, cut, alien, begun, served>>
Done(c) ==
    LET r == cmd[c].room IN
    /\ cmd[c].at = "done"
    /\ home' = [home EXCEPT ![r].pid = IF home[r].here THEN cmd[c].pid ELSE @]
    /\ Ends(c)
    /\ UNCHANGED <<hub, cut, alien, begun, served, calm>>
Undo(c) ==
    LET r == cmd[c].room IN
    /\ cmd[c].at = "undo"
    /\ Puts(r, Undone(home[r], cmd[c].was, cmd[c].pid, TRUE, TRUE))
    /\ Ends(c)
    /\ UNCHANGED <<hub, alien, begun, calm>>

\* SIGTERM: serve has a handler once it is about to bind.
Terminated(h) ==
    CASE h.at = "up" -> [h EXCEPT !.at = "closing"]
      [] h.at = "bind" -> [h EXCEPT !.term = TRUE]
      [] h.at = "closing" -> h
      [] OTHER -> [h EXCEPT !.at = "dead"]

\* stop_hub
Stop(c) ==
    LET r == cmd[c].room IN
    /\ cmd[c].at = "stop"
    /\ home' = Swept(r)
    /\ \E p \in HubPids(r, None) :
         hub' = IF IsHub(p, r) THEN [hub EXCEPT ![p] = Terminated(@)] ELSE hub
    /\ Ends(c)
    /\ UNCHANGED <<cut, alien, begun, served, calm>>

\* cmd_restart, and /kill of the TUI: stop, wait until it is down, go on.
StopFirst(c) ==
    LET r == cmd[c].room IN
    /\ cmd[c].at \in {"restart", "kill"}
    /\ IF cmd[c].arg # 0 /\ Reserved(r, cmd[c].arg)
       THEN Ends(c) /\ UNCHANGED <<home, hub>>
       ELSE /\ home' = Swept(r)
            /\ \E p \in HubPids(r, None) :
                 IF IsHub(p, r)
                 THEN /\ hub' = [hub EXCEPT ![p] = Terminated(@)]
                      /\ cmd' = [cmd EXCEPT ![c].at = "down", ![c].pid = p]
                 ELSE /\ Goes(c, IF cmd[c].op = "restart" THEN "start" ELSE "delete")
                      /\ UNCHANGED hub
    /\ UNCHANGED <<cut, alien, begun, served, calm>>
Down(c) ==
    LET r == cmd[c].room IN
    /\ cmd[c].at = "down"
    /\ \/ /\ ~Alive(cmd[c].pid)
          /\ IF cmd[c].op = "restart"
             THEN home' = [home EXCEPT ![r].pid = None] /\ Goes(c, "start")
             ELSE UNCHANGED home /\ Goes(c, "delete")
       \/ Alive(cmd[c].pid) /\ UNCHANGED home /\ Ends(c)
    /\ UNCHANGED <<hub, cut, alien, begun, served, calm>>

\* delete_hub
Delete(c) ==
    LET r == cmd[c].room IN
    /\ cmd[c].at = "delete"
    /\ home' = Swept(r)
    /\ \E p \in HubPids(r, None) :
         IF home[r].here /\ ~IsHub(p, r) THEN Goes(c, "rm") ELSE Ends(c)
    /\ UNCHANGED <<hub, cut, alien, begun, served, calm>>
Remove(c) ==
    /\ cmd[c].at = "rm"
    /\ Puts(cmd[c].room, Empty)
    /\ Ends(c)
    /\ UNCHANGED <<hub, alien, begun, calm>>

Command(c) ==
    \/ Begin(c) \/ Interrupt(c)
    \/ Start(c) \/ Look(c) \/ Ensure(c) \/ Write(c) \/ Spawn(c) \/ Wait(c) \/ Done(c) \/ Undo(c)
    \/ Stop(c) \/ StopFirst(c) \/ Down(c) \/ Delete(c) \/ Remove(c)

-----------------------------------------------------------------------------
(* cmd_serve *)

Becomes(p, at) == hub' = [hub EXCEPT ![p].at = at]

Serve(p, r) ==
    /\ Standalone /\ p \in Fresh /\ begun < MaxCommands
    /\ begun' = begun + 1
    /\ \E arg \in Args : Born(p, r, arg, FALSE)
    /\ calm' = [calm EXCEPT ![r] = @ /\ ~Busy(r)]
    /\ UNCHANGED <<home, cmd, alien, served>>

\* Fail fast if another hub of this room is alive, before anything else.
ServeChecksPidfile(p) ==
    LET r == hub[p].room
        q == IF Alive(home[r].pid) THEN home[r].pid ELSE None
        other == q # p /\ IsHub(q, r)
    IN  /\ hub[p].at = "check"
        /\ home' = Swept(r)
        /\ hub' = [hub EXCEPT ![p].at = IF other THEN "dead" ELSE "ensure",
                              ![p].misled = q # None /\ ~other]
        /\ UNCHANGED <<cut, cmd, alien, begun, served, calm>>
ServeChecks(p) ==
    LET r == hub[p].room IN
    /\ hub[p].at = "check"
    /\ home' = Swept(r)
    /\ \E q \in HubPids(r, p) :
         LET other == q # p /\ IsHub(q, r)
         IN  hub' = [hub EXCEPT ![p].at = IF other THEN "dead" ELSE "ensure",
                                ![p].misled = q # None /\ ~other]
    /\ UNCHANGED <<cut, cmd, alien, begun, served, calm>>
ServeEnsures(p) ==
    LET r == hub[p].room
        explicit == hub[p].port # 0
        port == IF explicit THEN hub[p].port ELSE First(Ports)
    IN  /\ hub[p].at = "ensure"
        /\ IF RefusesAddress(r, port, explicit, FALSE)
           THEN Becomes(p, "dead") /\ UNCHANGED home
           ELSE /\ home' = WithTokens(r)
                /\ hub' = [hub EXCEPT ![p].at = IF home[r].port = 0 THEN "write" ELSE "record",
                                      ![p].port = Address(r, port, explicit, FALSE),
                                      ![p].was = Trace(r)]
        /\ UNCHANGED <<cut, cmd, alien, begun, served, calm>>
ServeWrites(p) ==
    LET r == hub[p].room IN
    /\ hub[p].at = "write"
    /\ IF home[r].here
       THEN home' = [home EXCEPT ![r].port = hub[p].port] /\ Becomes(p, "record")
       ELSE Becomes(p, "dead") /\ UNCHANGED home
    /\ UNCHANGED <<cut, cmd, alien, begun, served, calm>>
ServeRecords(p) ==
    LET r == hub[p].room IN
    /\ hub[p].at = "record"
    /\ IF home[r].here
       THEN home' = [home EXCEPT ![r].pid = p]
            /\ Becomes(p, IF home[r].tokens THEN "open" ELSE "dead")
       ELSE Becomes(p, "dead") /\ UNCHANGED home
    /\ UNCHANGED <<cut, cmd, alien, begun, served, calm>>

\* server_main: the tokens and the log are opened, then the port is bound.
Opens(p) ==
    /\ hub[p].at = "open"
    /\ Becomes(p, IF home[hub[p].room].tokens THEN "bind" ELSE "undo")
    /\ UNCHANGED <<home, cut, cmd, alien, begun, served, calm>>
Binds(p) ==
    LET r == hub[p].room IN
    /\ hub[p].at = "bind"
    /\ IF Taken(hub[p].port)
       THEN Becomes(p, "undo") /\ UNCHANGED <<home, served>>
       ELSE /\ Becomes(p, IF hub[p].term THEN "closing" ELSE "up")
            /\ served' = [served EXCEPT ![r] = @ \cup {hub[p].port}]
            /\ home' = IF hub[p].spawned /\ p \notin cut
                       THEN [home EXCEPT ![r].log = Append(@, p)] ELSE home
    /\ UNCHANGED <<cut, cmd, alien, begun, calm>>
ServeUndoes(p) ==
    LET r == hub[p].room IN
    /\ hub[p].at = "undo"
    /\ Puts(r, Undone(home[r], hub[p].was, p, ~hub[p].spawned, FALSE))
    /\ Becomes(p, "dead")
    /\ UNCHANGED <<cmd, alien, begun, calm>>

\* stop is through: the snapshot is saved.
Exits(p) ==
    /\ hub[p].at = "closing"
    /\ Becomes(p, "dead")
    /\ UNCHANGED <<home, cut, cmd, alien, begun, served, calm>>

Crash(p) ==
    /\ hub[p].at \in Serving
    /\ Becomes(p, "dead")
    /\ calm' = [calm EXCEPT ![hub[p].room] = @ /\ (hub[p].spawned \/ hub[p].at \in {"up", "closing"})]
    /\ UNCHANGED <<home, cut, cmd, alien, begun, served>>

Hub(p) ==
    \/ \E r \in Rooms : Serve(p, r)
    \/ ServeChecks(p) \/ ServeEnsures(p) \/ ServeWrites(p) \/ ServeRecords(p)
    \/ Opens(p) \/ Binds(p) \/ ServeUndoes(p) \/ Exits(p) \/ Crash(p)

\* Other programs come and go; they take ports, and the numbers of dead processes.
Others ==
    /\ \/ \E q \in Alien : /\ ~Taken(q) \/ q \in alien
                           /\ alien' = IF q \in alien THEN alien \ {q} ELSE alien \cup {q}
                           /\ UNCHANGED hub
       \/ \E p \in Pids : /\ Recycles /\ hub[p].at \in {"dead", "foreign"}
                          /\ Becomes(p, IF hub[p].at = "dead" THEN "foreign" ELSE "dead")
                          /\ UNCHANGED alien
    /\ UNCHANGED <<home, cut, cmd, begun, served, calm>>

Next == (\E c \in Cmds : Command(c)) \/ (\E p \in Pids : Hub(p)) \/ Others

Spec == Init /\ [][Next]_vars

-----------------------------------------------------------------------------
(* Properties. *)

\* The type invariant.
TypeOK ==
    /\ \A r \in Rooms :
         /\ home[r].port \in Ports \cup {0} /\ home[r].pid \in Pids \cup {None}
         /\ home[r].log \in Seq(Pids)
         /\ ~home[r].here => home[r] = Empty
         /\ served[r] \subseteq Ports
    /\ \A p \in Pids :
         /\ hub[p].at \in Serving \cup {"unborn", "dead", "foreign"}
         /\ hub[p].at \notin {"unborn", "foreign"} => hub[p].room \in Rooms
         /\ hub[p].at \in {"record", "open", "bind", "up"} => hub[p].port \in Ports
    /\ \A c \in Cmds :
         /\ cmd[c].at \in Working \cup {"rest"}
         /\ cmd[c].at # "rest" => cmd[c].room \in Rooms
         /\ cmd[c].at \in {"wait", "done", "undo", "down"} => cmd[c].pid \in Pids
    /\ cut \subseteq Pids /\ alien \subseteq Alien /\ begun \in 0..MaxCommands

\* Where two hubs have one room's data open, the pidfile misled one of them when it
\* looked for others: it named that hub itself, or a stranger, and the processes were
\* not scanned.  Whatever was started at once, killed, deleted or moved meanwhile, the
\* check of cmd_serve ("fail fast instead of split-brain") fails in no other way.
HasOpen(p) == hub[p].at \in {"bind", "up", "closing"}
SplitOnlyIfMisled ==
    \A p, q \in Pids :
        HasOpen(p) /\ HasOpen(q) /\ hub[p].room = hub[q].room /\ p # q
        => hub[p].misled \/ hub[q].misled

\* No address outlives the attempt to start at it: what the config of a room says
\* when nobody is at work on it is an address at which the room has listened
\* (_cofnij_slad_nieudanego_startu), while commands on it come one by one.
AddressIsReal ==
    \A r \in Rooms :
        calm[r] /\ ~Busy(r) /\ home[r].tokens => home[r].port \in served[r]

\* A running hub is where the config says, and the pidfile leads to it, although
\* starts at other addresses fail and children die, one command after the other.
HubAtItsAddress ==
    \A p \in Pids :
        LET r == hub[p].room IN
        hub[p].at = "up" /\ calm[r] =>
            /\ home[r].tokens /\ home[r].port = hub[p].port
            /\ Busy(r) \/ home[r].pid = p
=============================================================================
