-------------------------------- MODULE Views --------------------------------
(***************************************************************************)
(* What others make of one agent, T: its row in the TUI of a human, H, and *)
(* the groups by which its own wake filter (listen --wake) judges a call   *)
(* to a group.  Both are copies that the hub keeps up to date: with every  *)
(* hello by a snapshot, in between by frames, some of which are in the log *)
(* (kick, membership_set) and some not (presence, the ok to a command).    *)
(*                                                                         *)
(* The numbers of hello frames are left out of the log: nothing of them is *)
(* sent.  T has one group to be in, and one machine; what a takeover does  *)
(* to the routing is the subject of HubSessions.                           *)
(***************************************************************************)
EXTENDS Naturals, Sequences, FiniteSets, SequencesExt

CONSTANTS
    MaxLog,     \* bound: frames in the log
    MaxHellos,  \* bound: hellos of each
    MaxUnread,  \* bound: frames by which a client lags behind when others act
    MaxFaults   \* bound: lost connections, and commands whose sender is slow or gone

ASSUME ViewsAssumption ==
    /\ MaxLog \in Nat /\ MaxHellos \in Nat /\ MaxUnread \in Nat /\ MaxFaults \in Nat

Clients == {"H", "T"}

VARIABLES
    log,       \* kicks of T, changes of its groups, and calls to the group
    boundary,  \* snapshot_seq
    member,    \* T is in the group
    sock,      \* each client's connection: "none", "greeting" until the hello has
               \* been answered, "live", or "closing" after a kick
    dead,      \* sockets that have gone and are still in conns
    greeted,   \* what the handler of a hello remembers
    wire,      \* sent on the connection and not read
    cursor,    \* Session.last_applied_seq
    tui,       \* the row of T
    filter,    \* the wake filter takes T for a member
    waiting,   \* changes whose handler waits for its ack to be sent
    hellos, faults,
    joined,    \* history: the end of the log in the reply a client read last
    untold,    \* history: changes that nobody was told of
    late,      \* history: changes told of after a frame that was logged behind them
    slept      \* history: calls that were for T and did not wake it

hub == <<log, boundary, member, dead, greeted, waiting, untold, late>>
views == <<cursor, tui, filter, joined, slept>>
vars == <<hub, views, sock, wire, hellos, faults>>

NotGreeted == [end |-> 0, member |-> FALSE]
NoRow == [there |-> FALSE, connected |-> FALSE, group |-> FALSE]

Init ==
    /\ log = <<>> /\ boundary = 0
    /\ member \in BOOLEAN
    /\ sock = [c \in Clients |-> "none"]
    /\ dead = [c \in Clients |-> 0]
    /\ greeted = [c \in Clients |-> NotGreeted]
    /\ wire = [c \in Clients |-> <<>>]
    /\ cursor = [c \in Clients |-> 0]
    /\ tui = [row |-> NoRow, lost |-> {}]
    /\ filter = FALSE
    /\ waiting = {}
    /\ hellos = [c \in Clients |-> 0] /\ faults = 0
    /\ joined = [c \in Clients |-> 0]
    /\ untold = {} /\ late = {} /\ slept = {}

-----------------------------------------------------------------------------
(* The hub. *)

Routed(c) == sock[c] \in {"greeting", "live"}
Connected(c) == Routed(c) \/ dead[c] > 0

\* _send, to each client what Frames says
Sent(Frames(_)) == [c \in Clients |-> IF Routed(c) THEN wire[c] \o Frames(c) ELSE wire[c]]

\* Nobody lags further behind than the bound says.
Abreast == \A c \in Clients : Len(wire[c]) < MaxUnread

Event(k) == [type |-> "event", seq |-> k]
Presence(on) == [type |-> "presence", connected |-> on]

\* A hello with the client's cursor: the reply has a backlog, or after a
\* compaction the state and the talk; a resync may take a snapshot of its own.
Hello(c) ==
    /\ Abreast
    /\ sock[c] = "none" /\ hellos[c] < MaxHellos
    /\ hellos' = [hellos EXCEPT ![c] = @ + 1]
    /\ boundary' \in {boundary} \cup (IF cursor[c] < boundary THEN {Len(log)} ELSE {})
    /\ sock' = [sock EXCEPT ![c] = "greeting"]
    /\ greeted' = [greeted EXCEPT ![c] = [end |-> Len(log), member |-> member]]
    /\ wire' = [wire EXCEPT ![c] =
                   <<[type |-> "reply", resync |-> cursor[c] < boundary,
                      after |-> cursor[c], end |-> Len(log),
                      member |-> member, connected |-> Connected("T")]>>]
    /\ UNCHANGED <<views, log, member, dead, waiting, untold, late, faults>>

\* _bylby_adresatem
Audience(c, e) ==
    \/ e.type = "kick"
    \/ e.type = "call" /\ (c = "H" \/ greeted[c].member)

\* The reply has gone out: what was logged meanwhile is sent again, and the
\* humans are told.
EndGreeting(c) ==
    LET missed == {k \in DOMAIN log : k > greeted[c].end /\ Audience(c, log[k])}
        again == IF greeted[c].end < boundary THEN <<>>
                 ELSE SetToSortSeq({Event(k) : k \in missed}, LAMBDA d, e : d.seq < e.seq)
        online == IF c = "T" THEN <<Presence(TRUE)>> ELSE <<>>
        frames(d) == (IF d = c THEN again ELSE <<>>) \o (IF d = "H" THEN online ELSE <<>>)
    IN
    /\ Abreast
    /\ sock[c] = "greeting"
    /\ sock' = [sock EXCEPT ![c] = "live"]
    /\ greeted' = [greeted EXCEPT ![c] = NotGreeted]
    /\ wire' = Sent(frames)
    /\ UNCHANGED <<views, log, boundary, member, dead, waiting, untold, late, hellos, faults>>

\* The handler of a connection that has gone: the humans are told when it was
\* the last one of its nick.
LeaveAloud(c) ==
    LET frames(d) == IF c = "T" /\ d = "H" THEN <<Presence(FALSE)>> ELSE <<>>
    IN
    /\ Abreast
    /\ dead[c] > 0
    /\ dead' = [dead EXCEPT ![c] = @ - 1]
    /\ wire' = Sent(frames)
    /\ UNCHANGED <<views, log, boundary, member, greeted, waiting, untold, late, sock, hellos, faults>>
Leave(c) ==
    LET last == c = "T" /\ dead[c] = 1 /\ ~Routed(c)
        frames(d) == IF last /\ d = "H" THEN <<Presence(FALSE)>> ELSE <<>>
    IN
    /\ Abreast
    /\ dead[c] > 0
    /\ dead' = [dead EXCEPT ![c] = @ - 1]
    /\ wire' = Sent(frames)
    /\ UNCHANGED <<views, log, boundary, member, greeted, waiting, untold, late, sock, hellos, faults>>

Compact ==
    /\ Abreast
    /\ boundary = 0 /\ log # <<>>
    /\ boundary' = Len(log)
    /\ UNCHANGED <<views, log, member, dead, greeted, waiting, untold, late, sock, wire, hellos, faults>>

Logs(e) ==
    /\ Abreast
    /\ Len(log) < MaxLog
    /\ log' = Append(log, e)
    /\ late' = late \cup {w.seq : w \in waiting}
Next_seq == Len(log) + 1

\* A chat that names the group.
Call ==
    LET frames(c) == IF c = "H" \/ member THEN <<Event(Next_seq)>> ELSE <<>>
    IN
    /\ Logs([type |-> "call", member |-> member])
    /\ wire' = Sent(frames)
    /\ UNCHANGED <<views, boundary, member, dead, greeted, waiting, untold, sock, hellos, faults>>

\* Everybody but T is told, then T's connection is closed.
Kick ==
    LET frames(c) == IF c = "H" THEN <<Event(Next_seq)>> ELSE <<>>
    IN
    /\ hellos["T"] > 0
    /\ Logs([type |-> "kick"])
    /\ wire' = Sent(frames)
    /\ sock' = [sock EXCEPT !["T"] = IF Routed("T") THEN "closing" ELSE @]
    /\ dead' = [dead EXCEPT !["T"] = IF Routed("T") THEN @ + 1 ELSE @]
    /\ greeted' = [greeted EXCEPT !["T"] = NotGreeted]
    /\ UNCHANGED <<views, boundary, member, waiting, untold, hellos, faults>>

\* T and the humans are told of change k; the human who made it had the ok.
ToldTarget(k, by, ok) ==
    LET frames(c) == (IF c = "H" /\ by = "H" THEN ok ELSE <<>>)
                     \o (IF c = "T" THEN <<Event(k)>> ELSE <<>>)
    IN  Sent(frames)
Told(k, by, ok) ==
    LET frames(c) == (IF c = "H" /\ by = "H" THEN ok ELSE <<>>)
                     \o (IF c = "T" \/ by # "H" THEN <<Event(k)>> ELSE <<>>)
    IN  Sent(frames)
Acked(by, ok) ==
    LET frames(c) == IF c = "H" /\ by = "H" THEN ok ELSE <<>>
    IN  Sent(frames)

\* membership_set, one that changes something: logged and applied, then acked
\* to its sender, and only then sent to T and to the humans.
SetGroups(by, in, slow) ==
    LET ok == <<[type |-> "ok", member |-> in]>>
    IN
    /\ by = "H" => sock["H"] = "live"
    /\ in # member
    /\ slow => faults < MaxFaults
    /\ faults' = IF slow THEN faults + 1 ELSE faults
    /\ Logs([type |-> "groups", member |-> in])
    /\ member' = in
    /\ waiting' = IF slow THEN waiting \cup {[seq |-> Next_seq, by |-> by]} ELSE waiting
    /\ wire' = IF slow THEN Acked(by, ok) ELSE Told(Next_seq, by, ok)
    /\ UNCHANGED <<views, boundary, dead, greeted, untold, sock, hellos>>

AckEnds(w) ==
    /\ Abreast
    /\ w \in waiting
    /\ waiting' = waiting \ {w}
    /\ wire' = Told(w.seq, w.by, <<>>)
    /\ UNCHANGED <<views, log, boundary, member, dead, greeted, untold, late, sock, hellos, faults>>

\* The ack raises, because the sender is gone: nobody is told.
SetGroupsUntold(in) ==
    /\ in # member /\ faults < MaxFaults
    /\ faults' = faults + 1
    /\ Logs([type |-> "groups", member |-> in])
    /\ member' = in
    /\ untold' = untold \cup {Next_seq}
    /\ UNCHANGED <<views, boundary, dead, greeted, waiting, sock, wire, hellos>>

-----------------------------------------------------------------------------
(* The connections. *)

Break(c) ==
    /\ Abreast
    /\ Routed(c) /\ faults < MaxFaults
    /\ faults' = faults + 1
    /\ sock' = [sock EXCEPT ![c] = "none"]
    /\ dead' = [dead EXCEPT ![c] = @ + 1]
    /\ greeted' = [greeted EXCEPT ![c] = NotGreeted]
    /\ wire' = [wire EXCEPT ![c] = <<>>]
    /\ UNCHANGED <<views, log, boundary, member, waiting, untold, late, hellos>>

\* listen ends on the close of a kick; its agent may start it again.
Kicked ==
    /\ sock["T"] = "closing" /\ wire["T"] = <<>>
    /\ sock' = [sock EXCEPT !["T"] = "none"]
    /\ UNCHANGED <<hub, views, wire, hellos, faults>>

-----------------------------------------------------------------------------
(* The TUI: apply_hub_frame. *)

\* setdefault: a frame about a nick without a row makes one, of no group.
WithRow(row) == [row EXCEPT !.there = TRUE]

\* What the log says, live or in a backlog.
Shown(row, e) ==
    CASE e.type = "kick" -> NoRow
      [] e.type = "groups" -> [WithRow(row) EXCEPT !.group = e.member]
      [] OTHER -> row

\* Kicks pop the row; lost is what a later frame has not said again.
Lost(lost, e, replayed) ==
    CASE e.type = "kick" -> {"group"} \cup (IF replayed THEN {"connected"} ELSE {})
      [] e.type = "groups" -> lost \ {"group"}
      [] OTHER -> lost
ShowEvent(view, e, replayed) ==
    [row |-> Shown(view.row, e), lost |-> Lost(view.lost, e, replayed)]

\* The roster first, then the backlog through the cursor or the talk as it is.
Replayed(m) ==
    LET window == SubSeq(log, m.after + 1, m.end)
    IN  IF m.resync THEN SelectSeq(window, LAMBDA e : e.type # "groups") ELSE window
ShowReply(m) ==
    FoldLeft(LAMBDA view, e : ShowEvent(view, e, TRUE),
             [row |-> [there |-> TRUE, connected |-> m.connected, group |-> m.member],
              lost |-> {}],
             Replayed(m))

Later(a, b) == IF a >= b THEN a ELSE b
Reads(c) == sock[c] # "none" /\ wire[c] # <<>>
Rest(c) == wire' = [wire EXCEPT ![c] = Tail(@)]

ReadH ==
    LET m == Head(wire["H"])
        new == m.type = "event" => m.seq > cursor["H"]
        seq == CASE m.type = "event" -> m.seq [] m.type = "reply" -> m.end [] OTHER -> 0
    IN
    /\ Reads("H")
    /\ tui' =
         CASE m.type = "reply" -> ShowReply(m)
           [] m.type = "event" /\ new -> ShowEvent(tui, log[m.seq], FALSE)
           [] m.type = "presence" ->
                [row |-> [WithRow(tui.row) EXCEPT !.connected = m.connected],
                 lost |-> tui.lost \ {"connected"}]
           [] m.type = "ok" ->
                [row |-> [WithRow(tui.row) EXCEPT !.group = m.member],
                 lost |-> tui.lost \ {"group"}]
           [] OTHER -> tui
    /\ cursor' = [cursor EXCEPT !["H"] = Later(@, seq)]
    /\ joined' = IF m.type = "reply" THEN [joined EXCEPT !["H"] = m.end] ELSE joined
    /\ Rest("H")
    /\ UNCHANGED <<hub, filter, slept, sock, hellos, faults>>

-----------------------------------------------------------------------------
(* The wake filter: decyduj, behind the listener and its cursor. *)

\* session_metadata, then the changes in the backlog.
FilterAfter(m) ==
    FoldLeft(LAMBDA in, e : IF e.type = "groups" THEN e.member ELSE in, m.member, Replayed(m))

OnChangeIgnored(e) == filter
OnChange(e) == IF e.type = "groups" THEN e.member ELSE filter

ReadT ==
    LET m == Head(wire["T"])
        new == m.type = "event" /\ m.seq > cursor["T"]
        sleeps == new /\ log[m.seq].type = "call" /\ log[m.seq].member /\ ~filter
    IN
    /\ Reads("T")
    /\ filter' = IF m.type = "reply" THEN FilterAfter(m)
                 ELSE IF new THEN OnChange(log[m.seq]) ELSE filter
    /\ cursor' = [cursor EXCEPT !["T"] = Later(@, IF m.type = "reply" THEN m.end ELSE m.seq)]
    /\ joined' = IF m.type = "reply" THEN [joined EXCEPT !["T"] = m.end] ELSE joined
    /\ slept' = IF sleeps THEN slept \cup {[call |-> m.seq, joined |-> joined["T"]]} ELSE slept
    /\ Rest("T")
    /\ UNCHANGED <<hub, tui, sock, hellos, faults>>

Next ==
    \/ \E c \in Clients : Hello(c) \/ EndGreeting(c) \/ Leave(c) \/ Break(c)
    \/ Compact \/ Call \/ Kick \/ Kicked
    \/ \E by \in {"H", "other"}, in, slow \in BOOLEAN : SetGroups(by, in, slow)
    \/ \E w \in waiting : AckEnds(w)
    \/ \E in \in BOOLEAN : SetGroupsUntold(in)
    \/ ReadH \/ ReadT

Spec == Init /\ [][Next]_vars

-----------------------------------------------------------------------------
(* Properties. *)

\* Nothing is on its way.
Quiet ==
    /\ \A c \in Clients : wire[c] = <<>> /\ dead[c] = 0 /\ sock[c] \in {"none", "live"}
    /\ waiting = {}

\* No ghosts and nobody overlooked: when nothing is on its way, a connected TUI
\* shows T connected if it is and only then, through reconnects and kicks of
\* either.  Except that a kick in the backlog takes an agent that has come back
\* since out of the roster that was sent with it, until its presence changes.
ShowsConnected == tui.row.there /\ tui.row.connected
NoGhosts ==
    Quiet /\ sock["H"] = "live" =>
        /\ ShowsConnected => Connected("T")
        /\ Connected("T") => ShowsConnected \/ "connected" \in tui.lost

\* Before frame k, the last change of T's groups was told nobody, or some change
\* too late, since a client joined.
Changes(k) == {j \in DOMAIN log : j < k /\ log[j].type = "groups"}
Uninformed(k, since) ==
    \/ \E j \in Changes(k) \cap untold : j > since /\ \A i \in Changes(k) : i <= j
    \/ \E j \in Changes(k) \cap late : j > since

\* Both copies of T's groups follow the registry, however replies, backlogs, live
\* frames and acks reached them; except after a change whose sender was gone, or
\* so slow to take its ack that another frame overtook the change, and in a row
\* that a kick has popped.
GroupsFollow ==
    Quiet =>
        /\ sock["T"] = "live" =>
              filter = member \/ Uninformed(Next_seq, joined["T"])
        /\ sock["H"] = "live" /\ tui.row.there =>
              \/ tui.row.group = member \/ "group" \in tui.lost
              \/ Uninformed(Next_seq, joined["H"])

\* The filter's audience is the hub's: a call that was sent to T as a member wakes
\* it, unless T was never told that it had become one.
CallsWake == \A s \in slept : Uninformed(s.call, s.joined)
=============================================================================
