------------------------------- MODULE OneShot -------------------------------
(***************************************************************************)
(* The one-shot commands of send.py: send_once and oneshot_frame connect,  *)
(* say hello with the identity of the session file, send one frame, wait a *)
(* while and report; read_frames looks the log up without entering.  On    *)
(* the other side one handler of chat/server.py serves each connection.    *)
(*                                                                         *)
(* What an exit code claims is compared with what the log holds, over lost *)
(* and closed connections, a hub that dies or cannot write, takeovers,     *)
(* kicks, and windows that end before the hub has come to the frame.       *)
(*                                                                         *)
(* A close by the hub reaches the command behind all that was sent before  *)
(* it, at once; a connection that is lost says nothing until the keepalive *)
(* of the transport gives it up.  A frame that was received is handled     *)
(* even when its connection is gone.                                       *)
(***************************************************************************)
EXTENDS Naturals, Sequences, FiniteSets, SequencesExt

CONSTANTS
    MaxCommands,  \* bound: commands run
    Kinds,        \* Kinds[a]: the frames that command a may send
    OpenModes,    \* the values of open_mode to consider
    Talk,         \* frames of conversation that a resync gives back
    MaxOthers,    \* bound: frames said by others
    MaxFaults     \* bound: see Fault and Displaced

\* send waits for a complaint; frame waits for an ok or an error, which a status
\* does not get.  A misspelt chat names somebody nobody knows, a denied command
\* comes from somebody without the right to it.
Sends == {"chat", "misspelt"}
Commands == {"status", "membership", "kick", "denied"}

ASSUME OneShotAssumption ==
    /\ MaxCommands \in Nat
    /\ Kinds \in [1..MaxCommands -> SUBSET (Sends \cup Commands)]
    /\ OpenModes \subseteq BOOLEAN
    /\ Talk \in Nat /\ MaxOthers \in Nat /\ MaxFaults \in Nat

Ids == 1..MaxCommands  \* an agent runs one after the other

VARIABLES
    openMode,   \* agents enter without a token
    up,         \* the hub is running
    log,        \* what was appended: ids, and 0 for a frame of somebody else
    boundary,   \* snapshot_seq
    holder,     \* who the nick belongs to: "us", "them", or "gone" for them when
                \* they are not connected
    gen,        \* the generation of the nick
    cmd,        \* the commands
    faults

vars == <<openMode, up, log, boundary, holder, gen, cmd, faults>>

\* One command: the process, its connection, and its handler in the hub.
NoCommand ==
    [kind |-> "chat",
     at |-> "unused",     \* "hello", "waiting", then the exit: "zero", "acked",
                          \* "rejected", "refused" (nothing was sent), "unknown"
     link |-> "none",     \* "up", "closed", or "lost" without a word
     inbox |-> <<>>,      \* what the hub sent and the command has not read
     printed |-> FALSE,   \* a complaint was shown
     frame |-> "none",    \* "sent", "taken" by the handler, or "lost"
     hub |-> "none",      \* the handler: "hello", "greeting", "loop",
                          \* "answering", "publishing", "gone"
     gen |-> 0,           \* the generation its socket is pinned to
     since |-> 0,         \* the end of the log when it began
     open |-> FALSE,      \* history: the hub owed an answer when it exited
     published |-> FALSE, \* history: everybody the frame is for was sent it
     cause |-> "none",    \* history: why the frame was not published
     look |-> "none"]     \* history: what a read after the exit found

Init ==
    /\ openMode \in OpenModes
    /\ up = TRUE
    /\ log = <<>> /\ boundary = 0
    /\ holder \in {"us", "them"}
    /\ gen = 1
    /\ cmd = [a \in Ids |-> NoCommand]
    /\ faults = 0

Logged(a) == Contains(log, a)

\* Command a changes, and nothing but the log with it.
Becomes(a, new) == cmd' = [cmd EXCEPT ![a] = new]
Quiet == UNCHANGED <<openMode, up, boundary, holder, gen, faults>>
Told(a, answer) == IF cmd[a].link = "up" THEN Append(cmd[a].inbox, answer) ELSE cmd[a].inbox
Cut(link) == IF link = "up" THEN "closed" ELSE link

-----------------------------------------------------------------------------
(* The command. *)

Running(a) == cmd[a].at \in {"hello", "waiting"}

Dial(a, kind) ==
    /\ up
    /\ cmd[a].at = "unused"
    /\ \A b \in Ids : b < a => cmd[b].at # "unused" /\ ~Running(b)
    /\ Becomes(a, [NoCommand EXCEPT !.kind = kind, !.at = "hello", !.link = "up",
                                    !.hub = "hello", !.since = Len(log)])
    /\ Quiet /\ UNCHANGED log

Exit(c, code) == [c EXCEPT !.at = code, !.link = Cut(@), !.inbox = <<>>]

\* do_hello and _wysylka_albo_padnij: no reply, or a refusal, ends it.
GiveUpHello(a) ==
    /\ cmd[a].at = "hello"
    /\ cmd[a].inbox # <<>> => Head(cmd[a].inbox) = "refused"
    /\ Becomes(a, Exit(cmd[a], "refused"))
    /\ Quiet /\ UNCHANGED log

\* The frame goes out; on a connection known to be closed the send raises.
Send(a) ==
    /\ cmd[a].at = "hello"
    /\ cmd[a].inbox # <<>> /\ Head(cmd[a].inbox) = "welcome"
    /\ Becomes(a, IF cmd[a].link = "closed" THEN Exit(cmd[a], "unknown")
                  ELSE [cmd[a] EXCEPT !.at = "waiting", !.inbox = Tail(@),
                                      !.frame = IF cmd[a].link = "up" THEN "sent" ELSE "lost"])
    /\ Quiet /\ UNCHANGED log

\* send shows a complaint and waits on; frame returns the first ok or error.
ReadAnswer(a) ==
    LET answer == Head(cmd[a].inbox)
        rest == [cmd[a] EXCEPT !.inbox = Tail(@)]
    IN
    /\ cmd[a].at = "waiting" /\ cmd[a].inbox # <<>>
    /\ \/ /\ cmd[a].kind \in Sends
          /\ Becomes(a, [rest EXCEPT !.printed = @ \/ answer # "ok"])
       \/ /\ cmd[a].kind \notin Sends /\ answer = "ok"
          /\ Becomes(a, Exit(rest, "acked"))
       \/ /\ cmd[a].kind \notin Sends /\ answer # "ok"
          /\ Becomes(a, [Exit(rest, "rejected") EXCEPT !.printed = TRUE])
    /\ Quiet /\ UNCHANGED log

\* The connection closed before the window ended: WysylkaNieznana, or for frame
\* the exception itself.
ReadCloseAsSilence(a) ==
    /\ cmd[a].at = "waiting" /\ cmd[a].inbox = <<>> /\ cmd[a].link = "closed"
    /\ Becomes(a, Exit(cmd[a], "zero"))
    /\ Quiet /\ UNCHANGED log
ReadClose(a) ==
    /\ cmd[a].at = "waiting" /\ cmd[a].inbox = <<>> /\ cmd[a].link = "closed"
    /\ Becomes(a, Exit(cmd[a], "unknown"))
    /\ Quiet /\ UNCHANGED log

\* The window ends on a connection that nothing says is closed: exit 0.
Owes(c) == c.frame = "sent" \/ c.inbox # <<>> \/ c.link = "lost"
WindowEnds(a) ==
    /\ cmd[a].at = "waiting"
    /\ ~(cmd[a].inbox = <<>> /\ cmd[a].link = "closed")
    /\ Becomes(a, [Exit(cmd[a], "zero") EXCEPT !.open = Owes(cmd[a])])
    /\ Quiet /\ UNCHANGED log

\* The keepalive gives a lost connection up.
NoticeLoss(a) ==
    /\ cmd[a].link = "lost"
    /\ Becomes(a, [cmd[a] EXCEPT !.link = "closed"])
    /\ Quiet /\ UNCHANGED log

-----------------------------------------------------------------------------
(* read_frames after a command that did not end in an exit 0. *)

\* A peek from behind the cursor the command began with: the log from there, or
\* after a compaction the last frames of the conversation.
Conversation ==
    LET talk == SelectSeq(log, LAMBDA x : x = 0 \/ cmd[x].kind \in Sends \cup {"kick"})
    IN  SubSeq(talk, IF Len(talk) > Talk THEN Len(talk) - Talk + 1 ELSE 1, Len(talk))
Whole(from) == from >= boundary
ReadFrom(from) == IF Whole(from) THEN SubSeq(log, from + 1, Len(log)) ELSE Conversation

LookFrom(from, a) ==
    IF Contains(ReadFrom(from), a) THEN "found"
    ELSE IF cmd[a].frame = "sent" THEN "pending"
    ELSE IF ~Whole(from) THEN "narrowed" ELSE "absent"

\* The cursor of the session file: a listener of the same nick moved it on.
LookFromSession(a) ==
    /\ up /\ cmd[a].at \in {"unknown", "rejected"} /\ cmd[a].look = "none"
    /\ Becomes(a, [cmd[a] EXCEPT !.look = LookFrom(Len(log), a)])
    /\ Quiet /\ UNCHANGED log
Look(a) ==
    /\ up /\ cmd[a].at \in {"unknown", "rejected"} /\ cmd[a].look = "none"
    /\ Becomes(a, [cmd[a] EXCEPT !.look = LookFrom(cmd[a].since, a)])
    /\ Quiet /\ UNCHANGED log

-----------------------------------------------------------------------------
(* The handler of the connection. *)

\* In open mode a name that somebody else is connected under is refused;
\* otherwise this hello displaces them, and raises the generation.
Admit(a) ==
    /\ cmd[a].hub = "hello"
    /\ IF openMode /\ holder = "them"
       THEN /\ Becomes(a, [cmd[a] EXCEPT !.hub = "gone", !.inbox = Told(a, "refused"),
                                         !.link = Cut(@)])
            /\ UNCHANGED <<holder, gen>>
       ELSE /\ holder' = "us"
            /\ gen' = IF holder = "us" THEN gen ELSE gen + 1
            /\ Becomes(a, [cmd[a] EXCEPT !.hub = "greeting", !.inbox = Told(a, "welcome"),
                                         !.gen = gen'])
    /\ UNCHANGED <<openMode, up, log, boundary, faults>>

\* The catch-up and the presence frames are sent; meanwhile frames wait, for as
\* long as somebody reads slowly.
EndGreeting(a) ==
    /\ cmd[a].hub = "greeting"
    /\ Becomes(a, [cmd[a] EXCEPT !.hub = "loop"])
    /\ Quiet /\ UNCHANGED log

\* A send or a recv on its own connection raises: nothing more is handled.
Leave(a) ==
    /\ cmd[a].link \in {"closed", "lost"}
    /\ cmd[a].hub = "greeting" \/ (cmd[a].hub = "loop" /\ cmd[a].frame # "sent")
    /\ Becomes(a, [cmd[a] EXCEPT !.hub = "gone",
                                 !.frame = IF @ = "sent" THEN "lost" ELSE @])
    /\ Quiet /\ UNCHANGED log

Taking(a) == cmd[a].hub = "loop" /\ cmd[a].frame = "sent"
Current(a) == cmd[a].gen = gen
Refuse(a, hub) ==
    Becomes(a, [cmd[a] EXCEPT !.frame = "taken", !.inbox = Told(a, "error"), !.hub = hub])

\* A frame from an older generation ends the loop.
TakeStale(a) ==
    /\ Taking(a) /\ ~Current(a)
    /\ Becomes(a, [cmd[a] EXCEPT !.frame = "taken", !.inbox = Told(a, "error"),
                                 !.hub = "gone", !.link = Cut(@)])
    /\ Quiet /\ UNCHANGED log

Deny(a) ==
    /\ Taking(a) /\ Current(a) /\ cmd[a].kind = "denied"
    /\ Refuse(a, "loop")
    /\ Quiet /\ UNCHANGED log

\* The frame is in the log before anything is said of it.
TakeAnsweringFirst(a) ==
    /\ Taking(a) /\ Current(a) /\ cmd[a].kind # "denied"
    /\ Becomes(a, [cmd[a] EXCEPT !.hub = "answering", !.inbox = Told(a, "ok"),
                                 !.frame = "taken"])
    /\ Quiet /\ UNCHANGED log
Take(a) ==
    /\ Taking(a) /\ Current(a) /\ cmd[a].kind # "denied"
    /\ log' = Append(log, a)
    /\ Becomes(a, [cmd[a] EXCEPT !.frame = "taken", !.hub = "answering"])
    /\ Quiet

\* The warning and the ack of a membership_set are sends that raise when the
\* sender is gone, and then nobody else is told; the ack of a kick may fail.
MustHearOfKick(kind) == kind \in {"misspelt", "membership", "kick"}
MustHear(kind) == kind \in {"misspelt", "membership"}
AnswerTo(kind) ==
    CASE kind = "misspelt" -> <<"error">>
      [] kind \in {"membership", "kick"} -> <<"ok">>
      [] OTHER -> <<>>

Answer(a) ==
    /\ cmd[a].hub = "answering"
    /\ IF MustHear(cmd[a].kind) /\ cmd[a].link = "closed"
       THEN Becomes(a, [cmd[a] EXCEPT !.hub = "gone", !.cause = "sender"])
       ELSE Becomes(a, [cmd[a] EXCEPT !.hub = "publishing",
                           !.inbox = IF cmd[a].link = "up" THEN @ \o AnswerTo(cmd[a].kind) ELSE @])
    /\ Quiet /\ UNCHANGED log

Publish(a) ==
    /\ cmd[a].hub = "publishing"
    /\ Becomes(a, [cmd[a] EXCEPT !.hub = "loop", !.published = TRUE])
    /\ Quiet /\ UNCHANGED log

-----------------------------------------------------------------------------
(* The room, and what may go wrong. *)

OthersSay ==
    /\ up /\ Cardinality({k \in DOMAIN log : log[k] = 0}) < MaxOthers
    /\ log' = Append(log, 0)
    /\ Quiet /\ UNCHANGED cmd

Compact ==
    /\ up /\ boundary = 0 /\ log # <<>>
    /\ boundary' = Len(log)
    /\ UNCHANGED <<openMode, up, log, holder, gen, cmd, faults>>

\* Connections of our nick that the hub routes to.
Routed(a) == cmd[a].hub \notin {"none", "hello", "gone"} /\ cmd[a].link # "closed"

\* The hub says something to our connections and closes them; what it has
\* received from them is still handled.
CutOff(a) ==
    IF Routed(a) THEN [cmd[a] EXCEPT !.inbox = Told(a, "error"), !.link = Cut(@)] ELSE cmd[a]

\* Another machine says hello under our nick.
TheyEnter ==
    /\ up /\ faults < MaxFaults /\ holder # "them"
    /\ ~openMode \/ \A a \in Ids : ~Routed(a)
    /\ holder' = "them" /\ gen' = gen + 1 /\ faults' = faults + 1
    /\ cmd' = [a \in Ids |-> CutOff(a)]
    /\ UNCHANGED <<openMode, up, log, boundary>>

TheyLeave ==
    /\ holder = "them"
    /\ holder' = "gone"
    /\ UNCHANGED <<openMode, up, log, boundary, gen, cmd, faults>>

\* A moderator throws our nick out; its generation stays.
WeAreKicked ==
    /\ up /\ faults < MaxFaults /\ holder = "us"
    /\ faults' = faults + 1
    /\ log' = Append(log, 0)
    /\ cmd' = [a \in Ids |-> CutOff(a)]
    /\ UNCHANGED <<openMode, up, boundary, holder, gen>>

\* The network loses a connection, and maybe what was on it.
LinkBreaks(a) ==
    /\ cmd[a].link = "up" /\ faults < MaxFaults
    /\ faults' = faults + 1
    /\ \E inbox \in {cmd[a].inbox, <<>>} :
          \E frame \in IF cmd[a].frame = "sent" THEN {"sent", "lost"} ELSE {cmd[a].frame} :
             Becomes(a, [cmd[a] EXCEPT !.link = "lost", !.inbox = inbox, !.frame = frame])
    /\ UNCHANGED <<openMode, up, log, boundary, holder, gen>>

\* The append raises, and nothing is in the log.
AppendFails(a) ==
    /\ Taking(a) /\ Current(a) /\ cmd[a].kind # "denied" /\ faults < MaxFaults
    /\ faults' = faults + 1
    /\ Refuse(a, "loop")
    /\ UNCHANGED <<openMode, up, log, boundary, holder, gen>>

\* The append succeeds, then the snapshot that was due raises: the command is
\* told the same, and nobody else anything.
SnapshotFails(a) ==
    /\ Taking(a) /\ Current(a) /\ cmd[a].kind # "denied" /\ faults < MaxFaults
    /\ faults' = faults + 1
    /\ log' = Append(log, a)
    /\ Becomes(a, [cmd[a] EXCEPT !.frame = "taken", !.inbox = Told(a, "error"),
                                 !.hub = "loop", !.cause = "snapshot"])
    /\ UNCHANGED <<openMode, up, boundary, holder, gen>>

\* The hub dies: its machine closes the connections, or is gone with it.
Crashed(a, link) ==
    IF cmd[a].hub \in {"none", "gone"} THEN cmd[a]
    ELSE [cmd[a] EXCEPT !.hub = "gone",
                        !.link = IF @ = "up" THEN link ELSE @,
                        !.frame = IF @ = "sent" THEN "lost" ELSE @,
                        !.cause = IF cmd[a].hub \in {"answering", "publishing"} THEN "crash" ELSE @]
HubDies ==
    /\ up /\ faults < MaxFaults
    /\ up' = FALSE /\ faults' = faults + 1
    /\ \E link \in {"closed", "lost"} : cmd' = [a \in Ids |-> Crashed(a, link)]
    /\ holder' = IF holder = "them" THEN "gone" ELSE holder
    /\ UNCHANGED <<openMode, log, boundary, gen>>

HubStarts ==
    /\ ~up
    /\ up' = TRUE
    /\ UNCHANGED <<openMode, log, boundary, holder, gen, cmd, faults>>

Command(a) ==
    \/ \E kind \in Kinds[a] : Dial(a, kind)
    \/ GiveUpHello(a) \/ Send(a) \/ ReadAnswer(a) \/ ReadClose(a)
    \/ WindowEnds(a) \/ NoticeLoss(a) \/ Look(a)

Handler(a) ==
    \/ Admit(a) \/ EndGreeting(a) \/ Leave(a)
    \/ TakeStale(a) \/ Deny(a) \/ Take(a) \/ Answer(a) \/ Publish(a)

Fault(a) == LinkBreaks(a) \/ AppendFails(a) \/ SnapshotFails(a)

Next ==
    \/ \E a \in Ids : Command(a) \/ Handler(a) \/ Fault(a)
    \/ OthersSay \/ Compact
    \/ TheyEnter \/ TheyLeave \/ WeAreKicked
    \/ HubDies \/ HubStarts

Spec == Init /\ [][Next]_vars

-----------------------------------------------------------------------------
(* Properties. *)

\* The type invariant.
Answers == {"welcome", "refused", "ok", "error"}
CommandType ==
    [kind : Sends \cup Commands,
     at : {"unused", "hello", "waiting", "zero", "acked", "rejected", "refused", "unknown"},
     link : {"none", "up", "closed", "lost"},
     inbox : Seq(Answers),
     printed : BOOLEAN,
     frame : {"none", "sent", "taken", "lost"},
     hub : {"none", "hello", "greeting", "loop", "answering", "publishing", "gone"},
     gen : Nat, since : Nat, open : BOOLEAN, published : BOOLEAN,
     cause : {"none", "sender", "crash", "snapshot"},
     look : {"none", "found", "pending", "narrowed", "absent"}]
TypeOK ==
    /\ openMode \in BOOLEAN /\ up \in BOOLEAN
    /\ log \in Seq(0..MaxCommands)
    /\ boundary \in Nat /\ gen \in Nat /\ faults \in Nat
    /\ holder \in {"us", "them", "gone"}
    /\ cmd \in [Ids -> CommandType]

\* What an exit says about the frame is so, then and later: after an ack it is
\* in the log, and after a refused hello it never gets there.
VerdictHolds ==
    \A a \in Ids :
        /\ cmd[a].at = "acked" => Logged(a)
        /\ cmd[a].at = "refused" => ~Logged(a)

\* No false success: a command that exits 0 without having shown a complaint
\* has its frame in the log, unless the hub's answer was still on its way, or
\* the connection had been lost without a word.
NoFalseSuccess ==
    \A a \in Ids :
        cmd[a].at = "zero" /\ ~cmd[a].printed => Logged(a) \/ cmd[a].open

\* Durability comes before publication, and publication follows it: a frame in
\* the log has been sent to whom it is for or is about to be, unless the hub
\* died, the snapshot behind it failed, or the sender of a warned chat or of a
\* membership_set was gone.  A kick is carried out whatever became of its sender.
LoggedIsPublished ==
    \A a \in Ids :
        Logged(a) =>
            \/ cmd[a].published \/ cmd[a].hub \in {"answering", "publishing"}
            \/ cmd[a].cause \in {"crash", "snapshot"}
            \/ cmd[a].cause = "sender" /\ cmd[a].kind # "kick"

\* What is published is in the log, and once.
PublishedIsLogged ==
    \A a \in Ids :
        /\ cmd[a].published => Logged(a)
        /\ \A j, k \in DOMAIN log : log[j] = a /\ log[k] = a => j = k

\* A frame that a read did not find after an unknown outcome never enters the
\* log, so sending it again does not say it twice; unless the hub had it still
\* before it, or the read was told to be narrower than asked.
LookSettles == \A a \in Ids : cmd[a].look = "absent" => ~Logged(a)
=============================================================================
