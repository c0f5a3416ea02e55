------------------------------ MODULE Delivery ------------------------------
(***************************************************************************)
(* A hub and the listeners of its room: HubSessions composed with send.py  *)
(* listen and the cursor of chat/client_session.py.  A listener says hello *)
(* from its durable cursor, applies the reply, then applies what it is     *)
(* sent live: a frame at or below the cursor is taken for a duplicate and  *)
(* dropped, any other is emitted and the cursor moves to it.               *)
(*                                                                         *)
(* A listener is one process with one session file.  Two of them under one *)
(* nick are two machines: they displace each other.  Emitting a frame and  *)
(* moving the cursor is one step here; a crash between the two is the      *)
(* subject of the listener's own model.                                    *)
(***************************************************************************)
EXTENDS HubSessions

CONSTANT NickOf  \* NickOf[i]: the nick that the process of instance i asks for

ASSUME DeliveryAssumption == NickOf \in [Instances -> Nicks]

VARIABLES
    sock,     \* the connection of each process, or None
    cursor,   \* Session.last_applied_seq
    emitted   \* what the process has given its agent, in order

clients == <<sock, cursor, emitted>>
allvars == <<vars, clients>>

DInit ==
    /\ Init
    /\ sock = [i \in Instances |-> None]
    /\ cursor = [i \in Instances |-> 0]
    /\ emitted = [i \in Instances |-> <<>>]

-----------------------------------------------------------------------------
\* The elements of S in increasing order, after the sequence q.
InOrder(q, S) ==
    LET rank(k) == Cardinality({j \in S : j <= k})
    IN  q \o [r \in 1..Cardinality(S) |-> CHOOSE k \in S : rank(k) = r]

AtLeast(a, b) == IF a >= b THEN a ELSE b

\* listen: connect and say hello from the cursor.  A nick in somebody else's
\* hands is left to them: the suggested one is another room member.
Dial(i, s) ==
    /\ sock[i] = None
    /\ HelloFrame(s, NickOf[i], i, cursor[i])
    /\ sock' = [sock EXCEPT ![i] = s]
    /\ UNCHANGED <<cursor, emitted>>

\* _apply_hello_reply: the backlog through apply_frame, or the conversation as
\* it is; then the cursor goes to the end the hub names.
ApplyReply(i, m) ==
    LET new == IF m.type = "ok" THEN {k \in m.seqs : k > cursor[i]} ELSE m.seqs
    IN  /\ emitted' = [emitted EXCEPT ![i] = InOrder(@, new)]
        /\ cursor' = [cursor EXCEPT ![i] = AtLeast(@, m.cursor)]

\* apply_frame
ApplyAll(i, k) ==
    /\ emitted' = [emitted EXCEPT ![i] = Append(@, k)]
    /\ cursor' = [cursor EXCEPT ![i] = AtLeast(@, k)]
ApplyFrame(i, k) ==
    IF k <= cursor[i] THEN UNCHANGED <<cursor, emitted>>
    ELSE /\ emitted' = [emitted EXCEPT ![i] = Append(@, k)]
         /\ cursor' = [cursor EXCEPT ![i] = k]

Read(i) ==
    LET s == sock[i] IN
    /\ s # None
    /\ wire[s] # <<>>
    /\ LET m == Head(wire[s])
       IN  IF m.type = "event" THEN ApplyFrame(i, m.seq) ELSE ApplyReply(i, m)
    /\ wire' = [wire EXCEPT ![s] = Tail(@)]
    /\ UNCHANGED <<registry, conns, groups, log, boundary, task, open, running, sock>>

\* The connection is gone and what it still held is read: dial again.
Reconnect(i) ==
    /\ sock[i] # None
    /\ ~open[sock[i]] /\ wire[sock[i]] = <<>>
    /\ sock' = [sock EXCEPT ![i] = None]
    /\ UNCHANGED <<vars, cursor, emitted>>

\* The connection of a nick that nobody listens for, and that only speaks, is not
\* dropped here: it would end the speech, and reach no listener.
DNext ==
    \/ \E i \in Instances, s \in Sockets : Dial(i, s)
    \/ \E i \in Instances : Read(i) \/ Reconnect(i)
    \/ /\ \/ \E s \in Sockets : Frame(s)
          \/ \E s \in Sockets : Handler(s)
          \/ \E s \in Sockets : task[s].nick \in Listened /\ Disconnect(s)
       /\ UNCHANGED clients

DFairness ==
    /\ WF_allvars((\E s \in Sockets : Handler(s)) /\ UNCHANGED clients)
    /\ WF_allvars(\E i \in Instances : Read(i))

DSpec == DInit /\ [][DNext]_allvars /\ DFairness
-----------------------------------------------------------------------------
(* Properties. *)

\* The type invariant of the listeners.
DTypeOK ==
    /\ sock \in [Instances -> Sockets \cup {None}]
    /\ cursor \in [Instances -> 0..Len(log)]
    /\ \A i \in Instances : emitted[i] \in Seq(DOMAIN log)

\* What somebody else said to the nick of process i.
MeantFor(i) ==
    {k \in DOMAIN log : /\ log[k].type = "chat"
                        /\ log[k].by # NickOf[i]
                        /\ NickOf[i] \in log[k].to}

\* The cursor contract: what lies at or below a listener's cursor it has had, if
\* it was meant for it; a mention is never skipped, whoever took the nick over
\* meanwhile and whatever was logged while nobody held it.
Had(i) == {emitted[i][r] : r \in DOMAIN emitted[i]}
NothingSkipped ==
    \A i \in Instances : \A k \in MeantFor(i) : k <= cursor[i] => k \in Had(i)

\* No frame is emitted twice or out of order to one agent, although catching up,
\* live pushes and reconnects send the same events several times.
EmittedOnce ==
    \A i \in Instances : \A q, r \in DOMAIN emitted[i] : q < r => emitted[i][q] < emitted[i][r]

\* A listener that stays connected hears every mention of its nick, without
\* having to reconnect for it: those of the backlog, those of the window in
\* which it displaced another machine, and those sent live.
Owed(i) ==
    /\ sock[i] # None /\ open[sock[i]]
    /\ MeantFor(i) \ Had(i) # {}
MentionsArrive == \A i \in Instances : []<>(~Owed(i))
=============================================================================
