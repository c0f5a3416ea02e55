---------------------------- MODULE OneShotProofs ----------------------------
(***************************************************************************)
(* What the one-shot commands claim is so, for any number of commands of   *)
(* any kind, frames of others, faults and takeovers: the four properties   *)
(* that OneShot.cfg checks on two commands.                                *)
(*                                                                         *)
(* The invariant follows one command: its frame is "taken" once the hub    *)
(* has logged it, an "ok" is only ever sent behind the append, and as long *)
(* as the command waits, either the hub has something to answer, or the    *)
(* answer is in the inbox, or the connection is no longer up.              *)
(***************************************************************************)
EXTENDS OneShot, TLAPS

\* Nothing is sent before the welcome, nor after a refusal; what is in the log was
\* taken from the connection.
Silent(c, a) ==
    /\ c.at # "unused" => c.link # "none"
    /\ c.at \in {"unused", "hello", "refused"} => c.frame = "none"
    /\ c.at = "unused" => c.hub = "none"
    /\ Logged(a) => c.frame = "taken"

\* An ok, an ack and a publication speak of what is in the log.
Answered(c, a) ==
    /\ \A k \in DOMAIN c.inbox : c.inbox[k] = "ok" => Logged(a)
    /\ c.hub \in {"answering", "publishing"} => Logged(a)
    /\ c.published => Logged(a)
    /\ c.at = "acked" => Logged(a)

\* A command that waits in silence has its frame before the hub or in the log, or
\* an answer to read, or no connection.
Waits(c, a) ==
    /\ c.at = "waiting" =>
         \/ c.printed \/ Logged(a)
         \/ c.frame = "sent" \/ c.inbox # <<>> \/ c.link # "up"
    /\ c.at = "zero" => c.printed \/ Logged(a) \/ c.open

\* What is in the log is or was on its way to its audience.
Spread(c, a) ==
    Logged(a) =>
        \/ c.published \/ c.hub \in {"answering", "publishing"}
        \/ c.cause \in {"crash", "snapshot"}
        \/ c.cause = "sender" /\ c.kind # "kick"

\* A read that found nothing found nothing on its way either.
Settled(c, a) ==
    c.look = "absent" =>
        ~Logged(a) /\ c.frame # "sent" /\ c.at \in {"unknown", "rejected"}

\* The command as it would be with the record c.
Fine(c, a) == Silent(c, a) /\ Answered(c, a) /\ Waits(c, a) /\ Spread(c, a) /\ Settled(c, a)

\* A command is logged after it began, and once.
Positions(a) ==
    /\ cmd[a].since <= Len(log)
    /\ \A k \in DOMAIN log : log[k] = a => k > cmd[a].since
    /\ \A j, k \in DOMAIN log : log[j] = a /\ log[k] = a => j = k

OneShotInv == TypeOK /\ \A a \in Ids : Fine(cmd[a], a) /\ Positions(a)

-----------------------------------------------------------------------------
(* The log. *)

\* What a step does to the log, seen from command a: nothing, or something of
\* somebody else is appended.
NotOf(a) ==
    /\ Logged(a)' = Logged(a)
    /\ Len(log) <= Len(log)'
    /\ \A k \in (DOMAIN log)' : log'[k] = a => k \in DOMAIN log /\ log[k] = a

LEMMA SameLog ==
    ASSUME NEW a \in Ids, TypeOK, log' = log
    PROVE  NotOf(a)
BY DEF NotOf, Logged, Contains, TypeOK

LEMMA OthersLog ==
    ASSUME NEW a \in Ids, NEW x \in 0..MaxCommands, x # a, TypeOK, log' = Append(log, x)
    PROVE  NotOf(a)
<1>1. log \in Seq(0..MaxCommands)
  BY DEF TypeOK
<1>2. /\ Len(log)' = Len(log) + 1 /\ Len(log) \in Nat
      /\ \A k \in 1..Len(log)' : log'[k] = IF k = Len(log) + 1 THEN x ELSE log[k]
  BY <1>1
<1>3. DOMAIN log = 1..Len(log) /\ (DOMAIN log)' = 1..Len(log)'
  BY <1>1
<1>4. Logged(a)' = Logged(a)
  BY <1>2 DEF Logged, Contains
<1>5. \A k \in (DOMAIN log)' : log'[k] = a => k \in DOMAIN log /\ log[k] = a
  BY <1>2, <1>3
<1> QED BY <1>2, <1>4, <1>5 DEF NotOf

\* A command logged for the first time stands at the new end.
LEMMA OwnLog ==
    ASSUME NEW a \in Ids, TypeOK, ~Logged(a), log' = Append(log, a)
    PROVE  /\ Logged(a)'
           /\ Len(log)' = Len(log) + 1 /\ Len(log) \in Nat
           /\ \A k \in (DOMAIN log)' : log'[k] = a => k = Len(log) + 1
<1>1. log \in Seq(0..MaxCommands) /\ a \in 0..MaxCommands
  BY OneShotAssumption DEF TypeOK, Ids
<1>2. /\ Len(log)' = Len(log) + 1 /\ Len(log) \in Nat
      /\ \A k \in 1..Len(log)' : log'[k] = IF k = Len(log) + 1 THEN a ELSE log[k]
  BY <1>1
<1>3. (DOMAIN log)' = 1..Len(log)' /\ \A k \in 1..Len(log) : log[k] # a
  BY <1>1, <1>2 DEF Logged, Contains
<1> QED BY <1>2, <1>3 DEF Logged, Contains

LEMMA LogTyped ==
    ASSUME TypeOK, log' = log \/ \E x \in 0..MaxCommands : log' = Append(log, x)
    PROVE  log' \in Seq(0..MaxCommands)
<1>1. CASE log' = log
  BY <1>1 DEF TypeOK
<1>2. ASSUME NEW x \in 0..MaxCommands, log' = Append(log, x)
      PROVE  log' \in Seq(0..MaxCommands)
  BY <1>2 DEF TypeOK
<1> QED BY <1>1, <1>2

-----------------------------------------------------------------------------
(* What a step must show of the commands that it changes. *)

\* Of command a, when the step appends nothing of a.
Kept(a) == Fine(cmd'[a], a) /\ cmd'[a].since = cmd[a].since

LEMMA KeptIsEnough ==
    ASSUME NEW a \in Ids, OneShotInv, NotOf(a), Kept(a)
    PROVE  (Fine(cmd[a], a) /\ Positions(a))'
<1>1. Logged(a)' = Logged(a)
  BY DEF NotOf
<1>2. (Silent(cmd[a], a) /\ Answered(cmd[a], a))'
  BY <1>1 DEF Kept, Fine, Silent, Answered
<1>3. (Waits(cmd[a], a) /\ Spread(cmd[a], a) /\ Settled(cmd[a], a))'
  BY <1>1 DEF Kept, Fine, Waits, Spread, Settled
<1>4. Positions(a)'
  <2>1. Len(log) \in Nat /\ cmd[a].since \in Nat
    BY DEF OneShotInv, TypeOK, CommandType
  <2> QED BY <2>1 DEF OneShotInv, Positions, NotOf, Kept
<1> QED BY <1>2, <1>3, <1>4 DEF Fine

\* What is not a command keeps its type.
RestTyped ==
    /\ openMode' \in BOOLEAN /\ up' \in BOOLEAN
    /\ boundary' \in Nat /\ gen' \in Nat /\ faults' \in Nat
    /\ holder' \in {"us", "them", "gone"}

\* The log stays, or somebody else says something.
LEMMA AllKept ==
    ASSUME OneShotInv, RestTyped, cmd' \in [Ids -> CommandType],
           log' = log \/ log' = Append(log, 0),
           \A a \in Ids : Kept(a)
    PROVE  OneShotInv'
<1>1. 0 \in 0..MaxCommands /\ \A a \in Ids : a # 0
  BY OneShotAssumption DEF Ids
<1>2. \A a \in Ids : NotOf(a)
  BY <1>1, SameLog, OthersLog DEF OneShotInv
<1>3. TypeOK'
  BY <1>1, LogTyped DEF OneShotInv, TypeOK, RestTyped
<1> QED BY <1>2, <1>3, KeptIsEnough DEF OneShotInv

\* A step that changes command a to r.
Moves(a, r) == cmd' = [cmd EXCEPT ![a] = r] /\ r \in CommandType /\ RestTyped

LEMMA Alone ==
    ASSUME OneShotInv, NEW a \in Ids, NEW r, Moves(a, r)
    PROVE  /\ cmd' \in [Ids -> CommandType] /\ cmd'[a] = r
           /\ \A b \in Ids \ {a} : Kept(b)
<1>1. cmd' \in [Ids -> CommandType] /\ cmd'[a] = r
  BY DEF Moves, OneShotInv, TypeOK
<1>2. \A b \in Ids \ {a} : cmd'[b] = cmd[b]
  BY DEF Moves, OneShotInv, TypeOK
<1> QED BY <1>1, <1>2 DEF OneShotInv, Kept

LEMMA OneKept ==
    ASSUME OneShotInv, NEW a \in Ids, NEW r, Moves(a, r), log' = log,
           Fine(r, a), r.since = cmd[a].since
    PROVE  OneShotInv'
<1>1. Kept(a)
  BY Alone DEF Kept
<1> QED BY <1>1, Alone, AllKept DEF Moves

\* The step that logs it.
LEMMA OneLogged ==
    ASSUME OneShotInv, NEW a \in Ids, NEW r, Moves(a, r),
           ~Logged(a), log' = Append(log, a),
           Logged(a)' => Fine(r, a)', r.since = cmd[a].since
    PROVE  OneShotInv'
<1>1. a \in 0..MaxCommands
  BY OneShotAssumption DEF Ids
<1>2. /\ Logged(a)' /\ Len(log)' = Len(log) + 1 /\ Len(log) \in Nat
      /\ \A k \in (DOMAIN log)' : log'[k] = a => k = Len(log) + 1
  BY OwnLog DEF OneShotInv
<1>3. cmd'[a] = r /\ cmd' \in [Ids -> CommandType]
  BY Alone
<1>4. Fine(cmd[a], a)'
  BY <1>2, <1>3
<1>5. Positions(a)'
  <2>1. cmd[a].since \in Nat /\ cmd[a].since <= Len(log)
    BY DEF OneShotInv, TypeOK, CommandType, Positions
  <2> QED BY <1>2, <1>3, <2>1 DEF Positions
<1>6. ASSUME NEW b \in Ids \ {a} PROVE (Fine(cmd[b], b) /\ Positions(b))'
  <2>1. NotOf(b)
    BY <1>1, OthersLog DEF OneShotInv
  <2> QED BY <2>1, Alone, KeptIsEnough
<1>7. TypeOK'
  BY <1>1, <1>3, LogTyped DEF OneShotInv, Moves, RestTyped, TypeOK
<1> QED BY <1>4, <1>5, <1>6, <1>7 DEF OneShotInv

\* What is known of the command before the step.
LEMMA Before ==
    ASSUME OneShotInv, NEW a \in Ids
    PROVE  cmd[a] \in CommandType /\ Fine(cmd[a], a)
BY DEF OneShotInv, TypeOK

\* A command stays one when a field of it gets a value that it may have.
LEMMA AtField ==
    ASSUME NEW c \in CommandType, NEW at \in {"unused", "hello", "waiting", "zero", "acked", "rejected",
                         "refused", "unknown"}
    PROVE  [c EXCEPT !.at = at] \in CommandType
BY DEF CommandType

LEMMA LinkField ==
    ASSUME NEW c \in CommandType, NEW link \in {"none", "up", "closed", "lost"}
    PROVE  [c EXCEPT !.link = link] \in CommandType
BY DEF CommandType

LEMMA InboxField ==
    ASSUME NEW c \in CommandType, NEW inbox \in Seq(Answers)
    PROVE  [c EXCEPT !.inbox = inbox] \in CommandType
BY DEF CommandType

LEMMA FrameField ==
    ASSUME NEW c \in CommandType, NEW frame \in {"none", "sent", "taken", "lost"}
    PROVE  [c EXCEPT !.frame = frame] \in CommandType
BY DEF CommandType

LEMMA HubField ==
    ASSUME NEW c \in CommandType, NEW hub \in {"none", "hello", "greeting", "loop", "answering",
                          "publishing", "gone"}
    PROVE  [c EXCEPT !.hub = hub] \in CommandType
BY DEF CommandType

LEMMA CauseField ==
    ASSUME NEW c \in CommandType, NEW cause \in {"none", "sender", "crash", "snapshot"}
    PROVE  [c EXCEPT !.cause = cause] \in CommandType
BY DEF CommandType

LEMMA KindField ==
    ASSUME NEW c \in CommandType, NEW kind \in Sends \cup Commands
    PROVE  [c EXCEPT !.kind = kind] \in CommandType
BY DEF CommandType

LEMMA SinceField ==
    ASSUME NEW c \in CommandType, NEW since \in Nat
    PROVE  [c EXCEPT !.since = since] \in CommandType
BY DEF CommandType

\* The end of the process: nothing but the code, the connection and the inbox.
LEMMA ExitIs ==
    ASSUME NEW c \in CommandType,
           NEW code \in {"zero", "acked", "rejected", "refused", "unknown"}
    PROVE  LET r == Exit(c, code) IN
           /\ r \in CommandType
           /\ r.at = code /\ r.inbox = <<>> /\ r.frame = c.frame /\ r.hub = c.hub
           /\ r.since = c.since /\ r.published = c.published /\ r.cause = c.cause
           /\ r.kind = c.kind /\ r.printed = c.printed /\ r.look = c.look /\ r.open = c.open
           /\ r.link = "none" => c.link = "none"
<1> DEFINE link == Cut(c.link)
           inbox == <<>>
           r == [c EXCEPT !.at = code, !.link = link, !.inbox = inbox]
<1>1. /\ inbox \in Seq(Answers) /\ link \in {"none", "up", "closed", "lost"}
      /\ code \in {"unused", "hello", "waiting", "zero", "acked", "rejected", "refused", "unknown"}
  BY DEF Cut, CommandType
<1>2. Exit(c, code) = r
  BY DEF Exit, CommandType
<1>3. inbox = <<>> /\ (link = "none" => c.link = "none")
  BY DEF Cut
<1> HIDE DEF link, inbox
<1>4. r \in CommandType
  <2> DEFINE ended == [c EXCEPT !.at = code]
             cut == [ended EXCEPT !.link = link]
  <2>1. r = [cut EXCEPT !.inbox = inbox]
    BY DEF CommandType
  <2>2. ended \in CommandType
    BY <1>1, AtField
  <2> HIDE DEF r, ended
  <2>3. cut \in CommandType
    BY <1>1, <2>2, LinkField
  <2> HIDE DEF cut
  <2> QED BY <1>1, <2>1, <2>3, InboxField
<1>5. /\ r.at = code /\ r.inbox = inbox /\ r.frame = c.frame /\ r.hub = c.hub
      /\ r.since = c.since /\ r.published = c.published /\ r.cause = c.cause
      /\ r.kind = c.kind /\ r.printed = c.printed /\ r.look = c.look /\ r.open = c.open
      /\ r.link = link
  BY DEF CommandType
<1> HIDE DEF r
<1> QED BY <1>2, <1>3, <1>4, <1>5

LEMMA ToldIs ==
    ASSUME OneShotInv, NEW a \in Ids, NEW answer \in Answers
    PROVE  /\ Told(a, answer) \in Seq(Answers)
           /\ cmd[a].link = "up" => Told(a, answer) # <<>>
           /\ answer # "ok" => \A k \in DOMAIN Told(a, answer) :
                 Told(a, answer)[k] = "ok" => Logged(a)
<1>1. cmd[a].inbox \in Seq(Answers)
  BY Before DEF CommandType
<1>2. \A k \in DOMAIN cmd[a].inbox : cmd[a].inbox[k] = "ok" => Logged(a)
  BY Before DEF Fine, Answered
<1> QED BY <1>1, <1>2 DEF Told

-----------------------------------------------------------------------------
(* The command. *)

LEMMA DialKeeps ==
    ASSUME OneShotInv, NEW a \in Ids, NEW kind \in Kinds[a], Dial(a, kind)
    PROVE  OneShotInv'
<1> DEFINE since == Len(log)
           r == [NoCommand EXCEPT !.kind = kind, !.at = "hello", !.link = "up",
                                  !.hub = "hello", !.since = since]
<1>1. kind \in Sends \cup Commands /\ since \in Nat /\ <<>> \in Seq(Answers)
  BY OneShotAssumption DEF Ids, OneShotInv, TypeOK
<1>2. since = Len(log)
  OBVIOUS
<1> HIDE DEF since
<1>3. NoCommand \in CommandType
  BY <1>1 DEF NoCommand, CommandType, Sends
<1>4. r \in CommandType
  <2> DEFINE c1 == [NoCommand EXCEPT !.kind = kind]
             c2 == [c1 EXCEPT !.at = "hello"]
             c3 == [c2 EXCEPT !.link = "up"]
             c4 == [c3 EXCEPT !.hub = "hello"]
  <2>1. r = [c4 EXCEPT !.since = since]
    BY <1>3 DEF CommandType
  <2>2. c1 \in CommandType
    BY <1>1, <1>3, KindField
  <2> HIDE DEF r, c1
  <2>3. c2 \in CommandType
    BY <2>2, AtField
  <2> HIDE DEF c2
  <2>4. c3 \in CommandType
    BY <2>3, LinkField
  <2> HIDE DEF c3
  <2>5. c4 \in CommandType
    BY <2>4, HubField
  <2> HIDE DEF c4
  <2> QED BY <1>1, <2>1, <2>5, SinceField
<1>5. /\ r.at = "hello" /\ r.hub = "hello" /\ r.since = since
      /\ r.inbox = <<>> /\ r.frame = "none" /\ r.published = FALSE /\ r.look = "none"
      /\ r.link = "up"
  BY DEF NoCommand
<1> HIDE DEF r
<1>6. ~Logged(a)
  BY DEF OneShotInv, Fine, Silent, Dial
<1>7. Fine(r, a)
  BY <1>5, <1>6 DEF Fine, Silent, Answered, Waits, Spread, Settled
<1>8. Moves(a, r) /\ log' = log
  BY <1>4 DEF r, since, Dial, Becomes, Quiet, Moves, RestTyped, OneShotInv, TypeOK
<1>9. cmd'[a] = r /\ \A b \in Ids : NotOf(b)
  BY <1>8, Alone, SameLog DEF OneShotInv
<1>10. TypeOK'
  BY <1>8, Alone DEF Moves, RestTyped, OneShotInv, TypeOK
<1>11. (Fine(cmd[a], a) /\ Positions(a))'
  <2>1. \A k \in DOMAIN log : log[k] # a
    BY <1>6 DEF Logged, Contains, OneShotInv, TypeOK
  <2>2. Fine(cmd[a], a)'
    BY <1>7, <1>9 DEF Fine, Silent, Answered, Waits, Spread, Settled, NotOf
  <2> QED BY <1>1, <1>2, <1>5, <1>8, <1>9, <2>1, <2>2 DEF Positions
<1> QED BY <1>8, <1>9, <1>10, <1>11, Alone, KeptIsEnough DEF OneShotInv

\* An exit with a code that claims nothing of the log.
LEMMA ExitKeeps ==
    ASSUME OneShotInv, NEW a \in Ids, NEW code \in {"rejected", "refused", "unknown"},
           cmd[a].at \in {"hello", "waiting"}, code = "refused" => cmd[a].at = "hello",
           cmd' = [cmd EXCEPT ![a] = Exit(cmd[a], code)], log' = log, RestTyped
    PROVE  OneShotInv'
<1> DEFINE r == Exit(cmd[a], code)
<1>1. cmd[a] \in CommandType /\ Fine(cmd[a], a)
  BY Before
<1>2. /\ r \in CommandType
      /\ r.at = code /\ r.inbox = <<>> /\ r.frame = cmd[a].frame /\ r.hub = cmd[a].hub
      /\ r.since = cmd[a].since /\ r.published = cmd[a].published /\ r.cause = cmd[a].cause
      /\ r.kind = cmd[a].kind /\ r.printed = cmd[a].printed /\ r.look = cmd[a].look
      /\ r.open = cmd[a].open
      /\ r.link = "none" => cmd[a].link = "none"
  BY <1>1, ExitIs
<1>3. Moves(a, r)
  BY <1>2 DEF Moves
<1> HIDE DEF r
<1>4. Fine(r, a)
  BY <1>1, <1>2 DEF Fine, Silent, Answered, Waits, Spread, Settled
<1> QED BY <1>2, <1>3, <1>4, OneKept

LEMMA QuietIsTyped ==
    ASSUME OneShotInv, Quiet
    PROVE  RestTyped
BY DEF Quiet, RestTyped, OneShotInv, TypeOK

LEMMA GiveUpHelloKeeps ==
    ASSUME OneShotInv, NEW a \in Ids, GiveUpHello(a)
    PROVE  OneShotInv'
BY ExitKeeps, QuietIsTyped DEF GiveUpHello, Becomes

LEMMA SendKeeps ==
    ASSUME OneShotInv, NEW a \in Ids, Send(a)
    PROVE  OneShotInv'
<1> DEFINE rest == Tail(cmd[a].inbox)
           frame == IF cmd[a].link = "up" THEN "sent" ELSE "lost"
           r == [cmd[a] EXCEPT !.at = "waiting", !.inbox = rest, !.frame = frame]
<1>1. CASE cmd[a].link = "closed"
  BY <1>1, ExitKeeps, QuietIsTyped DEF Send, Becomes
<1>2. CASE cmd[a].link # "closed"
  <2>1. cmd[a] \in CommandType /\ Fine(cmd[a], a)
    BY Before
  <2>2. /\ rest \in Seq(Answers)
        /\ \A k \in DOMAIN rest : k + 1 \in DOMAIN cmd[a].inbox /\ rest[k] = cmd[a].inbox[k + 1]
    BY <2>1 DEF Send, CommandType
  <2>3. frame \in {"sent", "lost"} /\ (cmd[a].link = "up" => frame = "sent")
    OBVIOUS
  <2>4. cmd' = [cmd EXCEPT ![a] = r] /\ log' = log /\ RestTyped
    BY <1>2, QuietIsTyped DEF Send, Becomes
  <2> HIDE DEF rest, frame
  <2>5. r \in CommandType
    <3> DEFINE out == [cmd[a] EXCEPT !.at = "waiting"]
               read == [out EXCEPT !.inbox = rest]
    <3>1. r = [read EXCEPT !.frame = frame]
      BY <2>1 DEF CommandType
    <3>2. out \in CommandType
      BY <2>1, AtField
    <3> HIDE DEF r, out
    <3>3. read \in CommandType
      BY <2>2, <3>2, InboxField
    <3> HIDE DEF read
    <3> QED BY <2>3, <3>1, <3>3, FrameField
  <2>6. /\ r.at = "waiting" /\ r.inbox = rest /\ r.frame = frame /\ r.link = cmd[a].link
        /\ r.hub = cmd[a].hub /\ r.since = cmd[a].since /\ r.published = cmd[a].published
        /\ r.cause = cmd[a].cause /\ r.kind = cmd[a].kind /\ r.look = cmd[a].look
    BY <2>1 DEF CommandType
  <2> HIDE DEF r
  <2>7. Fine(r, a)
    <3>1. cmd[a].at = "hello" /\ ~Logged(a)
      BY <2>1 DEF Send, Fine, Silent
    <3>2. Answered(r, a) /\ Silent(r, a)
      BY <2>1, <2>2, <2>6, <3>1 DEF Fine, Silent, Answered
    <3> QED BY <2>1, <2>3, <2>6, <3>1, <3>2 DEF Fine, Waits, Spread, Settled
  <2> QED BY <2>4, <2>5, <2>6, <2>7, OneKept DEF Moves
<1> QED BY <1>1, <1>2

\* The inbox without its head.
LEMMA RestOfInbox ==
    ASSUME OneShotInv, NEW a \in Ids, cmd[a].inbox # <<>>
    PROVE  /\ Tail(cmd[a].inbox) \in Seq(Answers)
           /\ \A k \in DOMAIN Tail(cmd[a].inbox) :
                 Tail(cmd[a].inbox)[k] = "ok" => Logged(a)
           /\ Head(cmd[a].inbox) = "ok" => Logged(a)
<1>1. cmd[a].inbox \in Seq(Answers)
  BY Before DEF CommandType
<1>2. \A k \in DOMAIN cmd[a].inbox : cmd[a].inbox[k] = "ok" => Logged(a)
  BY Before DEF Fine, Answered
<1> QED BY <1>1, <1>2

LEMMA ReadAnswerKeeps ==
    ASSUME OneShotInv, NEW a \in Ids, ReadAnswer(a)
    PROVE  OneShotInv'
<1> DEFINE tail == Tail(cmd[a].inbox)
           heard == Head(cmd[a].inbox)
           rest == [cmd[a] EXCEPT !.inbox = tail]
<1>1. cmd[a] \in CommandType /\ Fine(cmd[a], a) /\ cmd[a].at = "waiting"
  BY Before DEF ReadAnswer
<1>2. /\ tail \in Seq(Answers)
      /\ heard = "ok" => Logged(a)
      /\ \A k \in DOMAIN tail : tail[k] = "ok" => Logged(a)
  BY RestOfInbox DEF ReadAnswer
<1>3. log' = log /\ RestTyped
  BY QuietIsTyped DEF ReadAnswer
<1>4. \/ /\ cmd[a].kind \in Sends
         /\ cmd' = [cmd EXCEPT ![a] = [rest EXCEPT !.printed = @ \/ heard # "ok"]]
      \/ /\ cmd[a].kind \notin Sends /\ heard = "ok"
         /\ cmd' = [cmd EXCEPT ![a] = Exit(rest, "acked")]
      \/ /\ cmd[a].kind \notin Sends /\ heard # "ok"
         /\ cmd' = [cmd EXCEPT ![a] = [Exit(rest, "rejected") EXCEPT !.printed = TRUE]]
  BY DEF ReadAnswer, Becomes
<1> HIDE DEF tail, heard
<1>5. rest \in CommandType
  <2>1. tail \in Seq(Answers)
    BY <1>2
  <2> QED BY <1>1, <2>1 DEF CommandType
<1>6. /\ rest.inbox = tail /\ rest.at = "waiting" /\ rest.frame = cmd[a].frame
      /\ rest.hub = cmd[a].hub /\ rest.since = cmd[a].since /\ rest.published = cmd[a].published
      /\ rest.cause = cmd[a].cause /\ rest.kind = cmd[a].kind /\ rest.look = cmd[a].look
      /\ rest.printed = cmd[a].printed /\ rest.link = cmd[a].link
  BY <1>1 DEF CommandType
<1> HIDE DEF rest
<1>7. CASE cmd[a].kind \in Sends
  <2> DEFINE shown == rest.printed \/ heard # "ok"
             r == [rest EXCEPT !.printed = shown]
  <2>1. shown \in BOOLEAN /\ (~shown => Logged(a))
    BY <1>2
  <2>2. cmd' = [cmd EXCEPT ![a] = r]
    BY <1>4, <1>7
  <2> HIDE DEF shown
  <2>3. r \in CommandType
    BY <1>5, <2>1 DEF CommandType
  <2>4. /\ r.inbox = tail /\ r.at = "waiting" /\ r.frame = cmd[a].frame
        /\ r.hub = cmd[a].hub /\ r.since = cmd[a].since /\ r.published = cmd[a].published
        /\ r.cause = cmd[a].cause /\ r.kind = cmd[a].kind /\ r.look = cmd[a].look
        /\ r.printed = shown /\ r.link = cmd[a].link
    BY <1>5, <1>6 DEF CommandType
  <2> HIDE DEF r
  <2>5. Fine(r, a)
    BY <1>1, <1>2, <2>1, <2>4 DEF Fine, Silent, Answered, Waits, Spread, Settled
  <2> QED BY <1>3, <2>2, <2>3, <2>4, <2>5, OneKept DEF Moves
<1>8. CASE cmd[a].kind \notin Sends /\ heard = "ok"
  <2> DEFINE r == Exit(rest, "acked")
  <2>1. /\ r \in CommandType
        /\ r.at = "acked" /\ r.inbox = <<>> /\ r.frame = rest.frame /\ r.hub = rest.hub
        /\ r.since = rest.since /\ r.published = rest.published /\ r.cause = rest.cause
        /\ r.kind = rest.kind /\ r.look = rest.look
        /\ r.link = "none" => rest.link = "none"
    BY <1>5, ExitIs
  <2>2. cmd' = [cmd EXCEPT ![a] = r]
    BY <1>4, <1>8
  <2> HIDE DEF r
  <2>3. Fine(r, a)
    BY <1>1, <1>2, <1>6, <1>8, <2>1 DEF Fine, Silent, Answered, Waits, Spread, Settled
  <2> QED BY <1>3, <1>6, <2>1, <2>2, <2>3, OneKept DEF Moves
<1>9. CASE cmd[a].kind \notin Sends /\ heard # "ok"
  <2> DEFINE e == Exit(rest, "rejected")
             r == [e EXCEPT !.printed = TRUE]
  <2>1. /\ e \in CommandType
        /\ e.at = "rejected" /\ e.inbox = <<>> /\ e.frame = rest.frame /\ e.hub = rest.hub
        /\ e.since = rest.since /\ e.published = rest.published /\ e.cause = rest.cause
        /\ e.kind = rest.kind /\ e.look = rest.look
        /\ e.link = "none" => rest.link = "none"
    BY <1>5, ExitIs
  <2>2. cmd' = [cmd EXCEPT ![a] = r]
    BY <1>4, <1>9
  <2> HIDE DEF e
  <2>3. r \in CommandType
    BY <2>1 DEF CommandType
  <2>4. /\ r.at = "rejected" /\ r.inbox = <<>> /\ r.frame = rest.frame /\ r.hub = rest.hub
        /\ r.since = rest.since /\ r.published = rest.published /\ r.cause = rest.cause
        /\ r.kind = rest.kind /\ r.look = rest.look /\ r.link = e.link
    BY <2>1 DEF CommandType
  <2> HIDE DEF r
  <2>5. Fine(r, a)
    BY <1>1, <1>6, <2>1, <2>4 DEF Fine, Silent, Answered, Waits, Spread, Settled
  <2> QED BY <1>3, <1>6, <2>2, <2>3, <2>4, <2>5, OneKept DEF Moves
<1> QED BY <1>7, <1>8, <1>9

LEMMA ReadCloseKeeps ==
    ASSUME OneShotInv, NEW a \in Ids, ReadClose(a)
    PROVE  OneShotInv'
BY ExitKeeps, QuietIsTyped DEF ReadClose, Becomes

LEMMA WindowEndsKeeps ==
    ASSUME OneShotInv, NEW a \in Ids, WindowEnds(a)
    PROVE  OneShotInv'
<1> DEFINE owes == Owes(cmd[a])
           e == Exit(cmd[a], "zero")
           r == [e EXCEPT !.open = owes]
<1>1. cmd[a] \in CommandType /\ Fine(cmd[a], a)
  BY Before
<1>2. /\ e \in CommandType
      /\ e.at = "zero" /\ e.inbox = <<>> /\ e.frame = cmd[a].frame /\ e.hub = cmd[a].hub
      /\ e.since = cmd[a].since /\ e.published = cmd[a].published /\ e.cause = cmd[a].cause
      /\ e.kind = cmd[a].kind /\ e.printed = cmd[a].printed /\ e.look = cmd[a].look
      /\ e.link = "none" => cmd[a].link = "none"
  BY <1>1, ExitIs
<1>3. owes \in BOOLEAN /\ (owes \/ cmd[a].printed \/ Logged(a))
  <2>1. cmd[a].link \in {"none", "up", "closed", "lost"}
    BY <1>1 DEF CommandType
  <2> QED BY <1>1, <2>1 DEF WindowEnds, Owes, Fine, Waits, Silent
<1>4. cmd' = [cmd EXCEPT ![a] = r] /\ log' = log /\ RestTyped /\ cmd[a].at = "waiting"
  BY QuietIsTyped DEF WindowEnds, Becomes
<1> HIDE DEF owes, e
<1>5. r \in CommandType
  BY <1>2, <1>3 DEF CommandType
<1>6. /\ r.at = "zero" /\ r.inbox = <<>> /\ r.frame = cmd[a].frame /\ r.hub = cmd[a].hub
      /\ r.since = cmd[a].since /\ r.published = cmd[a].published /\ r.cause = cmd[a].cause
      /\ r.kind = cmd[a].kind /\ r.printed = cmd[a].printed /\ r.look = cmd[a].look
      /\ r.open = owes /\ r.link = e.link
  BY <1>2 DEF CommandType
<1> HIDE DEF r
<1>7. Fine(r, a)
  BY <1>1, <1>2, <1>3, <1>4, <1>6 DEF Fine, Silent, Answered, Waits, Spread, Settled
<1> QED BY <1>4, <1>5, <1>6, <1>7, OneKept DEF Moves

LEMMA NoticeLossKeeps ==
    ASSUME OneShotInv, NEW a \in Ids, NoticeLoss(a)
    PROVE  OneShotInv'
<1> DEFINE r == [cmd[a] EXCEPT !.link = "closed"]
<1>1. cmd[a] \in CommandType /\ Fine(cmd[a], a) /\ cmd[a].link = "lost"
  BY Before DEF NoticeLoss
<1>2. r \in CommandType
  BY <1>1 DEF CommandType
<1>3. /\ r.at = cmd[a].at /\ r.inbox = cmd[a].inbox /\ r.frame = cmd[a].frame
      /\ r.hub = cmd[a].hub /\ r.since = cmd[a].since /\ r.published = cmd[a].published
      /\ r.cause = cmd[a].cause /\ r.kind = cmd[a].kind /\ r.look = cmd[a].look
      /\ r.printed = cmd[a].printed /\ r.open = cmd[a].open /\ r.link = "closed"
  BY <1>1 DEF CommandType
<1>4. cmd' = [cmd EXCEPT ![a] = r] /\ log' = log /\ RestTyped
  BY QuietIsTyped DEF NoticeLoss, Becomes
<1> HIDE DEF r
<1>5. Fine(r, a)
  BY <1>1, <1>3 DEF Fine, Silent, Answered, Waits, Spread, Settled
<1> QED BY <1>2, <1>3, <1>4, <1>5, OneKept DEF Moves

\* From behind the cursor a command began with, a whole read sees it if it is there.
LEMMA Offset ==
    ASSUME NEW s \in Nat, NEW k \in Nat, NEW n \in Nat, k > s, k <= n
    PROVE  /\ s + 1 \in Nat \ {0} /\ (s + 1) + (k - s) - 1 = k
           /\ k - s \in 1..(n - (s + 1) + 1)
OBVIOUS

LEMMA LookKeeps ==
    ASSUME OneShotInv, NEW a \in Ids, Look(a)
    PROVE  OneShotInv'
<1> DEFINE look == LookFrom(cmd[a].since, a)
           r == [cmd[a] EXCEPT !.look = look]
<1>1. cmd[a] \in CommandType /\ Fine(cmd[a], a)
  BY Before
<1>2. look \in {"found", "pending", "narrowed", "absent"}
  BY DEF LookFrom
<1>3. ASSUME look = "absent" PROVE ~Logged(a) /\ cmd[a].frame # "sent"
  <2>1. /\ cmd[a].frame # "sent"
        /\ ~Contains(SubSeq(log, cmd[a].since + 1, Len(log)), a)
    BY <1>3 DEF LookFrom, ReadFrom
  <2>2. log \in Seq(0..MaxCommands) /\ cmd[a].since \in Nat
    BY <1>1 DEF OneShotInv, TypeOK, CommandType
  <2>3. ASSUME NEW k \in DOMAIN log, log[k] = a PROVE FALSE
    <3>1. k > cmd[a].since /\ k \in 1..Len(log)
      BY <2>2, <2>3 DEF OneShotInv, Positions
    <3> DEFINE m == cmd[a].since + 1
               i == k - cmd[a].since
    <3>2. m \in Nat \ {0} /\ Len(log) \in Nat /\ m + i - 1 = k /\ i \in 1..(Len(log) - m + 1)
      <4>1. cmd[a].since \in Nat /\ Len(log) \in Nat /\ k \in Nat
        BY <2>2, <3>1
      <4>2. k > cmd[a].since /\ k <= Len(log)
        BY <3>1, <4>1
      <4> QED BY <4>1, <4>2, Offset
    <3>3. ~Contains(SubSeq(log, m, Len(log)), a)
      BY <2>1
    <3> HIDE DEF m, i
    <3>4. i \in 1..Len(SubSeq(log, m, Len(log)))
      BY <2>2, <3>2
    <3>5. SubSeq(log, m, Len(log))[i] = log[m + i - 1]
      BY <2>2, <3>2
    <3> QED BY <2>3, <3>2, <3>3, <3>4, <3>5 DEF Contains
  <2> QED BY <2>1, <2>2, <2>3 DEF Logged, Contains
<1>4. /\ cmd' = [cmd EXCEPT ![a] = r] /\ log' = log /\ RestTyped
      /\ cmd[a].at \in {"unknown", "rejected"}
  BY QuietIsTyped DEF Look, Becomes
<1> HIDE DEF look
<1>5. r \in CommandType
  BY <1>1, <1>2 DEF CommandType
<1>6. /\ r.at = cmd[a].at /\ r.inbox = cmd[a].inbox /\ r.frame = cmd[a].frame
      /\ r.hub = cmd[a].hub /\ r.since = cmd[a].since /\ r.published = cmd[a].published
      /\ r.cause = cmd[a].cause /\ r.kind = cmd[a].kind /\ r.look = look
      /\ r.printed = cmd[a].printed /\ r.open = cmd[a].open /\ r.link = cmd[a].link
  BY <1>1 DEF CommandType
<1> HIDE DEF r
<1>7. Fine(r, a)
  BY <1>1, <1>3, <1>4, <1>6 DEF Fine, Silent, Answered, Waits, Spread, Settled
<1> QED BY <1>4, <1>5, <1>6, <1>7, OneKept DEF Moves

-----------------------------------------------------------------------------
(* The handler.  It changes where it is, what it told, and what became of the
   frame and the connection; the command itself stays where it is. *)

\* What every step of a handler, and every fault, must keep of a command that it
\* does not log.
Serves(c, r) ==
    /\ r.at = c.at /\ r.since = c.since /\ r.kind = c.kind /\ r.printed = c.printed
    /\ r.open = c.open /\ r.look = c.look /\ r.published = c.published
    /\ r.link = "none" => c.link = "none"
    /\ r.link = "up" => c.link = "up"

LEMMA ServesKeeps ==
    ASSUME NEW a \in Ids, NEW c, NEW r, Fine(c, a), Serves(c, r),
           c.at # "unused" \/ r.hub = "none",
           r.frame = c.frame \/ (c.frame = "sent" /\ r.frame \in {"lost", "taken"}),
           r.link = "up" /\ c.frame = "sent" /\ r.frame # "sent" => r.inbox # <<>>,
           \A k \in DOMAIN r.inbox : r.inbox[k] = "ok" => Logged(a),
           r.link = "up" /\ c.inbox # <<>> => r.inbox # <<>>,
           r.hub \in {"answering", "publishing"} => Logged(a),
           Spread(r, a)
    PROVE  Fine(r, a)
<1>1. Silent(r, a)
  BY DEF Fine, Silent, Serves
<1>2. Answered(r, a)
  BY DEF Fine, Answered, Serves
<1>3. Waits(r, a)
  BY DEF Fine, Waits, Serves
<1>4. Settled(r, a)
  BY DEF Fine, Settled, Serves
<1> QED BY <1>1, <1>2, <1>3, <1>4 DEF Fine

LEMMA AdmitKeeps ==
    ASSUME OneShotInv, NEW a \in Ids, Admit(a)
    PROVE  OneShotInv'
<1>1. cmd[a] \in CommandType /\ Fine(cmd[a], a) /\ cmd[a].hub = "hello"
  BY Before DEF Admit
<1>2. cmd[a].at # "unused"
  BY <1>1 DEF Fine, Silent
<1>3. log' = log /\ RestTyped /\ gen' \in Nat
  BY DEF Admit, RestTyped, OneShotInv, TypeOK
<1>4. CASE openMode /\ holder = "them"
  <2> DEFINE inbox == Told(a, "refused")
             link == Cut(cmd[a].link)
             r == [cmd[a] EXCEPT !.hub = "gone", !.inbox = inbox, !.link = link]
  <2>1. /\ inbox \in Seq(Answers)
        /\ \A k \in DOMAIN inbox : inbox[k] = "ok" => Logged(a)
        /\ link \in {"none", "closed", "lost"}
        /\ link = "none" => cmd[a].link = "none"
    BY <1>1, ToldIs DEF Answers, Cut, CommandType
  <2>2. cmd' = [cmd EXCEPT ![a] = r]
    BY <1>4 DEF Admit, Becomes
  <2> HIDE DEF inbox, link
  <2>3. r \in CommandType
    BY <1>1, <2>1 DEF CommandType
  <2>4. Serves(cmd[a], r)
    BY <1>1, <2>1 DEF CommandType, Serves
  <2>5. /\ r.hub = "gone" /\ r.inbox = inbox /\ r.link = link /\ r.frame = cmd[a].frame
        /\ r.cause = cmd[a].cause
    BY <1>1 DEF CommandType
  <2> HIDE DEF r
  <2>6. Spread(r, a)
    BY <1>1, <2>4, <2>5 DEF Serves, Fine, Spread
  <2>7. Fine(r, a)
    BY <1>1, <1>2, <2>1, <2>4, <2>5, <2>6, ServesKeeps
  <2> QED BY <1>3, <2>2, <2>3, <2>4, <2>7, OneKept DEF Moves, Serves
<1>5. CASE ~(openMode /\ holder = "them")
  <2> DEFINE inbox == Told(a, "welcome")
             newGen == gen'
             r == [cmd[a] EXCEPT !.hub = "greeting", !.inbox = inbox, !.gen = newGen]
  <2>1. /\ inbox \in Seq(Answers)
        /\ \A k \in DOMAIN inbox : inbox[k] = "ok" => Logged(a)
        /\ cmd[a].link = "up" => inbox # <<>>
        /\ newGen \in Nat
    BY <1>3, ToldIs DEF Answers
  <2>2. cmd' = [cmd EXCEPT ![a] = r]
    BY <1>5 DEF Admit, Becomes
  <2> HIDE DEF inbox, newGen
  <2>3. r \in CommandType
    BY <1>1, <2>1 DEF CommandType
  <2>4. Serves(cmd[a], r)
    BY <1>1 DEF CommandType, Serves
  <2>5. /\ r.hub = "greeting" /\ r.inbox = inbox /\ r.link = cmd[a].link
        /\ r.frame = cmd[a].frame /\ r.cause = cmd[a].cause
    BY <1>1 DEF CommandType
  <2> HIDE DEF r
  <2>6. Spread(r, a)
    BY <1>1, <2>4, <2>5 DEF Serves, Fine, Spread
  <2>7. Fine(r, a)
    BY <1>1, <1>2, <2>1, <2>4, <2>5, <2>6, ServesKeeps
  <2> QED BY <1>3, <2>2, <2>3, <2>4, <2>7, OneKept DEF Moves, Serves
<1> QED BY <1>4, <1>5

LEMMA EndGreetingKeeps ==
    ASSUME OneShotInv, NEW a \in Ids, EndGreeting(a)
    PROVE  OneShotInv'
<1> DEFINE r == [cmd[a] EXCEPT !.hub = "loop"]
<1>1. cmd[a] \in CommandType /\ Fine(cmd[a], a) /\ cmd[a].hub = "greeting"
  BY Before DEF EndGreeting
<1>2. r \in CommandType /\ Serves(cmd[a], r)
  BY <1>1 DEF CommandType, Serves
<1>3. /\ r.hub = "loop" /\ r.inbox = cmd[a].inbox /\ r.link = cmd[a].link
      /\ r.frame = cmd[a].frame /\ r.cause = cmd[a].cause
  BY <1>1 DEF CommandType
<1>4. cmd' = [cmd EXCEPT ![a] = r] /\ log' = log /\ RestTyped
  BY QuietIsTyped DEF EndGreeting, Becomes
<1> HIDE DEF r
<1>5. Spread(r, a) /\ cmd[a].at # "unused" /\ \A k \in DOMAIN r.inbox : r.inbox[k] = "ok" => Logged(a)
  BY <1>1, <1>2, <1>3 DEF Serves, Fine, Spread, Silent, Answered
<1>6. Fine(r, a)
  BY <1>1, <1>2, <1>3, <1>5, ServesKeeps
<1> QED BY <1>2, <1>4, <1>6, OneKept DEF Moves, Serves

LEMMA LeaveKeeps ==
    ASSUME OneShotInv, NEW a \in Ids, Leave(a)
    PROVE  OneShotInv'
<1> DEFINE frame == IF cmd[a].frame = "sent" THEN "lost" ELSE cmd[a].frame
           r == [cmd[a] EXCEPT !.hub = "gone", !.frame = frame]
<1>1. /\ cmd[a] \in CommandType /\ Fine(cmd[a], a)
      /\ cmd[a].hub \in {"greeting", "loop"} /\ cmd[a].link # "up"
  BY Before DEF Leave
<1>2. /\ frame \in {"none", "sent", "taken", "lost"}
      /\ frame = cmd[a].frame \/ (cmd[a].frame = "sent" /\ frame = "lost")
  BY <1>1 DEF CommandType
<1>3. cmd' = [cmd EXCEPT ![a] = r] /\ log' = log /\ RestTyped
  BY QuietIsTyped DEF Leave, Becomes
<1> HIDE DEF frame
<1>4. r \in CommandType /\ Serves(cmd[a], r)
  <2> DEFINE gone == [cmd[a] EXCEPT !.hub = "gone"]
  <2>1. r = [gone EXCEPT !.frame = frame]
    BY <1>1 DEF CommandType
  <2>2. gone \in CommandType
    BY <1>1, HubField
  <2>3. Serves(cmd[a], r)
    BY <1>1, <1>2 DEF CommandType, Serves
  <2> HIDE DEF r, gone
  <2> QED BY <1>2, <2>1, <2>2, <2>3, FrameField
<1>5. /\ r.hub = "gone" /\ r.inbox = cmd[a].inbox /\ r.link = cmd[a].link
      /\ r.frame = frame /\ r.cause = cmd[a].cause
  BY <1>1 DEF CommandType
<1> HIDE DEF r
<1>6. Spread(r, a) /\ cmd[a].at # "unused" /\ \A k \in DOMAIN r.inbox : r.inbox[k] = "ok" => Logged(a)
  BY <1>1, <1>4, <1>5 DEF Serves, Fine, Spread, Silent, Answered
<1>7. Fine(r, a)
  BY <1>1, <1>2, <1>4, <1>5, <1>6, ServesKeeps
<1> QED BY <1>3, <1>4, <1>7, OneKept DEF Moves, Serves

\* A frame that is answered with an error: from an older generation, without the
\* right to it, or because the append raised.
LEMMA RefusalKeeps ==
    ASSUME OneShotInv, NEW a \in Ids, NEW hub \in {"loop", "gone"},
           NEW link \in {"none", "up", "closed", "lost"}, Taking(a),
           link = "none" => cmd[a].link = "none", link = "up" => cmd[a].link = "up",
           cmd' = [cmd EXCEPT ![a] = [cmd[a] EXCEPT !.frame = "taken",
                      !.inbox = Told(a, "error"), !.hub = hub, !.link = link]],
           log' = log, RestTyped
    PROVE  OneShotInv'
<1> DEFINE inbox == Told(a, "error")
           r == [cmd[a] EXCEPT !.frame = "taken", !.inbox = inbox, !.hub = hub, !.link = link]
<1>1. cmd[a] \in CommandType /\ Fine(cmd[a], a) /\ cmd[a].frame = "sent"
  BY Before DEF Taking
<1>2. /\ inbox \in Seq(Answers)
      /\ \A k \in DOMAIN inbox : inbox[k] = "ok" => Logged(a)
      /\ cmd[a].link = "up" => inbox # <<>>
  BY ToldIs DEF Answers
<1>3. cmd' = [cmd EXCEPT ![a] = r]
  OBVIOUS
<1> HIDE DEF inbox
<1>4. r \in CommandType /\ Serves(cmd[a], r)
  <2> DEFINE taken == [cmd[a] EXCEPT !.frame = "taken"]
             told == [taken EXCEPT !.inbox = inbox]
             moved == [told EXCEPT !.hub = hub]
  <2>1. r = [moved EXCEPT !.link = link]
    BY <1>1 DEF CommandType
  <2>2. Serves(cmd[a], r)
    BY <1>1, <1>2 DEF CommandType, Serves
  <2>3. taken \in CommandType
    BY <1>1, FrameField
  <2> HIDE DEF r, taken
  <2>4. told \in CommandType
    BY <1>2, <2>3, InboxField
  <2> HIDE DEF told
  <2>5. moved \in CommandType
    BY <2>4, HubField
  <2> HIDE DEF moved
  <2> QED BY <2>1, <2>2, <2>5, LinkField
<1>5. /\ r.hub = hub /\ r.inbox = inbox /\ r.link = link /\ r.frame = "taken"
  BY <1>1 DEF CommandType
<1> HIDE DEF r
<1>6. ~Logged(a) /\ cmd[a].at # "unused"
  BY <1>1 DEF Fine, Silent
<1>7. Spread(r, a)
  BY <1>6 DEF Spread
<1>8. Fine(r, a)
  BY <1>1, <1>2, <1>4, <1>5, <1>6, <1>7, ServesKeeps
<1> QED BY <1>3, <1>4, <1>8, OneKept DEF Moves, Serves

LEMMA TakeStaleKeeps ==
    ASSUME OneShotInv, NEW a \in Ids, TakeStale(a)
    PROVE  OneShotInv'
<1> DEFINE link == Cut(cmd[a].link)
<1>1. /\ link \in {"none", "up", "closed", "lost"} /\ link # "up"
      /\ link = "none" => cmd[a].link = "none"
  BY Before DEF Cut, CommandType
<1>2. /\ cmd' = [cmd EXCEPT ![a] = [cmd[a] EXCEPT !.frame = "taken",
                    !.inbox = Told(a, "error"), !.hub = "gone", !.link = link]]
      /\ log' = log /\ RestTyped /\ Taking(a)
  BY QuietIsTyped DEF TakeStale, Becomes
<1> HIDE DEF link
<1> QED BY <1>1, <1>2, RefusalKeeps

LEMMA RefuseKeeps ==
    ASSUME OneShotInv, NEW a \in Ids, Taking(a), Refuse(a, "loop"), log' = log, RestTyped
    PROVE  OneShotInv'
<1> DEFINE link == cmd[a].link
<1>1. cmd[a] \in CommandType /\ link \in {"none", "up", "closed", "lost"}
  BY Before DEF CommandType
<1>2. cmd[a] = [cmd[a] EXCEPT !.link = link]
  BY <1>1 DEF CommandType
<1>3. [cmd[a] EXCEPT !.frame = "taken", !.inbox = Told(a, "error"), !.hub = "loop"]
        = [cmd[a] EXCEPT !.frame = "taken", !.inbox = Told(a, "error"), !.hub = "loop",
                         !.link = link]
  BY <1>1 DEF CommandType
<1>4. cmd' = [cmd EXCEPT ![a] = [cmd[a] EXCEPT !.frame = "taken",
                    !.inbox = Told(a, "error"), !.hub = "loop", !.link = link]]
  BY <1>3 DEF Refuse, Becomes
<1> QED BY <1>1, <1>4, RefusalKeeps

\* The frame is logged: it is the handler's now, which will answer or, when the
\* snapshot failed, has done so.
LEMMA LoggingKeeps ==
    ASSUME OneShotInv, NEW a \in Ids, NEW hub, NEW inbox \in Seq(Answers), NEW cause,
           \/ hub = "answering" /\ cause = cmd[a].cause
           \/ hub = "loop" /\ cause = "snapshot",
           Taking(a), log' = Append(log, a), RestTyped,
           cmd' = [cmd EXCEPT ![a] = [cmd[a] EXCEPT !.frame = "taken", !.inbox = inbox,
                                                    !.hub = hub, !.cause = cause]]
    PROVE  OneShotInv'
<1>1. cmd[a] \in CommandType /\ Fine(cmd[a], a) /\ cmd[a].frame = "sent"
  BY Before DEF Taking
<1>2. ~Logged(a) /\ cmd[a].at # "unused"
  BY <1>1 DEF Fine, Silent
<1>3. /\ hub \in {"none", "hello", "greeting", "loop", "answering", "publishing", "gone"}
      /\ cause \in {"none", "sender", "crash", "snapshot"}
  BY <1>1 DEF CommandType
<1>4. PICK r : r = [cmd[a] EXCEPT !.frame = "taken", !.inbox = inbox, !.hub = hub, !.cause = cause]
  OBVIOUS
<1>5. r \in CommandType
  <2> DEFINE taken == [cmd[a] EXCEPT !.frame = "taken"]
             told == [taken EXCEPT !.inbox = inbox]
             moved == [told EXCEPT !.hub = hub]
  <2>1. r = [moved EXCEPT !.cause = cause]
    BY <1>1, <1>4 DEF CommandType
  <2>2. taken \in CommandType
    BY <1>1, FrameField
  <2> HIDE DEF taken
  <2>3. told \in CommandType
    BY <2>2, InboxField
  <2> HIDE DEF told
  <2>4. moved \in CommandType
    BY <1>3, <2>3, HubField
  <2> HIDE DEF moved
  <2> QED BY <1>3, <2>1, <2>4, CauseField
<1>6. /\ r.frame = "taken" /\ r.hub = hub /\ r.cause = cause /\ r.since = cmd[a].since
      /\ r.at = cmd[a].at /\ r.look = cmd[a].look /\ r.link = cmd[a].link
  BY <1>1, <1>4 DEF CommandType
<1>7. cmd[a].at \notin {"unused", "hello", "refused"} /\ cmd[a].look # "absent"
      /\ cmd[a].link # "none"
  BY <1>1, <1>2 DEF Fine, Silent, Settled
<1>8. ASSUME Logged(a)' PROVE Fine(r, a)'
  <2>1. Silent(r, a)' /\ Answered(r, a)' /\ Waits(r, a)' /\ Settled(r, a)'
    BY <1>6, <1>7, <1>8 DEF Silent, Answered, Waits, Settled
  <2>2. Spread(r, a)'
    BY <1>6, <1>8 DEF Spread
  <2> QED BY <2>1, <2>2 DEF Fine
<1> QED BY <1>2, <1>4, <1>5, <1>6, <1>8, OneLogged DEF Moves

LEMMA TakeKeeps ==
    ASSUME OneShotInv, NEW a \in Ids, Take(a)
    PROVE  OneShotInv'
<1> DEFINE inbox == cmd[a].inbox
           cause == cmd[a].cause
<1>1. cmd[a] \in CommandType /\ inbox \in Seq(Answers)
  BY Before DEF CommandType
<1>2. [cmd[a] EXCEPT !.frame = "taken", !.hub = "answering"]
        = [cmd[a] EXCEPT !.frame = "taken", !.inbox = inbox, !.hub = "answering", !.cause = cause]
  BY <1>1 DEF CommandType
<1>3. cmd' = [cmd EXCEPT ![a] = [cmd[a] EXCEPT !.frame = "taken", !.inbox = inbox,
                                              !.hub = "answering", !.cause = cause]]
  BY <1>2 DEF Take, Becomes
<1>4. Taking(a) /\ log' = Append(log, a) /\ RestTyped
  BY QuietIsTyped DEF Take
<1> QED BY <1>1, <1>3, <1>4, LoggingKeeps

LEMMA SnapshotFailsKeeps ==
    ASSUME OneShotInv, NEW a \in Ids, SnapshotFails(a)
    PROVE  OneShotInv'
<1>1. Told(a, "error") \in Seq(Answers)
  BY ToldIs DEF Answers
<1>2. Taking(a) /\ log' = Append(log, a) /\ RestTyped
  BY DEF SnapshotFails, RestTyped, OneShotInv, TypeOK
<1>3. cmd' = [cmd EXCEPT ![a] = [cmd[a] EXCEPT !.frame = "taken", !.inbox = Told(a, "error"),
                                              !.hub = "loop", !.cause = "snapshot"]]
  BY DEF SnapshotFails, Becomes
<1> QED BY <1>1, <1>2, <1>3, LoggingKeeps

\* The answer goes behind what was told before, and an ok speaks of what is logged.
LEMMA AnswerKeeps ==
    ASSUME OneShotInv, NEW a \in Ids, Answer(a)
    PROVE  OneShotInv'
<1>1. cmd[a] \in CommandType /\ Fine(cmd[a], a) /\ cmd[a].hub = "answering"
  BY Before DEF Answer
<1>2. Logged(a) /\ cmd[a].at # "unused" /\ log' = log /\ RestTyped
  BY <1>1, QuietIsTyped DEF Fine, Answered, Silent, Answer
<1>3. CASE MustHear(cmd[a].kind) /\ cmd[a].link = "closed"
  <2> DEFINE r == [cmd[a] EXCEPT !.hub = "gone", !.cause = "sender"]
  <2>1. r \in CommandType /\ Serves(cmd[a], r)
    <3> DEFINE gone == [cmd[a] EXCEPT !.hub = "gone"]
    <3>1. r = [gone EXCEPT !.cause = "sender"]
      BY <1>1 DEF CommandType
    <3>2. gone \in CommandType
      BY <1>1, HubField
    <3>3. Serves(cmd[a], r)
      BY <1>1 DEF CommandType, Serves
    <3> HIDE DEF r, gone
    <3> QED BY <3>1, <3>2, <3>3, CauseField
  <2>2. /\ r.hub = "gone" /\ r.inbox = cmd[a].inbox /\ r.link = cmd[a].link
        /\ r.frame = cmd[a].frame /\ r.cause = "sender"
    BY <1>1 DEF CommandType
  <2>3. cmd' = [cmd EXCEPT ![a] = r]
    BY <1>3 DEF Answer, Becomes
  <2> HIDE DEF r
  <2>4. Spread(r, a)
    BY <1>3, <2>1, <2>2 DEF Serves, Spread, MustHear
  <2>5. Fine(r, a)
    BY <1>1, <1>2, <2>1, <2>2, <2>4, ServesKeeps
  <2> QED BY <1>2, <2>1, <2>3, <2>5, OneKept DEF Moves, Serves
<1>4. CASE ~(MustHear(cmd[a].kind) /\ cmd[a].link = "closed")
  <2> DEFINE inbox == IF cmd[a].link = "up" THEN cmd[a].inbox \o AnswerTo(cmd[a].kind)
                      ELSE cmd[a].inbox
             r == [cmd[a] EXCEPT !.hub = "publishing", !.inbox = inbox]
  <2>1. cmd[a].inbox \in Seq(Answers) /\ AnswerTo(cmd[a].kind) \in Seq(Answers)
    <3>1. AnswerTo(cmd[a].kind) \in {<<"error">>, <<"ok">>, <<>>}
      BY DEF AnswerTo
    <3>2. <<"error">> \in Seq(Answers) /\ <<"ok">> \in Seq(Answers) /\ <<>> \in Seq(Answers)
      BY DEF Answers
    <3> QED BY <1>1, <3>1, <3>2 DEF CommandType
  <2>2. inbox \in Seq(Answers) /\ (cmd[a].inbox # <<>> => inbox # <<>>)
    BY <2>1
  <2>3. cmd' = [cmd EXCEPT ![a] = r]
    BY <1>4 DEF Answer, Becomes
  <2> HIDE DEF inbox
  <2>4. r \in CommandType
    BY <1>1, <2>2 DEF CommandType
  <2>5. Serves(cmd[a], r)
    BY <1>1 DEF CommandType, Serves
  <2>6. /\ r.hub = "publishing" /\ r.inbox = inbox /\ r.link = cmd[a].link
        /\ r.frame = cmd[a].frame
    BY <1>1 DEF CommandType
  <2> HIDE DEF r
  <2>7. Spread(r, a)
    BY <2>6 DEF Spread
  <2>8. Fine(r, a)
    BY <1>1, <1>2, <2>2, <2>5, <2>6, <2>7, ServesKeeps
  <2> QED BY <1>2, <2>3, <2>4, <2>5, <2>8, OneKept DEF Moves, Serves
<1> QED BY <1>3, <1>4

LEMMA PublishKeeps ==
    ASSUME OneShotInv, NEW a \in Ids, Publish(a)
    PROVE  OneShotInv'
<1> DEFINE r == [cmd[a] EXCEPT !.hub = "loop", !.published = TRUE]
<1>1. /\ cmd[a] \in CommandType /\ Fine(cmd[a], a) /\ Logged(a)
  BY Before DEF Publish, Fine, Answered
<1>2. cmd' = [cmd EXCEPT ![a] = r] /\ log' = log /\ RestTyped /\ cmd[a].hub = "publishing"
  BY QuietIsTyped DEF Publish, Becomes
<1>3. r \in CommandType
  BY <1>1 DEF CommandType
<1>4. /\ r.at = cmd[a].at /\ r.inbox = cmd[a].inbox /\ r.frame = cmd[a].frame
      /\ r.hub = "loop" /\ r.since = cmd[a].since /\ r.published = TRUE
      /\ r.look = cmd[a].look /\ r.link = cmd[a].link
  BY <1>1 DEF CommandType
<1> HIDE DEF r
<1>5. Fine(r, a)
  BY <1>1, <1>2, <1>4 DEF Fine, Silent, Answered, Waits, Spread, Settled
<1> QED BY <1>2, <1>3, <1>4, <1>5, OneKept DEF Moves

-----------------------------------------------------------------------------
(* The room, and what goes wrong. *)

LEMMA LinkBreaksKeeps ==
    ASSUME OneShotInv, NEW a \in Ids, LinkBreaks(a)
    PROVE  OneShotInv'
<1>1. PICK inbox \in {cmd[a].inbox, <<>>},
           frame \in IF cmd[a].frame = "sent" THEN {"sent", "lost"} ELSE {cmd[a].frame} :
        cmd' = [cmd EXCEPT ![a] = [cmd[a] EXCEPT !.link = "lost", !.inbox = inbox,
                                                 !.frame = frame]]
  BY DEF LinkBreaks, Becomes
<1> DEFINE r == [cmd[a] EXCEPT !.link = "lost", !.inbox = inbox, !.frame = frame]
<1>2. /\ cmd[a] \in CommandType /\ Fine(cmd[a], a) /\ cmd[a].link = "up"
      /\ log' = log /\ RestTyped
  BY Before DEF LinkBreaks, RestTyped, OneShotInv, TypeOK
<1>3. inbox \in Seq(Answers) /\ \A k \in DOMAIN inbox : inbox[k] = "ok" => Logged(a)
  <2>1. CASE inbox = cmd[a].inbox
    BY <1>2, <2>1 DEF CommandType, Fine, Answered
  <2>2. CASE inbox = <<>>
    BY <2>2
  <2> QED BY <2>1, <2>2
<1>4. /\ frame \in {"none", "sent", "taken", "lost"}
      /\ frame = cmd[a].frame \/ (cmd[a].frame = "sent" /\ frame = "lost")
  BY <1>2 DEF CommandType
<1>5. r \in CommandType
  BY <1>2, <1>3, <1>4 DEF CommandType
<1>6. /\ r.at = cmd[a].at /\ r.inbox = inbox /\ r.frame = frame
      /\ r.hub = cmd[a].hub /\ r.since = cmd[a].since /\ r.published = cmd[a].published
      /\ r.cause = cmd[a].cause /\ r.kind = cmd[a].kind /\ r.look = cmd[a].look
      /\ r.printed = cmd[a].printed /\ r.open = cmd[a].open /\ r.link = "lost"
  BY <1>2 DEF CommandType
<1> HIDE DEF r
<1>7. Fine(r, a)
  <2>1. Silent(r, a) /\ Answered(r, a)
    BY <1>2, <1>3, <1>4, <1>6 DEF Fine, Silent, Answered
  <2>2. Waits(r, a) /\ Settled(r, a)
    BY <1>2, <1>4, <1>6 DEF Fine, Waits, Settled
  <2>3. Spread(r, a)
    BY <1>2, <1>6 DEF Fine, Spread
  <2> QED BY <2>1, <2>2, <2>3 DEF Fine
<1>8. cmd' = [cmd EXCEPT ![a] = r]
  BY <1>1 DEF r
<1> QED BY <1>2, <1>5, <1>6, <1>7, <1>8, OneKept DEF Moves

\* The connections of a name are closed behind a last word.
LEMMA CutOffKeeps ==
    ASSUME OneShotInv, NEW a \in Ids
    PROVE  /\ CutOff(a) \in CommandType /\ CutOff(a).since = cmd[a].since
           /\ Fine(CutOff(a), a)
<1> DEFINE inbox == Told(a, "error")
           link == Cut(cmd[a].link)
           r == [cmd[a] EXCEPT !.inbox = inbox, !.link = link]
<1>1. cmd[a] \in CommandType /\ Fine(cmd[a], a)
  BY Before
<1>2. CASE ~Routed(a)
  BY <1>1, <1>2 DEF CutOff
<1>3. CASE Routed(a)
  <2>1. /\ inbox \in Seq(Answers)
        /\ \A k \in DOMAIN inbox : inbox[k] = "ok" => Logged(a)
        /\ link \in {"none", "closed", "lost"} /\ (link = "none" => cmd[a].link = "none")
    BY <1>1, ToldIs DEF Answers, Cut, CommandType
  <2>2. CutOff(a) = r /\ cmd[a].at # "unused"
    BY <1>1, <1>3 DEF CutOff, Routed, Fine, Silent
  <2> HIDE DEF inbox, link
  <2>3. r \in CommandType
    BY <1>1, <2>1 DEF CommandType
  <2>4. Serves(cmd[a], r)
    BY <1>1, <2>1 DEF CommandType, Serves
  <2>5. /\ r.hub = cmd[a].hub /\ r.inbox = inbox /\ r.link = link
        /\ r.frame = cmd[a].frame /\ r.cause = cmd[a].cause
    BY <1>1 DEF CommandType
  <2> HIDE DEF r
  <2>6. Spread(r, a) /\ (r.hub \in {"answering", "publishing"} => Logged(a))
    BY <1>1, <2>4, <2>5 DEF Serves, Fine, Spread, Answered
  <2>7. Fine(r, a)
    BY <1>1, <2>1, <2>2, <2>4, <2>5, <2>6, ServesKeeps
  <2> QED BY <2>2, <2>3, <2>4, <2>7 DEF Serves
<1> QED BY <1>2, <1>3

\* The hub dies with whatever its handlers were doing.
LEMMA CrashedKeeps ==
    ASSUME OneShotInv, NEW a \in Ids, NEW broken \in {"closed", "lost"}
    PROVE  /\ Crashed(a, broken) \in CommandType
           /\ Crashed(a, broken).since = cmd[a].since
           /\ Fine(Crashed(a, broken), a)
<1> DEFINE link == IF cmd[a].link = "up" THEN broken ELSE cmd[a].link
           frame == IF cmd[a].frame = "sent" THEN "lost" ELSE cmd[a].frame
           cause == IF cmd[a].hub \in {"answering", "publishing"} THEN "crash" ELSE cmd[a].cause
           r == [cmd[a] EXCEPT !.hub = "gone", !.link = link, !.frame = frame, !.cause = cause]
<1>1. cmd[a] \in CommandType /\ Fine(cmd[a], a)
  BY Before
<1>2. CASE cmd[a].hub \in {"none", "gone"}
  BY <1>1, <1>2 DEF Crashed
<1>3. CASE cmd[a].hub \notin {"none", "gone"}
  <2>1. /\ link \in {"none", "up", "closed", "lost"} /\ link # "up"
        /\ link = "none" => cmd[a].link = "none"
    BY <1>1 DEF CommandType
  <2>2. /\ frame \in {"none", "sent", "taken", "lost"}
        /\ frame = cmd[a].frame \/ (cmd[a].frame = "sent" /\ frame = "lost")
    BY <1>1 DEF CommandType
  <2>3. /\ cause \in {"none", "sender", "crash", "snapshot"}
        /\ cmd[a].hub \in {"answering", "publishing"} => cause = "crash"
        /\ cmd[a].hub \notin {"answering", "publishing"} => cause = cmd[a].cause
    BY <1>1 DEF CommandType
  <2>4. Crashed(a, broken) = r
    BY <1>1, <1>3 DEF Crashed, CommandType
  <2> HIDE DEF link, frame, cause
  <2>5. r \in CommandType
    <3> DEFINE gone == [cmd[a] EXCEPT !.hub = "gone"]
               cut == [gone EXCEPT !.link = link]
               left == [cut EXCEPT !.frame = frame]
    <3>1. r = [left EXCEPT !.cause = cause]
      BY <1>1 DEF CommandType
    <3>2. gone \in CommandType
      BY <1>1, HubField
    <3> HIDE DEF gone, r
    <3>3. cut \in CommandType
      BY <2>1, <3>2, LinkField
    <3> HIDE DEF cut
    <3>4. left \in CommandType
      BY <2>2, <3>3, FrameField
    <3> HIDE DEF left
    <3> QED BY <2>3, <3>1, <3>4, CauseField
  <2>6. Serves(cmd[a], r)
    BY <1>1, <2>1 DEF CommandType, Serves
  <2>7. /\ r.hub = "gone" /\ r.inbox = cmd[a].inbox /\ r.link = link
        /\ r.frame = frame /\ r.cause = cause
    BY <1>1 DEF CommandType
  <2> HIDE DEF r
  <2>8. cmd[a].at # "unused" /\ \A k \in DOMAIN r.inbox : r.inbox[k] = "ok" => Logged(a)
    BY <1>1, <1>3, <2>7 DEF Fine, Silent, Answered
  <2>9. Spread(r, a)
    BY <1>1, <2>3, <2>6, <2>7 DEF Serves, Fine, Spread
  <2>10. Fine(r, a)
    BY <1>1, <2>1, <2>2, <2>6, <2>7, <2>8, <2>9, ServesKeeps
  <2> QED BY <2>4, <2>5, <2>6, <2>10 DEF Serves
<1> QED BY <1>2, <1>3

\* What happens to the commands as a whole.
LEMMA OthersSayKeeps == ASSUME OneShotInv, OthersSay PROVE OneShotInv'
<1>1. cmd' = cmd /\ log' = Append(log, 0) /\ RestTyped
  BY QuietIsTyped DEF OthersSay
<1>2. \A a \in Ids : Kept(a)
  BY <1>1 DEF Kept, OneShotInv
<1> QED BY <1>1, <1>2, AllKept DEF OneShotInv, TypeOK

LEMMA RestKeeps ==
    ASSUME OneShotInv, Compact \/ TheyLeave \/ HubStarts
    PROVE  OneShotInv'
<1>1. cmd' = cmd /\ log' = log /\ RestTyped
  <2>1. TypeOK /\ Len(log) \in Nat
    BY DEF OneShotInv, TypeOK
  <2>2. CASE Compact
    BY <2>1, <2>2 DEF Compact, RestTyped, TypeOK
  <2>3. CASE TheyLeave
    BY <2>1, <2>3 DEF TheyLeave, RestTyped, TypeOK
  <2>4. CASE HubStarts
    BY <2>1, <2>4 DEF HubStarts, RestTyped, TypeOK
  <2> QED BY <2>2, <2>3, <2>4
<1>2. \A a \in Ids : Kept(a)
  BY <1>1 DEF Kept, OneShotInv
<1> QED BY <1>1, <1>2, AllKept DEF OneShotInv, TypeOK

LEMMA CutAllKeeps ==
    ASSUME OneShotInv, TheyEnter \/ WeAreKicked
    PROVE  OneShotInv'
<1>1. cmd' = [a \in Ids |-> CutOff(a)] /\ (log' = log \/ log' = Append(log, 0))
  BY DEF TheyEnter, WeAreKicked
<1>2. RestTyped
  BY DEF TheyEnter, WeAreKicked, RestTyped, OneShotInv, TypeOK
<1>3. cmd' \in [Ids -> CommandType] /\ \A a \in Ids : Kept(a)
  BY <1>1, CutOffKeeps DEF Kept
<1> QED BY <1>1, <1>2, <1>3, AllKept

LEMMA HubDiesKeeps == ASSUME OneShotInv, HubDies PROVE OneShotInv'
<1>1. PICK link \in {"closed", "lost"} : cmd' = [a \in Ids |-> Crashed(a, link)]
  BY DEF HubDies
<1>2. log' = log /\ RestTyped
  <2>1. /\ log' = log /\ up' = FALSE /\ faults' = faults + 1
        /\ holder' = IF holder = "them" THEN "gone" ELSE holder
        /\ openMode' = openMode /\ boundary' = boundary /\ gen' = gen
    BY DEF HubDies
  <2>2. /\ openMode \in BOOLEAN /\ boundary \in Nat /\ gen \in Nat /\ faults \in Nat
        /\ holder \in {"us", "them", "gone"}
    BY DEF OneShotInv, TypeOK
  <2>3. holder' \in {"us", "them", "gone"}
    BY <2>1, <2>2
  <2>4. faults' \in Nat
    BY <2>1, <2>2
  <2> QED BY <2>1, <2>2, <2>3, <2>4 DEF RestTyped
<1>3. cmd' \in [Ids -> CommandType] /\ \A a \in Ids : Kept(a)
  BY <1>1, CrashedKeeps DEF Kept
<1> QED BY <1>2, <1>3, AllKept

-----------------------------------------------------------------------------
(* The invariant, and what follows from it. *)

LEMMA Initially == Init => OneShotInv
<1> SUFFICES ASSUME Init PROVE OneShotInv
  OBVIOUS
<1>1. <<>> \in Seq(Answers) /\ NoCommand \in CommandType
  BY DEF NoCommand, CommandType, Sends
<1>2. log \in Seq(0..MaxCommands) /\ log = <<>>
  BY DEF Init
<1>3. TypeOK
  BY <1>1, <1>2, OneShotAssumption DEF Init, TypeOK
<1>4. ASSUME NEW a \in Ids PROVE Fine(cmd[a], a) /\ Positions(a)
  <2>1. cmd[a] = NoCommand /\ ~Logged(a) /\ Len(log) = 0 /\ DOMAIN log = {}
    BY <1>2 DEF Init, Logged, Contains
  <2>2. cmd[a].since = 0 /\ Positions(a)
    BY <2>1 DEF NoCommand, Positions
  <2>3. Fine(cmd[a], a)
    BY <2>1 DEF NoCommand, Fine, Silent, Answered, Waits, Spread, Settled
  <2> QED BY <2>2, <2>3
<1> QED BY <1>3, <1>4 DEF OneShotInv

LEMMA StepKeeps == OneShotInv /\ [Next]_vars => OneShotInv'
<1> SUFFICES ASSUME OneShotInv, [Next]_vars PROVE OneShotInv'
  OBVIOUS
<1>1. ASSUME NEW a \in Ids, Command(a) PROVE OneShotInv'
  BY <1>1, DialKeeps, GiveUpHelloKeeps, SendKeeps, ReadAnswerKeeps, ReadCloseKeeps,
     WindowEndsKeeps, NoticeLossKeeps, LookKeeps DEF Command
<1>2. ASSUME NEW a \in Ids, Handler(a) PROVE OneShotInv'
  <2>1. ASSUME Deny(a) PROVE OneShotInv'
    BY <2>1, RefuseKeeps, QuietIsTyped DEF Deny
  <2> QED BY <1>2, <2>1, AdmitKeeps, EndGreetingKeeps, LeaveKeeps, TakeStaleKeeps, TakeKeeps,
             AnswerKeeps, PublishKeeps DEF Handler
<1>3. ASSUME NEW a \in Ids, Fault(a) PROVE OneShotInv'
  <2>1. ASSUME AppendFails(a) PROVE OneShotInv'
    <3>1. RestTyped
      BY <2>1 DEF AppendFails, RestTyped, OneShotInv, TypeOK
    <3> QED BY <2>1, <3>1, RefuseKeeps DEF AppendFails
  <2> QED BY <1>3, <2>1, LinkBreaksKeeps, SnapshotFailsKeeps DEF Fault
<1>4. CASE UNCHANGED vars
  <2>1. cmd' = cmd /\ log' = log /\ RestTyped
    BY <1>4 DEF vars, RestTyped, OneShotInv, TypeOK
  <2>2. \A a \in Ids : Kept(a)
    BY <2>1 DEF Kept, OneShotInv
  <2> QED BY <2>1, <2>2, AllKept DEF OneShotInv, TypeOK
<1> QED BY <1>1, <1>2, <1>3, <1>4, OthersSayKeeps, RestKeeps, CutAllKeeps, HubDiesKeeps DEF Next

LEMMA Invariant == Spec => []OneShotInv
BY Initially, StepKeeps, PTL DEF Spec

\* The state keeps its types.
THEOREM TypesKept == Spec => []TypeOK
<1>1. OneShotInv => TypeOK
  BY DEF OneShotInv
<1> QED BY <1>1, Invariant, PTL

\* An exit that claims the frame is logged, or that nothing was sent, is right for
\* ever after (cmd_frame's ok, the refused hello).
THEOREM VerdictIsTrue == Spec => []VerdictHolds
<1>1. OneShotInv => VerdictHolds
  BY DEF OneShotInv, Fine, Silent, Answered, VerdictHolds
<1> QED BY <1>1, Invariant, PTL

\* A silent exit 0 with a live connection and nothing owed by the hub means that
\* the frame is logged (send_once's window for complaints).
THEOREM SuccessIsReal == Spec => []NoFalseSuccess
<1>1. OneShotInv => NoFalseSuccess
  BY DEF OneShotInv, Fine, Waits, NoFalseSuccess
<1> QED BY <1>1, Invariant, PTL

\* What the hub logs, it publishes, but for the three causes it names (_handle_chat,
\* _on_kick, _on_membership_set: append, answer, publish).
THEOREM LogThenPublish == Spec => []LoggedIsPublished
<1>1. OneShotInv => LoggedIsPublished
  BY DEF OneShotInv, Fine, Spread, LoggedIsPublished
<1> QED BY <1>1, Invariant, PTL

\* Nothing is published that is not in the log, and the log has a frame once.
THEOREM PublishThenLogged == Spec => []PublishedIsLogged
<1>1. OneShotInv => PublishedIsLogged
  BY DEF OneShotInv, Fine, Answered, Positions, PublishedIsLogged
<1> QED BY <1>1, Invariant, PTL

\* A frame that a whole read did not find after an unknown outcome, and that the
\* hub has not before it, never enters the log (the advice of WysylkaNieznana).
THEOREM LookIsFinal == Spec => []LookSettles
<1>1. OneShotInv => LookSettles
  BY DEF OneShotInv, Fine, Settled, LookSettles
<1> QED BY <1>1, Invariant, PTL
=============================================================================
