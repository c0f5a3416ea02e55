-------------------------- MODULE HubSessionsProofs --------------------------
(***************************************************************************)
(* What a takeover and a kick leave behind, for any number of sockets,     *)
(* nicks, groups and frames, with or without snapshots, and however slow   *)
(* the readers are: the three invariants that HubSessions.cfg checks on    *)
(* three connections and one frame.                                        *)
(*                                                                         *)
(* The argument about takeovers is one about generations: nothing in the   *)
(* log is ahead of the registry, what is in the log at the registry's      *)
(* generation has been there since the hello that made it, and a           *)
(* displacement that is not announced yet belongs to one handler, which    *)
(* announces it before it does anything else.  The argument about kicks    *)
(* follows the condemned sockets: each is routed to, or somebody's to      *)
(* close, or closed.                                                       *)
(*                                                                         *)
(* The last two parts are about the listeners of Delivery: EmittedOnce for *)
(* any of them, whatever the loop does, and NothingSkipped while the hub   *)
(* is Calm.                                                                *)
(***************************************************************************)
EXTENDS Delivery, FiniteSetTheorems, TLAPS

Tasks ==
    [pc : Places, nick : Nicks \cup {None}, gen : Nat, groups : SUBSET Groups,
     displaced : BOOLEAN, resync : BOOLEAN, since : Nat, end : Nat, seq : Nat,
     audience : SUBSET Nicks, batch : SUBSET Sockets, todo : SUBSET Sockets,
     queue : SUBSET Nat, doomed : SUBSET Sockets]

Shape ==
    /\ registry \in RegistryType
    /\ conns \in [Nicks -> SUBSET Sockets]
    /\ groups \in [Nicks -> SUBSET Groups]
    /\ log \in Seq(EventType)
    /\ boundary \in 0..Len(log)
    /\ task \in [Sockets -> Tasks]
    /\ open \in [Sockets -> BOOLEAN]
    /\ wire \in [Sockets -> Seq(FrameType)]
    /\ running \in Sockets \cup {None}

\* What a handler refers to is in the log; the handler that holds the loop is
\* between two awaits.
Carrying == {"announcing", "routing", "warning", "publishing", "condemning", "ejecting"}
Arriving == {"closing", "announcing", "entering", "replying"}
Sound(t, seqs) ==
    /\ t.queue \subseteq seqs
    /\ t.pc \in Carrying => t.seq \in seqs
    /\ t.pc \in Arriving => t.end \in seqs
Referring ==
    /\ \A s \in Sockets : Sound(task[s], DOMAIN log)
    /\ running # None => task[running].pc \notin {"new", "loop", "done"}
    /\ \A k \in DOMAIN log : log[k].type = "membership_set" => log[k].to \subseteq Nicks

\* A handler that has let its client in has a name, and a generation that the
\* registry has given it.
Entered(s) == task[s].pc \notin {"new", "done"}
Placed ==
    /\ \A s \in Sockets : Entered(s) =>
         task[s].nick \in Nicks /\ task[s].gen \in 1..registry.gen[task[s].nick]
    /\ \A n \in Nicks : registry.gen[n] = 0 => registry.instance[n] = None

\* Nothing in the log is ahead of the registry, and the registry's generation has
\* its hello there.
Dated ==
    /\ \A k \in DOMAIN log : log[k].gen \in 1..registry.gen[log[k].by]
    /\ \A n \in Nicks : registry.gen[n] > 0 => \E k \in Deeds(n) : log[k].gen = registry.gen[n]

\* A handler that is about to announce a displacement.
Owing(s) == task[s].pc = "closing" /\ task[s].displaced
OwedBy(s, n, g) == Owing(s) /\ task[s].nick = n /\ task[s].gen = g

\* A displacement is announced or owed, never both, and never twice.
Announced ==
    \A n \in Nicks : \A k \in Deeds(n) :
         \/ log[k].gen = 1
         \/ \E j \in Takeovers(n) : log[j].gen = log[k].gen
         \/ \E s \in Sockets : OwedBy(s, n, log[k].gen)
NoticeOnce ==
    \A n \in Nicks : \A k \in Takeovers(n) :
         /\ log[k].gen # 1
         /\ \E j \in Deeds(n) : j < k /\ log[j].gen = log[k].gen
         /\ \A j \in Takeovers(n) : log[j].gen = log[k].gen => j = k
         /\ \A s \in Sockets : ~OwedBy(s, n, log[k].gen)
OwedOnce ==
    \A s \in Sockets : Owing(s) =>
         /\ task[s].gen # 1
         /\ \E j \in Deeds(task[s].nick) : log[j].gen = task[s].gen
         /\ \A x \in Sockets : OwedBy(x, task[s].nick, task[s].gen) => x = s
Told == Announced /\ NoticeOnce /\ OwedOnce

\* Where the sockets of a kick are.
Target(s) == CHOOSE n \in log[task[s].seq].to : TRUE
Condemned ==
    /\ \A s \in Sockets : task[s].pc = "new" => task[s] = NoTask
    /\ \A s \in Sockets : task[s].todo # {} => task[s].pc \in {"closing", "evicting"}
    /\ \A s \in Sockets : task[s].pc \in {"condemning", "ejecting"} =>
         /\ task[s].seq \in DOMAIN log
         /\ \E n \in Nicks : log[task[s].seq].to = {n}
    /\ \A s \in Sockets : \A x \in task[s].doomed :
         \/ ~open[x]
         \/ \E h \in Sockets : x \in task[h].todo
         \/ task[s].pc \in {"condemning", "ejecting"} /\ x \in conns[Target(s)]

SessionsInv == Shape /\ Referring /\ Placed /\ Dated /\ Told /\ Condemned /\ NothingAfterTakeover

-----------------------------------------------------------------------------
(* The log grows. *)

Extends == log' = log \/ \E e \in EventType : log' = Append(log, e)

LEMMA Grown ==
    ASSUME Shape, NEW e \in EventType, log' = Append(log, e)
    PROVE  /\ Len(log) \in Nat /\ Len(log') = Len(log) + 1
           /\ DOMAIN log = 1..Len(log) /\ DOMAIN log' = 1..(Len(log) + 1)
           /\ \A k \in DOMAIN log : k \in DOMAIN log' /\ log'[k] = log[k]
           /\ Len(log) + 1 \in DOMAIN log' /\ log'[Len(log) + 1] = e
           /\ \A k \in DOMAIN log' : k \in DOMAIN log \/ k = Len(log) + 1
           /\ log' \in Seq(EventType)
BY DEF Shape

LEMMA LogExtends ==
    ASSUME Shape, Extends
    PROVE  /\ Len(log) \in Nat /\ Len(log') \in Nat /\ Len(log) <= Len(log')
           /\ DOMAIN log = 1..Len(log) /\ DOMAIN log' = 1..Len(log')
           /\ \A k \in DOMAIN log : k \in DOMAIN log' /\ log'[k] = log[k]
           /\ log' \in Seq(EventType)
           /\ wire \in [Sockets -> Seq(FrameType')]
<1>1. log \in Seq(EventType)
  BY DEF Shape
<1>2. /\ Len(log) \in Nat /\ Len(log') \in Nat /\ Len(log) <= Len(log')
      /\ DOMAIN log = 1..Len(log) /\ DOMAIN log' = 1..Len(log')
      /\ \A k \in DOMAIN log : k \in DOMAIN log' /\ log'[k] = log[k]
      /\ log' \in Seq(EventType)
  <2>1. CASE log' = log
    BY <1>1, <2>1
  <2>2. ASSUME NEW e \in EventType, log' = Append(log, e)
        PROVE  /\ Len(log) \in Nat /\ Len(log') \in Nat /\ Len(log) <= Len(log')
               /\ DOMAIN log = 1..Len(log) /\ DOMAIN log' = 1..Len(log')
               /\ \A k \in DOMAIN log : k \in DOMAIN log' /\ log'[k] = log[k]
               /\ log' \in Seq(EventType)
    BY <1>1, <2>2
  <2> QED BY <2>1, <2>2 DEF Extends
<1>3. wire \in [Sockets -> Seq(FrameType')]
  <2>1. FrameType \subseteq FrameType'
    <3> SUFFICES ASSUME NEW f \in FrameType PROVE f \in FrameType'
      OBVIOUS
    <3>1. DOMAIN log \subseteq DOMAIN log'
      BY <1>2
    <3>2. CASE f \in [type : {"event"}, seq : DOMAIN log]
      BY <3>1, <3>2 DEF FrameType
    <3>3. CASE f \in [type : {"ok", "resync_required"}, seqs : SUBSET (DOMAIN log), cursor : DOMAIN log]
      BY <3>1, <3>3 DEF FrameType
    <3> QED BY <3>2, <3>3 DEF FrameType
  <2>2. \A s \in Sockets : wire[s] \in Seq(FrameType)
    BY DEF Shape
  <2>3. \A s \in Sockets : wire[s] \in Seq(FrameType')
    BY <2>1, <2>2
  <2> QED BY <2>3 DEF Shape
<1> QED BY <1>2, <1>3

-----------------------------------------------------------------------------
(* One handler moves: the task of s becomes r. *)

LEMMA OneTask ==
    ASSUME Shape, NEW s \in Sockets, NEW r \in Tasks, task' = [task EXCEPT ![s] = r]
    PROVE  /\ task' \in [Sockets -> Tasks]
           /\ task'[s] = r
           /\ \A x \in Sockets \ {s} : task'[x] = task[x]
BY DEF Shape

\* What the others refer to is still there.
LEMMA ReferringKept ==
    ASSUME Shape, Referring, Extends, NEW s \in Sockets, NEW r \in Tasks,
           task' = [task EXCEPT ![s] = r], Sound(r, DOMAIN log'),
           running' = None \/ (running' = s /\ r.pc \notin {"new", "loop", "done"}),
           \A k \in DOMAIN log' \ DOMAIN log :
                log'[k].type = "membership_set" => log'[k].to \subseteq Nicks
    PROVE  Referring' /\ task' \in [Sockets -> Tasks] /\ running' \in Sockets \cup {None}
<1>1. \A x \in Sockets : Sound(task'[x], DOMAIN log')
  <2> SUFFICES ASSUME NEW x \in Sockets, x # s PROVE Sound(task'[x], DOMAIN log')
    BY OneTask
  <2>1. Sound(task[x], DOMAIN log) /\ task'[x] = task[x]
    BY OneTask DEF Referring
  <2>2. DOMAIN log \subseteq DOMAIN log'
    BY LogExtends
  <2> QED BY <2>1, <2>2 DEF Sound
<1>2. \A k \in DOMAIN log' : log'[k].type = "membership_set" => log'[k].to \subseteq Nicks
  BY LogExtends DEF Referring
<1>3. s # None
  BY SessionsAssumption DEF Sockets
<1>4. running' # None => task'[running'].pc \notin {"new", "loop", "done"}
  BY <1>3, OneTask
<1> QED BY <1>1, <1>2, <1>4, OneTask DEF Referring

\* A condemned socket stays in the routing, or with somebody who closes it.
LEMMA CondemnedKept ==
    ASSUME Shape, Referring, Condemned, Extends, NEW s \in Sockets, NEW r \in Tasks,
           task' = [task EXCEPT ![s] = r],
           r.pc # "new",
           r.todo # {} => r.pc \in {"closing", "evicting"},
           r.pc \in {"condemning", "ejecting"} =>
               r.seq \in DOMAIN log' /\ \E n \in Nicks : log'[r.seq].to = {n},
           \A x \in Sockets : open'[x] => open[x],
           \A n \in Nicks : \A x \in conns[n] : x \in conns'[n] \/ ~open'[x] \/ x \in r.todo,
           \A x \in task[s].todo : x \in r.todo \/ ~open'[x],
           \A x \in r.doomed :
               \/ x \in task[s].doomed \/ ~open'[x] \/ x \in r.todo
               \/ r.pc \in {"condemning", "ejecting"}
                  /\ \A n \in Nicks : log'[r.seq].to = {n} => x \in conns'[n],
           task[s].pc \in {"condemning", "ejecting"} =>
               \/ r.pc \in {"condemning", "ejecting"} /\ r.seq = task[s].seq
               \/ \A n \in Nicks : log[task[s].seq].to = {n} => conns[n] \subseteq r.todo
    PROVE  Condemned'
<1>1. \A x \in Sockets \ {s} : task'[x] = task[x]
  BY OneTask
<1>2. task'[s] = r
  BY OneTask
<1>3. \A x \in Sockets : task'[x].pc \in {"condemning", "ejecting"} =>
         /\ task'[x].seq \in DOMAIN log'
         /\ \E n \in Nicks : log'[task'[x].seq].to = {n}
  <2> SUFFICES ASSUME NEW x \in Sockets, x # s, task[x].pc \in {"condemning", "ejecting"}
               PROVE  /\ task[x].seq \in DOMAIN log'
                      /\ \E n \in Nicks : log'[task[x].seq].to = {n}
    BY <1>1, <1>2
  <2>1. task[x].seq \in DOMAIN log /\ \E n \in Nicks : log[task[x].seq].to = {n}
    BY DEF Condemned
  <2> QED BY <2>1, LogExtends
<1>4. \A x \in Sockets : task'[x].pc = "new" => task'[x] = NoTask
  BY <1>1, <1>2 DEF Condemned
<1>5. \A x \in Sockets : task'[x].todo # {} => task'[x].pc \in {"closing", "evicting"}
  BY <1>1, <1>2 DEF Condemned
<1>6. \A h, x \in Sockets : x \in task[h].todo => ~open'[x] \/ x \in task'[h].todo
  BY <1>1, <1>2
<1>7. \A h \in Sockets : task[h].pc \in {"condemning", "ejecting"} =>
         /\ Target(h) \in Nicks /\ log[task[h].seq].to = {Target(h)}
         /\ task[h].seq \in DOMAIN log
  BY DEF Condemned, Target
<1>8. \A h \in Sockets : task'[h].pc \in {"condemning", "ejecting"} =>
         Target(h)' \in Nicks /\ log'[task'[h].seq].to = {Target(h)'}
  BY <1>3 DEF Target
<1>9. ASSUME NEW h \in Sockets, NEW x \in task'[h].doomed
      PROVE  \/ ~open'[x]
             \/ \E g \in Sockets : x \in task'[g].todo
             \/ task'[h].pc \in {"condemning", "ejecting"} /\ x \in conns'[Target(h)']
  <2>1. x \in Sockets
    BY <1>9, OneTask DEF Tasks
  <2>2. CASE x \in task[h].doomed
    <3>1. \/ ~open[x]
          \/ \E g \in Sockets : x \in task[g].todo
          \/ task[h].pc \in {"condemning", "ejecting"} /\ x \in conns[Target(h)]
      BY <2>2 DEF Condemned
    <3>2. CASE ~open[x]
      BY <2>1, <3>2
    <3>3. CASE \E g \in Sockets : x \in task[g].todo
      BY <1>6, <2>1, <3>3
    <3>4. CASE task[h].pc \in {"condemning", "ejecting"} /\ x \in conns[Target(h)]
      <4>1. x \in conns'[Target(h)] \/ ~open'[x] \/ x \in r.todo
        BY <1>7, <3>4
      <4>2. CASE x \in r.todo
        BY <1>2, <4>2
      <4>3. CASE x \in conns'[Target(h)] /\ h # s
        <5>1. task'[h] = task[h]
          BY <1>1, <4>3
        <5>2. log'[task[h].seq] = log[task[h].seq]
          BY <1>7, <3>4, LogExtends
        <5>3. Target(h)' = Target(h)
          BY <5>1, <5>2 DEF Target
        <5> QED BY <3>4, <4>3, <5>1, <5>3
      <4>4. CASE x \in conns'[Target(h)] /\ h = s
        <5>1. CASE r.pc \in {"condemning", "ejecting"} /\ r.seq = task[s].seq
          <6>1. task'[h].seq = task[h].seq /\ log'[task[h].seq] = log[task[h].seq]
            BY <1>2, <1>7, <3>4, <4>4, <5>1, LogExtends
          <6>2. Target(h)' = Target(h)
            BY <6>1 DEF Target
          <6> QED BY <1>2, <4>4, <5>1, <6>2
        <5>2. CASE \A n \in Nicks : log[task[s].seq].to = {n} => conns[n] \subseteq r.todo
          BY <1>2, <1>7, <3>4, <4>4, <5>2
        <5> QED BY <3>4, <4>4, <5>1, <5>2
      <4> QED BY <4>1, <4>2, <4>3, <4>4
    <3> QED BY <3>1, <3>2, <3>3, <3>4
  <2>3. CASE x \notin task[h].doomed
    <3>1. h = s /\ x \in r.doomed
      BY <1>1, <1>2, <2>3
    <3> QED BY <1>2, <1>8, <2>3, <3>1
  <2> QED BY <2>2, <2>3
<1> QED BY <1>3, <1>4, <1>5, <1>9 DEF Condemned

-----------------------------------------------------------------------------
(* Generations. *)

LEMMA GenTyped ==
    ASSUME Shape
    PROVE  /\ \A n \in Nicks : registry.gen[n] \in Nat
           /\ \A k \in DOMAIN log : log[k] \in EventType
           /\ \A k \in DOMAIN log : log[k].by \in Nicks /\ log[k].gen \in Nat
           /\ \A s \in Sockets : task[s] \in Tasks /\ task[s].gen \in Nat
<1>1. log \in Seq(EventType) /\ registry \in RegistryType /\ task \in [Sockets -> Tasks]
  BY DEF Shape
<1>2. \A k \in DOMAIN log : log[k] \in EventType
  BY <1>1
<1> QED BY <1>1, <1>2 DEF RegistryType, EventType, Tasks

\* A handler that stays who it is.
LEMMA PlacedKept ==
    ASSUME Shape, Placed, NEW s \in Sockets, NEW r \in Tasks, task' = [task EXCEPT ![s] = r],
           registry'.gen = registry.gen, registry'.instance = registry.instance,
           r.pc \notin {"new", "done"} =>
               Entered(s) /\ r.nick = task[s].nick /\ r.gen = task[s].gen
    PROVE  Placed'
<1>1. \A x \in Sockets : Entered(x)' =>
         Entered(x) /\ task'[x].nick = task[x].nick /\ task'[x].gen = task[x].gen
  BY OneTask DEF Entered
<1> QED BY <1>1 DEF Placed

\* Whether its displacement is owed does not change either.
LEMMA OwedKept ==
    ASSUME Shape, NEW s \in Sockets, NEW r \in Tasks, task' = [task EXCEPT ![s] = r],
           r.pc = "closing" /\ r.displaced <=> Owing(s),
           Owing(s) => r.nick = task[s].nick /\ r.gen = task[s].gen
    PROVE  \A x \in Sockets :
              /\ Owing(x)' <=> Owing(x)
              /\ Owing(x) => task'[x].nick = task[x].nick /\ task'[x].gen = task[x].gen
BY OneTask DEF Owing

LEMMA QuietLog ==
    ASSUME SessionsInv, NEW s \in Sockets, NEW r \in Tasks, task' = [task EXCEPT ![s] = r],
           log' = log, registry'.gen = registry.gen, registry'.instance = registry.instance,
           r.pc \notin {"new", "done"} =>
               Entered(s) /\ r.nick = task[s].nick /\ r.gen = task[s].gen,
           r.pc = "closing" /\ r.displaced <=> Owing(s)
    PROVE  Placed' /\ Dated' /\ Told' /\ NothingAfterTakeover'
<1>1. Placed'
  BY PlacedKept DEF SessionsInv
<1>2. Dated' /\ NothingAfterTakeover'
  BY DEF SessionsInv, Dated, NothingAfterTakeover, Deeds
<1>3. Owing(s) => r.nick = task[s].nick /\ r.gen = task[s].gen
  BY DEF Owing
<1>4. \A x \in Sockets :
         /\ Owing(x)' <=> Owing(x)
         /\ Owing(x) => task'[x].nick = task[x].nick /\ task'[x].gen = task[x].gen
  BY <1>3, OwedKept DEF SessionsInv
<1>5. \A n : Deeds(n)' = Deeds(n) /\ Takeovers(n)' = Takeovers(n)
  BY DEF Deeds, Takeovers
<1>6. \A x \in Sockets : \A n, g : OwedBy(x, n, g)' <=> OwedBy(x, n, g)
  BY <1>4 DEF OwedBy
<1>7. Told'
  BY <1>4, <1>5, <1>6 DEF SessionsInv, Told, Announced, NoticeOnce, OwedOnce, OwedBy
<1> QED BY <1>1, <1>2, <1>7

\* A frame at the generation of the registry: there is a hello at that generation
\* already, and whatever is true of its announcement.
LEMMA DeedLogged ==
    ASSUME SessionsInv, NEW s \in Sockets, NEW r \in Tasks, task' = [task EXCEPT ![s] = r],
           NEW e \in EventType, log' = Append(log, e),
           e.type # "takeover", registry.gen[e.by] > 0, e.gen = registry.gen[e.by],
           registry'.gen = registry.gen, registry'.instance = registry.instance,
           r.pc \notin {"new", "done"} =>
               Entered(s) /\ r.nick = task[s].nick /\ r.gen = task[s].gen,
           r.pc # "closing", ~Owing(s)
    PROVE  Placed' /\ Dated' /\ Told' /\ NothingAfterTakeover'
<1> DEFINE new == Len(log) + 1
<1>1. Placed'
  BY PlacedKept DEF SessionsInv
<1>2. Shape /\ e.by \in Nicks /\ e.gen \in Nat
  BY DEF SessionsInv, EventType
<1>3. /\ Len(log) \in Nat /\ DOMAIN log = 1..Len(log)
      /\ \A k \in DOMAIN log : k \in DOMAIN log' /\ log'[k] = log[k]
      /\ new \in DOMAIN log' /\ log'[new] = e
      /\ \A k \in DOMAIN log' : k \in DOMAIN log \/ k = new
  BY <1>2, Grown
<1>4. \A n : /\ Takeovers(n)' = Takeovers(n)
             /\ Deeds(n)' = IF n = e.by THEN Deeds(n) \cup {new} ELSE Deeds(n)
  <2>1. \A n : Takeovers(n)' = Takeovers(n)
    BY <1>3 DEF Takeovers
  <2>2. \A n : Deeds(n)' = IF n = e.by THEN Deeds(n) \cup {new} ELSE Deeds(n)
    BY <1>3 DEF Deeds
  <2> QED BY <2>1, <2>2
<1>5. \A k \in DOMAIN log : k < new /\ k # new
  BY <1>3
<1> HIDE DEF new
<1>6. Dated'
  BY <1>2, <1>3, <1>4, GenTyped DEF SessionsInv, Dated, Deeds
<1>7. NothingAfterTakeover'
  <2> SUFFICES ASSUME NEW n \in Nicks, NEW j \in Deeds(n)', NEW k \in Deeds(n)', j < k
               PROVE  log'[j].gen <= log'[k].gen
    BY DEF NothingAfterTakeover
  <2>1. j \in DOMAIN log' /\ k \in DOMAIN log' /\ log'[j].by = n
    BY DEF Deeds
  <2>2. j \in DOMAIN log
    BY <1>2, <1>3, <1>5, <2>1, Grown
  <2>3. CASE k \in DOMAIN log
    <3>1. j \in Deeds(n) /\ k \in Deeds(n)
      BY <1>3, <1>4, <1>5, <2>2, <2>3
    <3> QED BY <1>3, <2>2, <2>3, <3>1 DEF SessionsInv, NothingAfterTakeover
  <2>4. CASE k = new
    <3>1. n = e.by
      BY <1>3, <2>4 DEF Deeds
    <3>2. log[j].gen \in 1..registry.gen[n]
      BY <1>3, <2>1, <2>2 DEF SessionsInv, Dated
    <3> QED BY <1>2, <1>3, <2>2, <2>4, <3>1, <3>2, GenTyped
  <2> QED BY <1>3, <2>1, <2>3, <2>4
<1>8. \A x \in Sockets :
         /\ Owing(x)' <=> Owing(x)
         /\ Owing(x) => task'[x].nick = task[x].nick /\ task'[x].gen = task[x].gen
  BY <1>2, OwedKept
<1>9. \A x \in Sockets : \A n, g : OwedBy(x, n, g)' <=> OwedBy(x, n, g)
  BY <1>8 DEF OwedBy
<1>10. \A n : /\ \A k \in Deeds(n) : k \in DOMAIN log /\ log'[k] = log[k] /\ k \in Deeds(n)'
              /\ \A k \in Takeovers(n) : k \in DOMAIN log /\ log'[k] = log[k]
  BY <1>3, <1>4 DEF Deeds, Takeovers
<1>11. Announced'
  <2> SUFFICES ASSUME NEW n \in Nicks, NEW k \in Deeds(n)'
               PROVE  \/ log'[k].gen = 1
                      \/ \E j \in Takeovers(n)' : log'[j].gen = log'[k].gen
                      \/ \E x \in Sockets : Owing(x)' /\ task'[x].nick = n /\ task'[x].gen = log'[k].gen
    BY DEF Announced, OwedBy
  <2>1. PICK d \in Deeds(n) : log[d].gen = log'[k].gen
    <3>1. CASE k \in Deeds(n)
      BY <1>10, <3>1
    <3>2. CASE k \notin Deeds(n)
      <4>1. n = e.by /\ k = new
        BY <1>4, <3>2
      <4> QED BY <1>2, <1>3, <4>1 DEF SessionsInv, Dated
    <3> QED BY <3>1, <3>2
  <2>2. \/ log[d].gen = 1
        \/ \E j \in Takeovers(n) : log[j].gen = log[d].gen
        \/ \E x \in Sockets : Owing(x) /\ task[x].nick = n /\ task[x].gen = log[d].gen
    BY DEF SessionsInv, Told, Announced, OwedBy
  <2>3. CASE log[d].gen = 1
    BY <2>1, <2>3
  <2>4. ASSUME NEW j \in Takeovers(n), log[j].gen = log[d].gen
        PROVE  \E i \in Takeovers(n)' : log'[i].gen = log'[k].gen
    <3>1. /\ j \in DOMAIN log' /\ log'[j] = log[j] /\ j \in Takeovers(n)'
      BY <1>4, <1>10
    <3> QED BY <2>1, <2>4, <3>1
  <2>5. ASSUME NEW x \in Sockets, Owing(x), task[x].nick = n, task[x].gen = log[d].gen
        PROVE  Owing(x)' /\ task'[x].nick = n /\ task'[x].gen = log'[k].gen
    BY <1>8, <2>1, <2>5
  <2> QED BY <2>2, <2>3, <2>4, <2>5
<1>12. NoticeOnce'
  <2> SUFFICES ASSUME NEW n \in Nicks, NEW k \in Takeovers(n)
               PROVE  /\ log[k].gen # 1
                      /\ \E j \in Deeds(n) : j < k /\ log[j].gen = log[k].gen
                      /\ \A j \in Takeovers(n) : log[j].gen = log[k].gen => j = k
                      /\ \A x \in Sockets : ~OwedBy(x, n, log[k].gen)
    BY <1>4, <1>8, <1>10 DEF NoticeOnce, OwedBy
  <2> QED BY DEF SessionsInv, Told, NoticeOnce
<1>13. OwedOnce'
  <2> SUFFICES ASSUME NEW x \in Sockets, Owing(x)
               PROVE  /\ task[x].gen # 1
                      /\ \E j \in Deeds(task[x].nick) : log[j].gen = task[x].gen
                      /\ \A y \in Sockets : OwedBy(y, task[x].nick, task[x].gen) => y = x
    BY <1>8, <1>10 DEF OwedOnce, OwedBy
  <2> QED BY DEF SessionsInv, Told, OwedOnce
<1> QED BY <1>1, <1>6, <1>7, <1>11, <1>12, <1>13 DEF Told

\* The notice of a takeover: what was owed is announced.
LEMMA NoticeLogged ==
    ASSUME SessionsInv, NEW s \in Sockets, NEW r \in Tasks, task' = [task EXCEPT ![s] = r],
           Owing(s), log' = Append(log, Event("takeover", s, {task[s].nick})),
           registry' = registry,
           r.pc = "announcing", r.nick = task[s].nick, r.gen = task[s].gen
    PROVE  Placed' /\ Dated' /\ Told' /\ NothingAfterTakeover'
<1> DEFINE e == Event("takeover", s, {task[s].nick})
           new == Len(log) + 1
<1>1. Shape /\ Placed /\ Dated /\ Told /\ NothingAfterTakeover
  BY DEF SessionsInv
<1>2. /\ task[s].nick \in Nicks /\ task[s].gen \in 1..registry.gen[task[s].nick]
      /\ registry.gen[task[s].nick] \in Nat
  BY <1>1, GenTyped DEF Placed, Owing, Entered
<1>3. e \in EventType
  BY <1>2 DEF Event, EventType
<1>4. e.type = "takeover" /\ e.by = task[s].nick /\ e.gen = task[s].gen
  BY DEF Event
<1> HIDE DEF e
<1>5. /\ \A k \in DOMAIN log : k \in DOMAIN log' /\ log'[k] = log[k] /\ k < new /\ k # new
      /\ new \in DOMAIN log' /\ log'[new] = e
      /\ \A k \in DOMAIN log' : k \in DOMAIN log \/ k = new
  <2>1. log' = Append(log, e)
    BY DEF e
  <2> QED BY <1>1, <1>3, <2>1, Grown
<1> HIDE DEF new
<1>6. \A n : Deeds(n)' = Deeds(n)
  BY <1>4, <1>5 DEF Deeds
<1>7. \A n : Takeovers(n)' = IF n = task[s].nick THEN Takeovers(n) \cup {new} ELSE Takeovers(n)
  BY <1>4, <1>5 DEF Takeovers
<1>8. \A n : /\ \A k \in Deeds(n) : k \in DOMAIN log /\ log'[k] = log[k] /\ k < new
             /\ \A k \in Takeovers(n) : k \in DOMAIN log /\ log'[k] = log[k] /\ k < new /\ k # new
  BY <1>5 DEF Deeds, Takeovers
<1>9. \A x \in Sockets : /\ Owing(x)' <=> Owing(x) /\ x # s
                         /\ Owing(x)' => task'[x] = task[x]
  BY <1>1, OneTask DEF Owing
<1>10. Placed'
  BY <1>1, PlacedKept, <1>2 DEF Owing, Entered
<1>11. Dated'
  <2>1. \A k \in DOMAIN log' : log'[k].gen \in 1..registry'.gen[log'[k].by]
    BY <1>1, <1>2, <1>4, <1>5 DEF Dated
  <2> QED BY <1>1, <1>6, <1>8, <2>1 DEF Dated
<1>12. NothingAfterTakeover'
  BY <1>1, <1>6, <1>8 DEF NothingAfterTakeover
<1>13. Announced'
  <2> SUFFICES ASSUME NEW n \in Nicks, NEW k \in Deeds(n)'
               PROVE  \/ log'[k].gen = 1
                      \/ \E j \in Takeovers(n)' : log'[j].gen = log'[k].gen
                      \/ \E x \in Sockets : Owing(x)' /\ task'[x].nick = n /\ task'[x].gen = log'[k].gen
    BY DEF Announced, OwedBy
  <2>0. k \in Deeds(n) /\ log'[k] = log[k]
    BY <1>6, <1>8
  <2>1. \/ log[k].gen = 1
        \/ \E j \in Takeovers(n) : log[j].gen = log[k].gen
        \/ \E x \in Sockets : Owing(x) /\ task[x].nick = n /\ task[x].gen = log[k].gen
    BY <1>1, <2>0 DEF Told, Announced, OwedBy
  <2>2. ASSUME NEW j \in Takeovers(n), log[j].gen = log[k].gen
        PROVE  j \in Takeovers(n)' /\ log'[j].gen = log[k].gen
    BY <1>7, <1>8, <2>2
  <2>3. ASSUME NEW x \in Sockets, Owing(x), task[x].nick = n, task[x].gen = log[k].gen
        PROVE  \/ \E j \in Takeovers(n)' : log'[j].gen = log[k].gen
               \/ Owing(x)' /\ task'[x].nick = n /\ task'[x].gen = log[k].gen
    BY <1>4, <1>5, <1>7, <1>9, <2>3
  <2> QED BY <2>0, <2>1, <2>2, <2>3
<1>14. \A k \in Takeovers(task[s].nick) : log[k].gen # task[s].gen
  BY <1>1, <1>2 DEF Told, NoticeOnce, OwedBy
<1>15. NoticeOnce'
  <2> SUFFICES ASSUME NEW n \in Nicks, NEW k \in Takeovers(n)'
               PROVE  /\ log'[k].gen # 1
                      /\ \E j \in Deeds(n)' : j < k /\ log'[j].gen = log'[k].gen
                      /\ \A j \in Takeovers(n)' : log'[j].gen = log'[k].gen => j = k
                      /\ \A x \in Sockets : ~(Owing(x)' /\ task'[x].nick = n /\ task'[x].gen = log'[k].gen)
    BY DEF NoticeOnce, OwedBy
  <2>1. CASE k \in Takeovers(n)
    <3>1. /\ log[k].gen # 1
          /\ \E j \in Deeds(n) : j < k /\ log[j].gen = log[k].gen
          /\ \A j \in Takeovers(n) : log[j].gen = log[k].gen => j = k
          /\ \A x \in Sockets : ~(Owing(x) /\ task[x].nick = n /\ task[x].gen = log[k].gen)
      BY <1>1, <2>1 DEF Told, NoticeOnce, OwedBy
    <3>2. log'[k] = log[k]
      BY <1>8, <2>1
    <3>3. \A j \in Takeovers(n)' : log'[j].gen = log'[k].gen => j = k
      <4> SUFFICES ASSUME NEW j \in Takeovers(n)', log'[j].gen = log[k].gen PROVE j = k
        BY <3>2
      <4>1. CASE j \in Takeovers(n)
        BY <1>8, <3>1, <4>1
      <4>2. CASE j = new /\ n = task[s].nick
        BY <1>4, <1>5, <1>14, <2>1, <4>2
      <4> QED BY <1>7, <4>1, <4>2
    <3>4. \E j \in Deeds(n)' : j < k /\ log'[j].gen = log'[k].gen
      BY <1>6, <1>8, <3>1, <3>2
    <3> QED BY <1>9, <3>1, <3>2, <3>3, <3>4
  <2>2. CASE k = new /\ n = task[s].nick
    <3>1. /\ task[s].gen # 1
          /\ \E j \in Deeds(n) : log[j].gen = task[s].gen
          /\ \A x \in Sockets : Owing(x) /\ task[x].nick = n /\ task[x].gen = task[s].gen => x = s
      BY <1>1, <2>2 DEF Told, OwedOnce, OwedBy
    <3>2. log'[k].gen = task[s].gen
      BY <1>4, <1>5, <2>2
    <3>3. \A j \in Takeovers(n)' : log'[j].gen = log'[k].gen => j = k
      BY <1>7, <1>8, <1>14, <2>2, <3>2
    <3>4. \E j \in Deeds(n)' : j < k /\ log'[j].gen = log'[k].gen
      BY <1>6, <1>8, <2>2, <3>1, <3>2
    <3> QED BY <1>9, <2>2, <3>1, <3>2, <3>3, <3>4
  <2> QED BY <1>7, <2>1, <2>2
<1>16. OwedOnce'
  <2> SUFFICES ASSUME NEW x \in Sockets, Owing(x)'
               PROVE  /\ task'[x].gen # 1
                      /\ \E j \in Deeds(task[x].nick)' : log'[j].gen = task'[x].gen
                      /\ \A y \in Sockets : Owing(y)' /\ task'[y].nick = task'[x].nick
                                             /\ task'[y].gen = task'[x].gen => y = x
    BY DEF OwedOnce, OwedBy
  <2>1. Owing(x) /\ task'[x] = task[x]
    BY <1>9
  <2>2. /\ task[x].gen # 1
        /\ \E j \in Deeds(task[x].nick) : log[j].gen = task[x].gen
        /\ \A y \in Sockets : Owing(y) /\ task[y].nick = task[x].nick
                               /\ task[y].gen = task[x].gen => y = x
    BY <1>1, <2>1 DEF Told, OwedOnce, OwedBy
  <2>3. PICK d \in Deeds(task[x].nick) : log[d].gen = task[x].gen
    BY <2>2
  <2>4. /\ d \in DOMAIN log' /\ log'[d].type # "takeover"
        /\ log'[d].by = task[x].nick /\ log'[d].gen = task[x].gen
    BY <1>5, <2>3 DEF Deeds
  <2>5. d \in Deeds(task[x].nick)' /\ log'[d].gen = task'[x].gen
    BY <2>1, <2>4 DEF Deeds
  <2> QED BY <1>9, <2>1, <2>2, <2>5
<1> QED BY <1>10, <1>11, <1>12, <1>13, <1>15, <1>16 DEF Told

\* A hello: at the generation of the registry, or one further; then it is the
\* first word of that generation, and owes the notice.
HelloAdds(s, r, n, i, g) ==
    /\ task' = [task EXCEPT ![s] = r]
    /\ g = IF registry.instance[n] = i THEN registry.gen[n] ELSE registry.gen[n] + 1
    /\ registry'.gen = Put(registry.gen, n, g) /\ registry'.instance[n] = i
    /\ \A m \in Nicks \ {n} : registry'.instance[m] = registry.instance[m]
    /\ log' = Append(log, [type |-> "hello", by |-> n, gen |-> g, to |-> {}])
    /\ task[s].pc = "new" /\ r.nick = n /\ r.gen = g
    /\ r.pc = (IF g # registry.gen[n] THEN "closing" ELSE "entering")
    /\ r.displaced <=> g # registry.gen[n] /\ registry.gen[n] > 0

LEMMA HelloLogged ==
    ASSUME SessionsInv, NEW s \in Sockets, NEW r \in Tasks, NEW n \in Nicks,
           NEW i \in Instances, NEW g \in Nat, HelloAdds(s, r, n, i, g)
    PROVE  Placed' /\ Dated' /\ Told' /\ NothingAfterTakeover'
<1> USE DEF HelloAdds
<1> DEFINE e == [type |-> "hello", by |-> n, gen |-> g, to |-> {}]
           new == Len(log) + 1
<1>1. Shape /\ Placed /\ Dated /\ Told /\ NothingAfterTakeover
  BY DEF SessionsInv
<1>2. /\ \A m \in Nicks : registry.gen[m] \in Nat
      /\ \A k \in DOMAIN log : log[k].by \in Nicks
  BY <1>1, GenTyped
<1>3. e \in EventType
  BY DEF EventType
<1>4. e.type # "takeover" /\ e.by = n /\ e.gen = g
  OBVIOUS
<1> HIDE DEF e
<1>5. /\ \A k \in DOMAIN log : k \in DOMAIN log' /\ log'[k] = log[k] /\ k < new /\ k # new
      /\ new \in DOMAIN log' /\ log'[new] = e
      /\ \A k \in DOMAIN log' : k \in DOMAIN log \/ k = new
  <2>1. log' = Append(log, e)
    BY DEF e
  <2> QED BY <1>1, <1>3, <2>1, Grown
<1> HIDE DEF new
<1>6. /\ registry'.gen[n] = g /\ g >= 1
      /\ g = registry.gen[n] \/ g = registry.gen[n] + 1
      /\ \A m \in Nicks \ {n} : registry'.gen[m] = registry.gen[m]
      /\ registry.gen[n] = 0 => g = 1
  <2>1. i # None
    BY RegistryAssumption
  <2>2. registry.gen[n] = 0 => registry.instance[n] = None
    BY <1>1 DEF Placed
  <2> QED BY <1>2, <2>1, <2>2 DEF Put
<1>7. \A m : /\ Takeovers(m)' = Takeovers(m)
             /\ Deeds(m)' = IF m = n THEN Deeds(m) \cup {new} ELSE Deeds(m)
  <2>1. \A m : Takeovers(m)' = Takeovers(m)
    BY <1>4, <1>5 DEF Takeovers
  <2>2. \A m : Deeds(m)' = IF m = n THEN Deeds(m) \cup {new} ELSE Deeds(m)
    BY <1>4, <1>5 DEF Deeds
  <2> QED BY <2>1, <2>2
<1>8. \A m : /\ \A k \in Deeds(m) : k \in DOMAIN log /\ log'[k] = log[k] /\ k < new
                                     /\ k \in Deeds(m)' /\ log[k].by = m
             /\ \A k \in Takeovers(m) : k \in DOMAIN log /\ log'[k] = log[k] /\ log[k].by = m
  BY <1>5, <1>7 DEF Deeds, Takeovers
<1>9. \A x \in Sockets \ {s} : task'[x] = task[x] /\ (Owing(x)' <=> Owing(x))
  BY <1>1, OneTask DEF Owing
<1>10. /\ task'[s].nick = n /\ task'[s].gen = g /\ task'[s].pc \in {"closing", "entering"}
       /\ Owing(s)' <=> g # registry.gen[n] /\ registry.gen[n] > 0
       /\ ~Owing(s)
  BY <1>1, OneTask DEF Owing
<1>11. \A x \in Sockets : Owing(x) =>
          task[x].nick \in Nicks /\ task[x].gen \in 1..registry.gen[task[x].nick]
  BY <1>1 DEF Placed, Owing, Entered
<1>12. Placed'
  <2>1. \A x \in Sockets : Entered(x)' =>
           task'[x].nick \in Nicks /\ task'[x].gen \in 1..registry'.gen[task'[x].nick]
    <3> SUFFICES ASSUME NEW x \in Sockets, x # s, Entered(x)
                 PROVE  task[x].nick \in Nicks /\ task[x].gen \in 1..registry'.gen[task[x].nick]
      BY <1>6, <1>9, <1>10 DEF Entered
    <3>1. task[x].nick \in Nicks /\ task[x].gen \in 1..registry.gen[task[x].nick]
      BY <1>1 DEF Placed
    <3>2. ASSUME NEW m \in Nicks
          PROVE  1..registry.gen[m] \subseteq 1..registry'.gen[m]
      <4>1. registry.gen[m] \in Nat
        BY <1>2
      <4>2. registry'.gen[m] = registry.gen[m] \/ registry'.gen[m] = registry.gen[m] + 1
        BY <1>6
      <4> QED BY <4>1, <4>2
    <3> QED BY <3>1, <3>2
  <2>2. \A m \in Nicks : registry'.gen[m] = 0 => registry'.instance[m] = None
    BY <1>1, <1>6 DEF Placed
  <2> QED BY <2>1, <2>2 DEF Placed
<1>13. Dated'
  <2>1. \A k \in DOMAIN log' : log'[k].gen \in 1..registry'.gen[log'[k].by]
    <3> SUFFICES ASSUME NEW k \in DOMAIN log PROVE log[k].gen \in 1..registry'.gen[log[k].by]
      BY <1>4, <1>5, <1>6
    <3>1. log[k].gen \in 1..registry.gen[log[k].by]
      BY <1>1 DEF Dated
    <3> QED BY <1>2, <1>6, <3>1
  <2>2. \A m \in Nicks : registry'.gen[m] > 0 => \E k \in Deeds(m)' : log'[k].gen = registry'.gen[m]
    <3> SUFFICES ASSUME NEW m \in Nicks, registry'.gen[m] > 0
                 PROVE  \E k \in Deeds(m)' : log'[k].gen = registry'.gen[m]
      OBVIOUS
    <3>1. CASE m = n
      BY <1>4, <1>5, <1>6, <1>7, <3>1
    <3>2. CASE m # n
      <4>1. registry'.gen[m] = registry.gen[m]
        BY <1>6, <3>2
      <4>2. PICK k \in Deeds(m) : log[k].gen = registry.gen[m]
        BY <1>1, <4>1 DEF Dated
      <4>3. k \in Deeds(m)' /\ log'[k] = log[k]
        BY <1>8
      <4> QED BY <4>1, <4>2, <4>3
    <3> QED BY <3>1, <3>2
  <2> QED BY <2>1, <2>2 DEF Dated
<1>14. NothingAfterTakeover'
  <2> SUFFICES ASSUME NEW m \in Nicks, NEW j \in Deeds(m)', NEW k \in Deeds(m)', j < k
               PROVE  log'[j].gen <= log'[k].gen
    BY DEF NothingAfterTakeover
  <2>1. CASE k \in Deeds(m)
    <3>1. j \in Deeds(m)
      <4>1. k < new
        BY <1>8, <2>1
      <4>2. j # new
        <5>1. Len(log) \in Nat /\ k \in 1..Len(log)
          BY <1>1, <1>8, <2>1 DEF Shape
        <5> QED BY <4>1, <5>1 DEF new
      <4> QED BY <1>7, <4>2
    <3> QED BY <1>1, <1>8, <2>1, <3>1 DEF NothingAfterTakeover
  <2>2. CASE k = new /\ m = n /\ j \in Deeds(m)
    <3>1. log[j].gen \in 1..registry.gen[n]
      BY <1>1, <1>8, <2>2 DEF Dated
    <3> QED BY <1>2, <1>4, <1>5, <1>6, <1>8, <2>2, <3>1
  <2>3. CASE k = new /\ m = n /\ j = new
    BY <1>4, <1>5, <2>3
  <2> QED BY <1>7, <2>1, <2>2, <2>3
<1>15. \A m \in Nicks : \A k \in Deeds(m) \cup Takeovers(m) : log[k].gen \in 1..registry.gen[m]
  BY <1>1, <1>8 DEF Dated
<1>16. Announced'
  <2> SUFFICES ASSUME NEW m \in Nicks, NEW k \in Deeds(m)'
               PROVE  \/ log'[k].gen = 1
                      \/ \E j \in Takeovers(m)' : log'[j].gen = log'[k].gen
                      \/ \E x \in Sockets : Owing(x)' /\ task'[x].nick = m /\ task'[x].gen = log'[k].gen
    BY DEF Announced, OwedBy
  <2>1. ASSUME NEW d \in Deeds(m), log[d].gen = log'[k].gen
        PROVE  \/ log'[k].gen = 1
               \/ \E j \in Takeovers(m)' : log'[j].gen = log'[k].gen
               \/ \E x \in Sockets : Owing(x)' /\ task'[x].nick = m /\ task'[x].gen = log'[k].gen
    <3>1. \/ log[d].gen = 1
          \/ \E j \in Takeovers(m) : log[j].gen = log[d].gen
          \/ \E x \in Sockets : Owing(x) /\ task[x].nick = m /\ task[x].gen = log[d].gen
      BY <1>1 DEF Told, Announced, OwedBy
    <3>2. ASSUME NEW j \in Takeovers(m), log[j].gen = log[d].gen
          PROVE  j \in Takeovers(m)' /\ log'[j].gen = log'[k].gen
      <4>1. j \in Takeovers(m)'
        BY <1>7
      <4>2. log'[j] = log[j]
        BY <1>8
      <4> QED BY <2>1, <3>2, <4>1, <4>2
    <3>3. ASSUME NEW x \in Sockets, Owing(x), task[x].nick = m, task[x].gen = log[d].gen
          PROVE  Owing(x)' /\ task'[x].nick = m /\ task'[x].gen = log'[k].gen
      BY <1>9, <1>10, <2>1, <3>3
    <3> QED BY <2>1, <3>1, <3>2, <3>3
  <2>2. CASE k \in Deeds(m)
    <3>1. log[k].gen = log'[k].gen
      BY <1>8, <2>2
    <3> QED BY <2>1, <2>2, <3>1
  <2>3. CASE k = new /\ m = n
    <3>1. log'[k].gen = g
      BY <1>4, <1>5, <2>3
    <3>2. CASE g = registry.gen[n]
      <4>1. \E d \in Deeds(n) : log[d].gen = g
        BY <1>1, <1>6, <3>2 DEF Dated
      <4> QED BY <2>1, <2>3, <3>1, <4>1
    <3>3. CASE g # registry.gen[n] /\ registry.gen[n] > 0
      BY <1>10, <2>3, <3>1, <3>3
    <3>4. CASE registry.gen[n] = 0
      BY <1>6, <3>1, <3>4
    <3>5. registry.gen[n] = 0 \/ registry.gen[n] > 0
      BY <1>2
    <3> QED BY <3>2, <3>3, <3>4, <3>5
  <2> QED BY <1>7, <2>2, <2>3
<1>17. NoticeOnce'
  <2> SUFFICES ASSUME NEW m \in Nicks, NEW k \in Takeovers(m)'
               PROVE  /\ log'[k].gen # 1
                      /\ \E j \in Deeds(m)' : j < k /\ log'[j].gen = log'[k].gen
                      /\ \A j \in Takeovers(m)' : log'[j].gen = log'[k].gen => j = k
                      /\ \A x \in Sockets : ~(Owing(x)' /\ task'[x].nick = m /\ task'[x].gen = log'[k].gen)
    BY DEF NoticeOnce, OwedBy
  <2>1. k \in Takeovers(m) /\ log'[k] = log[k]
    BY <1>7, <1>8
  <2>2. /\ log[k].gen # 1
        /\ \E j \in Deeds(m) : j < k /\ log[j].gen = log[k].gen
        /\ \A j \in Takeovers(m) : log[j].gen = log[k].gen => j = k
        /\ \A x \in Sockets : ~(Owing(x) /\ task[x].nick = m /\ task[x].gen = log[k].gen)
    BY <1>1, <2>1 DEF Told, NoticeOnce, OwedBy
  <2>3. \E j \in Deeds(m)' : j < k /\ log'[j].gen = log'[k].gen
    <3>1. PICK j \in Deeds(m) : j < k /\ log[j].gen = log[k].gen
      BY <2>2
    <3>2. j \in Deeds(m)' /\ log'[j] = log[j]
      BY <1>8
    <3> QED BY <2>1, <3>1, <3>2
  <2>4. \A j \in Takeovers(m)' : log'[j].gen = log'[k].gen => j = k
    BY <1>7, <1>8, <2>1, <2>2
  <2>5. ~(Owing(s)' /\ n = m /\ g = log[k].gen)
    BY <1>2, <1>6, <1>10, <1>15, <2>1
  <2>6. \A x \in Sockets : ~(Owing(x)' /\ task'[x].nick = m /\ task'[x].gen = log'[k].gen)
    <3>1. ASSUME NEW x \in Sockets, x # s, Owing(x)', task'[x].nick = m, task'[x].gen = log'[k].gen
          PROVE  FALSE
      <4>1. Owing(x) /\ task'[x] = task[x]
        BY <1>9, <3>1
      <4> QED BY <2>1, <2>2, <3>1, <4>1
    <3>2. ~(Owing(s)' /\ task'[s].nick = m /\ task'[s].gen = log'[k].gen)
      BY <1>10, <2>1, <2>5
    <3> QED BY <3>1, <3>2
  <2> QED BY <2>1, <2>2, <2>3, <2>4, <2>6
<1>18. OwedOnce'
  <2> SUFFICES ASSUME NEW x \in Sockets, Owing(x)', NEW m, m = task'[x].nick
               PROVE  /\ task'[x].gen # 1
                      /\ \E j \in Deeds(m)' : log'[j].gen = task'[x].gen
                      /\ \A y \in Sockets : Owing(y)' /\ task'[y].nick = m
                                             /\ task'[y].gen = task'[x].gen => y = x
    BY ZenonT(60) DEF OwedOnce, OwedBy
  <2>1. CASE x = s
    <3>1. g = registry.gen[n] + 1 /\ registry.gen[n] > 0 /\ m = n /\ task'[x].gen = g
      BY <1>6, <1>10, <2>1
    <3>2. \E j \in Deeds(m)' : log'[j].gen = g
      BY <1>4, <1>5, <1>7, <3>1
    <3>3. ASSUME NEW y \in Sockets, y # s, Owing(y)', task'[y].nick = n, task'[y].gen = g
          PROVE  FALSE
      BY <1>2, <1>9, <1>11, <3>1, <3>3
    <3>4. task'[x].gen # 1
      BY <1>2, <3>1
    <3>5. \A y \in Sockets : Owing(y)' /\ task'[y].nick = m /\ task'[y].gen = task'[x].gen => y = x
      BY <2>1, <3>1, <3>3
    <3> QED BY <3>1, <3>2, <3>4, <3>5
  <2>2. CASE x # s
    <3>1. Owing(x) /\ task'[x] = task[x] /\ task[x].nick = m
      BY <1>9, <2>2
    <3>2. /\ task[x].gen # 1
          /\ \E j \in Deeds(m) : log[j].gen = task[x].gen
          /\ \A y \in Sockets : Owing(y) /\ task[y].nick = m
                                 /\ task[y].gen = task[x].gen => y = x
      BY <1>1, <3>1 DEF Told, OwedOnce, OwedBy
    <3>3. \E j \in Deeds(m)' : log'[j].gen = task'[x].gen
      BY <1>8, <3>1, <3>2
    <3>4. ~(Owing(s)' /\ n = m /\ g = task[x].gen)
      BY <1>2, <1>6, <1>10, <1>11, <3>1
    <3>5. \A y \in Sockets : Owing(y)' /\ task'[y].nick = m /\ task'[y].gen = task'[x].gen => y = x
      <4>1. ASSUME NEW y \in Sockets, y # s, Owing(y)', task'[y].nick = m, task'[y].gen = task'[x].gen
            PROVE  y = x
        <5>1. Owing(y) /\ task'[y] = task[y]
          BY <1>9, <4>1
        <5> QED BY <3>1, <3>2, <4>1, <5>1
      <4>2. ~(Owing(s)' /\ task'[s].nick = m /\ task'[s].gen = task'[x].gen)
        BY <1>10, <3>1, <3>4
      <4> QED BY <4>1, <4>2
    <3> QED BY <3>1, <3>2, <3>3, <3>5
  <2> QED BY <2>1, <2>2
<1> QED BY <1>12, <1>13, <1>14, <1>16, <1>17, <1>18 DEF Told

-----------------------------------------------------------------------------
(* Steps that log nothing. *)

LEMMA QuietStep ==
    ASSUME SessionsInv, NEW s \in Sockets, NEW r \in Tasks, task' = [task EXCEPT ![s] = r],
           UNCHANGED <<registry, log>>,
           conns' \in [Nicks -> SUBSET Sockets], groups' \in [Nicks -> SUBSET Groups],
           boundary' \in 0..Len(log), open' \in [Sockets -> BOOLEAN],
           wire' \in [Sockets -> Seq(FrameType)],
           running' = None \/ (running' = s /\ r.pc \notin {"new", "loop", "done"}),
           r.pc \notin {"new", "done"} =>
               Entered(s) /\ r.nick = task[s].nick /\ r.gen = task[s].gen,
           r.pc = "closing" /\ r.displaced <=> Owing(s),
           Sound(r, DOMAIN log), Condemned'
    PROVE  SessionsInv'
<1>1. Shape /\ Referring /\ Extends
  BY DEF SessionsInv, Extends
<1>2. Placed' /\ Dated' /\ Told' /\ NothingAfterTakeover'
  BY QuietLog
<1>3. Referring' /\ task' \in [Sockets -> Tasks] /\ running' \in Sockets \cup {None}
  BY <1>1, ReferringKept
<1>4. wire' \in [Sockets -> Seq(FrameType')]
  <2>1. FrameType' = FrameType
    BY DEF FrameType
  <2> QED BY <2>1
<1>5. Shape'
  BY <1>1, <1>3, <1>4 DEF Shape
<1> QED BY <1>2, <1>3, <1>5 DEF SessionsInv

\* A handler that goes on, with every socket where it was.
LEMMA Moves ==
    ASSUME SessionsInv, NEW s \in Sockets, NEW r \in Tasks, task' = [task EXCEPT ![s] = r],
           UNCHANGED <<registry, conns, groups, log, open>>,
           boundary' \in 0..Len(log), wire' \in [Sockets -> Seq(FrameType)],
           running' = None \/ (running' = s /\ r.pc # "loop"),
           Entered(s), r.pc \notin {"new", "done"},
           r.nick = task[s].nick, r.gen = task[s].gen,
           r.doomed = task[s].doomed, r.todo = task[s].todo,
           r.todo # {} => r.pc \in {"closing", "evicting"},
           r.pc = "closing" /\ r.displaced <=> Owing(s),
           r.pc \in {"condemning", "ejecting"} <=> task[s].pc \in {"condemning", "ejecting"},
           r.pc \in {"condemning", "ejecting"} => r.seq = task[s].seq,
           Sound(r, DOMAIN log)
    PROVE  SessionsInv'
<1>1. Shape /\ Referring /\ Condemned /\ Extends
  BY DEF SessionsInv, Extends
<1>2. r.pc \in {"condemning", "ejecting"} =>
          r.seq \in DOMAIN log' /\ \E n \in Nicks : log'[r.seq].to = {n}
  BY <1>1 DEF Condemned
<1>3. Condemned'
  BY <1>1, <1>2, CondemnedKept
<1> QED BY <1>1, <1>3, QuietStep DEF Shape

LEMMA Sending ==
    ASSUME Shape, NEW x \in Sockets, NEW f \in FrameType, Transmit(x, f)
    PROVE  wire' \in [Sockets -> Seq(FrameType)]
<1>1. wire \in [Sockets -> Seq(FrameType)]
  BY DEF Shape
<1>2. Append(wire[x], f) \in Seq(FrameType)
  BY <1>1
<1> QED BY <1>1, <1>2 DEF Transmit

LEMMA SnapshotBound ==
    ASSUME Shape, NEW s \in Sockets, MaySnapshot(s, Len(log))
    PROVE  boundary' \in 0..Len(log)
BY DEF Shape, MaySnapshot

-----------------------------------------------------------------------------
(* One lemma per action: from the first frame to the frame loop. *)

LEMMA StepTurnedAway ==
    ASSUME SessionsInv, NEW s \in Sockets, TurnedAway(s) PROVE SessionsInv'
<1> DEFINE r == [task[s] EXCEPT !.pc = "done"]
<1>1. Shape /\ Referring /\ Condemned /\ Extends
  BY DEF SessionsInv, Extends, TurnedAway
<1>2. task[s] = NoTask
  BY <1>1 DEF Condemned, TurnedAway, NextToEnter
<1>3. r \in Tasks /\ task' = [task EXCEPT ![s] = r] /\ open' \in [Sockets -> BOOLEAN]
  <2>1. task[s] \in Tasks
    BY <1>1 DEF Shape
  <2> QED BY <1>1, <2>1 DEF Tasks, Places, TurnedAway, Shape
<1>4. /\ r.pc = "done" /\ r.todo = {} /\ r.doomed = {} /\ task[s].doomed = {}
      /\ r.queue = {} /\ ~Owing(s) /\ task[s].todo = {} /\ task[s].pc = "new"
  BY <1>2 DEF NoTask, Owing
<1>5. \A x \in Sockets : open'[x] => open[x]
  BY <1>1 DEF TurnedAway, Shape
<1>6. UNCHANGED <<registry, conns, groups, log, boundary, wire>> /\ running' = None
  BY DEF TurnedAway, Await
<1>7. Sound(r, DOMAIN log)
  BY <1>4 DEF Sound, Carrying, Arriving
<1> HIDE DEF r
<1>8. Condemned'
  BY <1>1, <1>3, <1>4, <1>5, <1>6, CondemnedKept
<1>9. /\ conns' \in [Nicks -> SUBSET Sockets] /\ groups' \in [Nicks -> SUBSET Groups]
      /\ boundary' \in 0..Len(log) /\ wire' \in [Sockets -> Seq(FrameType)]
  BY <1>1, <1>6 DEF Shape
<1>10. /\ r.pc = "closing" /\ r.displaced <=> Owing(s)
       /\ running' = None \/ (running' = s /\ r.pc \notin {"new", "loop", "done"})
       /\ r.pc \notin {"new", "done"} =>
            Entered(s) /\ r.nick = task[s].nick /\ r.gen = task[s].gen
  BY <1>4, <1>6
<1>11. UNCHANGED <<registry, log>>
  BY <1>6
<1> QED BY <1>3, <1>7, <1>8, <1>9, <1>10, <1>11, QuietStep

LEMMA StepCloseOne ==
    ASSUME SessionsInv, NEW s \in Sockets, CloseOne(s) PROVE SessionsInv'
<1>1. PICK x \in task[s].todo : /\ open' = [open EXCEPT ![x] = FALSE]
                                /\ task' = [task EXCEPT ![s].todo = @ \ {x}]
  BY DEF CloseOne
<1> DEFINE r == [task[s] EXCEPT !.todo = @ \ {x}]
<1>2. Shape /\ Referring /\ Condemned /\ Extends
  BY DEF SessionsInv, Extends, CloseOne
<1>3. task[s] \in Tasks
  BY <1>2 DEF Shape
<1>4. r \in Tasks /\ task' = [task EXCEPT ![s] = r] /\ open' \in [Sockets -> BOOLEAN]
  BY <1>1, <1>2, <1>3 DEF Tasks, Shape
<1>5. /\ r.pc = task[s].pc /\ r.nick = task[s].nick /\ r.gen = task[s].gen
      /\ r.displaced = task[s].displaced /\ r.todo = task[s].todo \ {x}
      /\ r.doomed = task[s].doomed /\ r.seq = task[s].seq /\ r.end = task[s].end
      /\ r.queue = task[s].queue
  BY <1>3 DEF Tasks
<1>6. task[s].pc \in {"closing", "evicting"}
  BY DEF CloseOne
<1>7. UNCHANGED <<registry, conns, groups, log, boundary, wire>> /\ running' = None
  BY DEF CloseOne, Await
<1>8. /\ \A y \in Sockets : open'[y] => open[y]
      /\ x \in Sockets /\ ~open'[x]
  BY <1>1, <1>2, <1>3 DEF Shape, Tasks
<1>9. Sound(r, DOMAIN log)
  BY <1>2, <1>5 DEF Referring, Sound
<1> HIDE DEF r
<1>10. Condemned'
  <2>1. /\ r.pc \in {"closing", "evicting"} /\ r.pc # "new"
        /\ r.pc \notin {"condemning", "ejecting"}
        /\ task[s].pc \notin {"condemning", "ejecting"}
    BY <1>5, <1>6
  <2>2. \A n \in Nicks : \A y \in conns[n] : y \in conns'[n]
    BY <1>7
  <2>3. \A y \in task[s].todo : y \in r.todo \/ ~open'[y]
    BY <1>5, <1>8
  <2>4. \A y \in r.doomed : y \in task[s].doomed
    BY <1>5
  <2>5. \A y \in Sockets : open'[y] => open[y]
    BY <1>8
  <2> QED BY <1>2, <1>4, <2>1, <2>2, <2>3, <2>4, <2>5, CondemnedKept
<1>11. Entered(s) /\ (r.pc = "closing" /\ r.displaced <=> Owing(s))
  BY <1>5, <1>6 DEF Entered, Owing
<1>12. /\ conns' \in [Nicks -> SUBSET Sockets] /\ groups' \in [Nicks -> SUBSET Groups]
       /\ boundary' \in 0..Len(log) /\ wire' \in [Sockets -> Seq(FrameType)]
  BY <1>2, <1>7 DEF Shape
<1>13. /\ r.pc \notin {"new", "done"} =>
            Entered(s) /\ r.nick = task[s].nick /\ r.gen = task[s].gen
       /\ running' = None \/ (running' = s /\ r.pc \notin {"new", "loop", "done"})
       /\ UNCHANGED <<registry, log>>
  BY <1>5, <1>7, <1>11
<1> QED BY <1>4, <1>9, <1>10, <1>11, <1>12, <1>13, QuietStep

LEMMA StepAnnounce ==
    ASSUME SessionsInv, NEW s \in Sockets, Announce(s) PROVE SessionsInv'
<1>1. Shape /\ Referring /\ Condemned /\ Placed /\ task[s] \in Tasks
  BY DEF SessionsInv, Shape
<1>2. /\ task[s].pc = "closing" /\ task[s].todo = {} /\ running' = s
      /\ UNCHANGED <<registry, conns, groups, boundary, open, wire>>
  BY DEF Announce, RunOn
<1>3. CASE ~task[s].displaced
  <2> DEFINE r == [task[s] EXCEPT !.pc = "entering"]
  <2>1. r \in Tasks /\ task' = [task EXCEPT ![s] = r] /\ log' = log
    BY <1>1, <1>3 DEF Tasks, Places, Announce, Shape
  <2>2. /\ r.pc = "entering" /\ r.nick = task[s].nick /\ r.gen = task[s].gen
        /\ r.doomed = task[s].doomed /\ r.todo = task[s].todo
        /\ r.queue = task[s].queue /\ r.end = task[s].end
    BY <1>1 DEF Tasks
  <2> HIDE DEF r
  <2>3. Sound(r, DOMAIN log)
    BY <1>1, <1>2, <2>2 DEF Referring, Sound, Arriving, Carrying
  <2>4. Entered(s) /\ (r.pc = "closing" /\ r.displaced <=> Owing(s))
    BY <1>2, <1>3, <2>2 DEF Entered, Owing
  <2>5. boundary' \in 0..Len(log) /\ wire' \in [Sockets -> Seq(FrameType)]
    BY <1>1, <1>2 DEF Shape
  <2> QED BY <1>2, <2>1, <2>2, <2>3, <2>4, <2>5, Moves
<1>4. CASE task[s].displaced
  <2> DEFINE people == {n \in Nicks \ {task[s].nick} : Human(n)}
             r == [task[s] EXCEPT !.pc = "announcing", !.seq = Len(log) + 1, !.audience = people]
             e == Event("takeover", s, {task[s].nick})
  <2>1. task' = [task EXCEPT ![s] = r] /\ log' = Append(log, e)
    BY <1>1, <1>4 DEF Announce, Shape
  <2>2. people \in SUBSET Nicks
    OBVIOUS
  <2>3. Owing(s) /\ Entered(s)
    BY <1>2, <1>4 DEF Owing, Entered
  <2>4. e \in EventType
    BY <1>1, <2>3 DEF Event, EventType, Placed
  <2>5. Extends
    BY <2>1, <2>4 DEF Extends
  <2>6. Len(log) + 1 \in Nat /\ Len(log) + 1 \in DOMAIN log' /\ DOMAIN log \subseteq DOMAIN log'
        /\ log'[Len(log) + 1] = e
    BY <1>1, <2>1, <2>4, Grown
  <2> HIDE DEF people
  <2>7. r \in Tasks
    BY <1>1, <2>2, <2>6 DEF Tasks, Places
  <2>8. /\ r.pc = "announcing" /\ r.nick = task[s].nick /\ r.gen = task[s].gen
        /\ r.doomed = task[s].doomed /\ r.todo = {} /\ r.seq = Len(log) + 1
        /\ r.queue = task[s].queue /\ r.end = task[s].end
    BY <1>1, <1>2 DEF Tasks
  <2>9. e.type = "takeover"
    BY DEF Event
  <2>10. Placed' /\ Dated' /\ Told' /\ NothingAfterTakeover'
    BY <1>2, <2>1, <2>3, <2>7, <2>8, NoticeLogged
  <2> HIDE DEF r, e
  <2>11. Sound(r, DOMAIN log')
    BY <1>1, <1>2, <2>6, <2>8 DEF Referring, Sound, Arriving, Carrying
  <2>12. Referring' /\ task' \in [Sockets -> Tasks] /\ running' \in Sockets \cup {None}
    <3>1. \A k \in DOMAIN log' \ DOMAIN log : log'[k].type # "membership_set"
      BY <1>1, <2>1, <2>4, <2>9, Grown
    <3> QED BY <1>1, <1>2, <2>1, <2>5, <2>7, <2>8, <2>11, <3>1, ReferringKept
  <2>13. Condemned'
    BY <1>1, <1>2, <2>1, <2>5, <2>7, <2>8, CondemnedKept
  <2>14. Shape'
    BY <1>1, <1>2, <2>5, <2>12, LogExtends DEF Shape
  <2> QED BY <2>10, <2>12, <2>13, <2>14 DEF SessionsInv
<1> QED BY <1>3, <1>4

LEMMA StepEnter ==
    ASSUME SessionsInv, NEW s \in Sockets, Enter(s) PROVE SessionsInv'
<1> DEFINE r == [task[s] EXCEPT !.pc = "replying", !.displaced = FALSE, !.resync = FALSE,
                                !.since = 0, !.seq = 0]
<1>1. Shape /\ Referring /\ Condemned /\ Placed /\ task[s] \in Tasks
  BY DEF SessionsInv, Shape
<1>2. /\ task[s].pc = "entering" /\ running' \in {None, s}
      /\ UNCHANGED <<registry, log, open>>
  BY DEF Enter, AwaitSend
<1>3. Entered(s) /\ ~Owing(s) /\ task[s].nick \in Nicks
  BY <1>1, <1>2 DEF Entered, Owing, Placed
<1>4. r \in Tasks /\ task' = [task EXCEPT ![s] = r]
  BY <1>1 DEF Tasks, Places, Enter, Shape
<1>5. /\ r.pc = "replying" /\ r.nick = task[s].nick /\ r.gen = task[s].gen
      /\ r.doomed = task[s].doomed /\ r.todo = task[s].todo
      /\ r.queue = task[s].queue /\ r.end = task[s].end
  BY <1>1 DEF Tasks
<1>6. /\ conns' = Put(conns, task[s].nick, conns[task[s].nick] \cup {s})
      /\ groups' = Put(groups, task[s].nick, task[s].groups)
  BY DEF Enter
<1>7. conns' \in [Nicks -> SUBSET Sockets] /\ groups' \in [Nicks -> SUBSET Groups]
  BY <1>1, <1>3, <1>6 DEF Shape, Put, Tasks
<1>8. \A n \in Nicks : \A x \in conns[n] : x \in conns'[n]
  BY <1>1, <1>3, <1>6 DEF Put
<1>9. boundary' \in 0..Len(log)
  BY <1>1, SnapshotBound DEF Enter, Shape
<1>10. wire' \in [Sockets -> Seq(FrameType)]
  <2>1. task[s].end \in DOMAIN log
    BY <1>1, <1>2 DEF Referring, Sound, Arriving
  <2>2. log \in Seq(EventType) /\ Len(log) \in Nat /\ DOMAIN log = 1..Len(log)
        /\ task[s].since \in Nat /\ task[s].end \in Nat
    BY <1>1 DEF Shape, Tasks
  <2>3. Len(log) \in DOMAIN log
    BY <2>1, <2>2
  <2>4. Conversation(task[s].since) \in SUBSET (DOMAIN log)
    BY <2>2 DEF Conversation
  <2>5. Backlog(task[s].since, task[s].end) \in SUBSET (DOMAIN log)
    BY <2>1, <2>2 DEF Backlog
  <2>6. ReplyTo(task[s]) \in FrameType
    BY <2>1, <2>3, <2>4, <2>5 DEF ReplyTo, FrameType
  <2>7. Transmit(s, ReplyTo(task[s]))
    BY DEF Enter
  <2> QED BY <1>1, <2>6, <2>7, Sending
<1> HIDE DEF r
<1>11. Sound(r, DOMAIN log)
  BY <1>1, <1>2, <1>5 DEF Referring, Sound, Arriving, Carrying
<1>12. Extends
  BY <1>2 DEF Extends
<1>13. r.todo = {} /\ task[s].todo = {}
  BY <1>1, <1>2, <1>5 DEF Condemned
<1>14. Condemned'
  <2>1. \A x \in Sockets : open'[x] => open[x]
    BY <1>2
  <2>2. r.pc # "new" /\ r.pc \notin {"condemning", "ejecting"}
        /\ task[s].pc \notin {"condemning", "ejecting"}
    BY <1>2, <1>5
  <2>3. \A x \in r.doomed : x \in task[s].doomed
    BY <1>5
  <2> QED BY <1>1, <1>4, <1>8, <1>12, <1>13, <2>1, <2>2, <2>3, CondemnedKept
<1>15. open' \in [Sockets -> BOOLEAN]
  BY <1>1, <1>2 DEF Shape
<1> QED BY <1>2, <1>3, <1>4, <1>5, <1>7, <1>9, <1>10, <1>11, <1>14, <1>15, QuietStep

LEMMA StepStartCatchUp ==
    ASSUME SessionsInv, NEW s \in Sockets, StartCatchUp(s) PROVE SessionsInv'
<1> DEFINE due == Missed(task[s])
           r == [task[s] EXCEPT !.pc = "catching", !.queue = due, !.end = 0, !.groups = {}]
<1>1. Shape /\ Referring /\ Condemned /\ task[s] \in Tasks
  BY DEF SessionsInv, Shape
<1>2. /\ task[s].pc = "replying" /\ running' = s
      /\ UNCHANGED <<registry, conns, groups, log, boundary, open, wire>>
  BY DEF StartCatchUp, RunOn
<1>3. due \subseteq DOMAIN log /\ due \subseteq Nat
  <2>1. due \subseteq task[s].end+1..Len(log)
    BY DEF Missed
  <2> QED BY <1>1, <2>1 DEF Shape, Tasks
<1>4. task' = [task EXCEPT ![s] = r]
  BY <1>1 DEF StartCatchUp, Shape
<1> HIDE DEF due
<1>5. r \in Tasks
  BY <1>1, <1>3 DEF Tasks, Places
<1>6. /\ r.pc = "catching" /\ r.nick = task[s].nick /\ r.gen = task[s].gen
      /\ r.doomed = task[s].doomed /\ r.todo = task[s].todo
      /\ r.queue = due
  BY <1>1 DEF Tasks
<1> HIDE DEF r
<1>7. Sound(r, DOMAIN log)
  BY <1>3, <1>6 DEF Sound, Arriving, Carrying
<1>8. /\ Entered(s) /\ (r.pc = "closing" /\ r.displaced <=> Owing(s)) /\ r.todo = {}
      /\ boundary' \in 0..Len(log) /\ wire' \in [Sockets -> Seq(FrameType)]
  BY <1>1, <1>2, <1>6 DEF Entered, Owing, Condemned, Shape
<1> QED BY <1>2, <1>4, <1>5, <1>6, <1>7, <1>8, Moves

LEMMA StepCatchUp ==
    ASSUME SessionsInv, NEW s \in Sockets, CatchUp(s) PROVE SessionsInv'
<1>1. Shape /\ Referring /\ Condemned /\ task[s] \in Tasks
  BY DEF SessionsInv, Shape
<1>2. /\ task[s].pc = "catching" /\ running' \in {None, s}
      /\ UNCHANGED <<registry, conns, groups, log, boundary, open>>
  BY DEF CatchUp, AwaitSend
<1>3. PICK k \in task[s].queue : /\ Transmit(s, [type |-> "event", seq |-> k])
                                 /\ task' = [task EXCEPT ![s].queue = @ \ {k}]
  BY DEF CatchUp
<1> DEFINE r == [task[s] EXCEPT !.queue = @ \ {k}]
<1>4. r \in Tasks /\ task' = [task EXCEPT ![s] = r]
  BY <1>1, <1>3 DEF Tasks, Shape
<1>5. /\ r.pc = task[s].pc /\ r.nick = task[s].nick /\ r.gen = task[s].gen
      /\ r.doomed = task[s].doomed /\ r.todo = task[s].todo
      /\ r.queue \subseteq task[s].queue /\ r.seq = task[s].seq /\ r.end = task[s].end
  BY <1>1 DEF Tasks
<1> HIDE DEF r
<1>6. Sound(r, DOMAIN log) /\ k \in DOMAIN log
  BY <1>1, <1>5 DEF Referring, Sound
<1>7. wire' \in [Sockets -> Seq(FrameType)]
  <2>1. [type |-> "event", seq |-> k] \in FrameType
    BY <1>6 DEF FrameType
  <2> QED BY <1>1, <1>3, <2>1, Sending
<1>8. /\ Entered(s) /\ (r.pc = "closing" /\ r.displaced <=> Owing(s)) /\ r.todo = {}
      /\ boundary' \in 0..Len(log)
  BY <1>1, <1>2, <1>5 DEF Entered, Owing, Condemned, Shape
<1> QED BY <1>2, <1>4, <1>5, <1>6, <1>7, <1>8, Moves

LEMMA StepEndCatchUp ==
    ASSUME SessionsInv, NEW s \in Sockets, EndCatchUp(s) PROVE SessionsInv'
<1> DEFINE r == [task[s] EXCEPT !.pc = "loop"]
<1>1. Shape /\ Referring /\ Condemned /\ task[s] \in Tasks
  BY DEF SessionsInv, Shape
<1>2. /\ task[s].pc = "catching" /\ running' = None
      /\ UNCHANGED <<registry, conns, groups, log, open, wire>>
  BY DEF EndCatchUp, Await
<1>3. r \in Tasks /\ task' = [task EXCEPT ![s] = r]
  BY <1>1 DEF Tasks, Places, EndCatchUp, Shape
<1>4. /\ r.pc = "loop" /\ r.nick = task[s].nick /\ r.gen = task[s].gen
      /\ r.doomed = task[s].doomed /\ r.todo = task[s].todo /\ r.queue = task[s].queue
  BY <1>1 DEF Tasks
<1> HIDE DEF r
<1>5. Sound(r, DOMAIN log)
  BY <1>1, <1>4 DEF Referring, Sound, Arriving, Carrying
<1>6. boundary' \in 0..Len(log)
  BY <1>1, SnapshotBound DEF EndCatchUp
<1>7. /\ Entered(s) /\ (r.pc = "closing" /\ r.displaced <=> Owing(s)) /\ r.todo = {}
      /\ wire' \in [Sockets -> Seq(FrameType)]
  BY <1>1, <1>2, <1>4 DEF Entered, Owing, Condemned, Shape
<1> QED BY <1>2, <1>3, <1>4, <1>5, <1>6, <1>7, Moves

-----------------------------------------------------------------------------
(* Frames that log nothing, broadcasts, and the ends of connections. *)

LEMMA StepStaleFrame ==
    ASSUME SessionsInv, NEW s \in Sockets, StaleFrame(s) PROVE SessionsInv'
<1> DEFINE r == [task[s] EXCEPT !.pc = "leaving"]
<1>1. Shape /\ Referring /\ Condemned /\ task[s] \in Tasks
  BY DEF SessionsInv, Shape
<1>2. /\ task[s].pc = "loop" /\ running' \in {None, s}
      /\ UNCHANGED <<registry, conns, groups, log, boundary, open, wire>>
  BY DEF StaleFrame, AwaitSend
<1>3. r \in Tasks /\ task' = [task EXCEPT ![s] = r]
  BY <1>1 DEF Tasks, Places, StaleFrame, Shape
<1>4. /\ r.pc = "leaving" /\ r.nick = task[s].nick /\ r.gen = task[s].gen
      /\ r.doomed = task[s].doomed /\ r.todo = task[s].todo /\ r.queue = task[s].queue
  BY <1>1 DEF Tasks
<1> HIDE DEF r
<1>5. Sound(r, DOMAIN log)
  BY <1>1, <1>4 DEF Referring, Sound, Arriving, Carrying
<1>6. /\ Entered(s) /\ (r.pc = "closing" /\ r.displaced <=> Owing(s)) /\ r.todo = {}
      /\ boundary' \in 0..Len(log) /\ wire' \in [Sockets -> Seq(FrameType)]
  BY <1>1, <1>2, <1>4 DEF Entered, Owing, Condemned, Shape
<1> QED BY <1>2, <1>3, <1>4, <1>5, <1>6, Moves

LEMMA StepRoute ==
    ASSUME SessionsInv, NEW s \in Sockets, Route(s) PROVE SessionsInv'
<1> DEFINE told == Audience(log[task[s].seq])
           r == [task[s] EXCEPT !.pc = "publishing", !.audience = told]
<1>1. Shape /\ Referring /\ Condemned /\ task[s] \in Tasks
  BY DEF SessionsInv, Shape
<1>2. /\ task[s].pc \in {"routing", "warning"} /\ running' = s
      /\ UNCHANGED <<registry, conns, groups, log, boundary, open, wire>>
  BY DEF Route, RunOn
<1>3. task[s].seq \in DOMAIN log
  BY <1>1, <1>2 DEF Referring, Sound, Carrying
<1>4. told \in SUBSET Nicks
  <2>1. log[task[s].seq].type = "membership_set" => log[task[s].seq].to \subseteq Nicks
    BY <1>1, <1>3 DEF Referring
  <2> QED BY <2>1 DEF Audience
<1>5. task' = [task EXCEPT ![s] = r]
  BY <1>1 DEF Route, Shape
<1> HIDE DEF told
<1>6. r \in Tasks
  BY <1>1, <1>4 DEF Tasks, Places
<1>7. /\ r.pc = "publishing" /\ r.nick = task[s].nick /\ r.gen = task[s].gen
      /\ r.doomed = task[s].doomed /\ r.todo = task[s].todo /\ r.queue = task[s].queue
      /\ r.seq = task[s].seq
  BY <1>1 DEF Tasks
<1> HIDE DEF r
<1>8. Sound(r, DOMAIN log)
  BY <1>1, <1>3, <1>7 DEF Referring, Sound, Arriving, Carrying
<1>9. /\ Entered(s) /\ (r.pc = "closing" /\ r.displaced <=> Owing(s)) /\ r.todo = {}
      /\ boundary' \in 0..Len(log) /\ wire' \in [Sockets -> Seq(FrameType)]
  BY <1>1, <1>2, <1>7 DEF Entered, Owing, Condemned, Shape
<1> QED BY <1>2, <1>5, <1>6, <1>7, <1>8, <1>9, Moves

LEMMA StepSpread ==
    ASSUME SessionsInv, NEW s \in Sockets, Spread(s) PROVE SessionsInv'
<1>1. Shape /\ Referring /\ Condemned /\ task[s] \in Tasks
  BY DEF SessionsInv, Shape
<1>2. /\ task[s].pc \in {"announcing", "publishing", "condemning"} /\ running' \in {None, s}
      /\ UNCHANGED <<registry, conns, groups, log, boundary, open>>
  BY DEF Spread, Spreading, AwaitSend
<1>3. task[s].seq \in DOMAIN log /\ [type |-> "event", seq |-> task[s].seq] \in FrameType
  BY <1>1, <1>2 DEF Referring, Sound, Carrying, FrameType
<1>4. PICK x \in Sockets, b \in SUBSET Sockets, a \in SUBSET Nicks :
         /\ Transmit(x, [type |-> "event", seq |-> task[s].seq])
         /\ task' = [task EXCEPT ![s] = [task[s] EXCEPT !.batch = b, !.audience = a]]
  <2>1. CASE \E x \in task[s].batch :
               /\ Transmit(x, [type |-> "event", seq |-> task[s].seq])
               /\ task' = [task EXCEPT ![s].batch = @ \ {x}]
    <3>1. PICK x \in task[s].batch :
             /\ Transmit(x, [type |-> "event", seq |-> task[s].seq])
             /\ task' = [task EXCEPT ![s].batch = @ \ {x}]
      BY <2>1
    <3>2. x \in Sockets /\ task[s].batch \ {x} \in SUBSET Sockets /\ task[s].audience \in SUBSET Nicks
      BY <1>1 DEF Tasks
    <3>3. [task[s] EXCEPT !.batch = task[s].batch \ {x}]
            = [task[s] EXCEPT !.batch = task[s].batch \ {x}, !.audience = task[s].audience]
      BY <1>1 DEF Tasks
    <3>4. task' = [task EXCEPT ![s] = [task[s] EXCEPT !.batch = task[s].batch \ {x}]]
      BY <1>1, <3>1 DEF Shape
    <3>5. task' = [task EXCEPT ![s] = [task[s] EXCEPT !.batch = task[s].batch \ {x},
                                                      !.audience = task[s].audience]]
      BY <3>3, <3>4
    <3> QED BY <3>1, <3>2, <3>5
  <2>2. CASE \E n \in task[s].audience : \E x \in conns[n] :
               /\ Transmit(x, [type |-> "event", seq |-> task[s].seq])
               /\ task' = [task EXCEPT ![s].batch = conns[n] \ {x}, ![s].audience = @ \ {n}]
    <3>0. PICK n \in task[s].audience : \E x \in conns[n] :
             /\ Transmit(x, [type |-> "event", seq |-> task[s].seq])
             /\ task' = [task EXCEPT ![s].batch = conns[n] \ {x}, ![s].audience = @ \ {n}]
      BY <2>2
    <3>1. PICK x \in conns[n] :
             /\ Transmit(x, [type |-> "event", seq |-> task[s].seq])
             /\ task' = [task EXCEPT ![s].batch = conns[n] \ {x}, ![s].audience = @ \ {n}]
      BY <3>0
    <3>2. n \in Nicks /\ task[s].audience \ {n} \in SUBSET Nicks
      BY <1>1 DEF Tasks
    <3>3. x \in Sockets /\ conns[n] \ {x} \in SUBSET Sockets
      BY <1>1, <3>2 DEF Shape
    <3>4. task' = [task EXCEPT ![s] = [task[s] EXCEPT !.batch = conns[n] \ {x},
                                                      !.audience = task[s].audience \ {n}]]
      BY <1>1, <3>1 DEF Shape, Tasks
    <3> QED BY <3>1, <3>2, <3>3, <3>4
  <2> QED BY <2>1, <2>2 DEF Spread
<1> DEFINE r == [task[s] EXCEPT !.batch = b, !.audience = a]
<1>5. r \in Tasks /\ task' = [task EXCEPT ![s] = r]
  BY <1>1, <1>4 DEF Tasks
<1>6. /\ r.pc = task[s].pc /\ r.nick = task[s].nick /\ r.gen = task[s].gen
      /\ r.doomed = task[s].doomed /\ r.todo = task[s].todo /\ r.queue = task[s].queue
      /\ r.seq = task[s].seq /\ r.end = task[s].end
  BY <1>1 DEF Tasks
<1> HIDE DEF r
<1>7. Sound(r, DOMAIN log)
  BY <1>1, <1>6 DEF Referring, Sound
<1>8. wire' \in [Sockets -> Seq(FrameType)]
  BY <1>1, <1>3, <1>4, Sending
<1>9. /\ Entered(s) /\ (r.pc = "closing" /\ r.displaced <=> Owing(s)) /\ r.todo = {}
      /\ boundary' \in 0..Len(log)
  BY <1>1, <1>2, <1>6 DEF Entered, Owing, Condemned, Shape
<1> QED BY <1>2, <1>5, <1>6, <1>7, <1>8, <1>9, Moves

LEMMA StepEndSpread ==
    ASSUME SessionsInv, NEW s \in Sockets, EndSpread(s) PROVE SessionsInv'
<1>1. Shape /\ Referring /\ Condemned /\ task[s] \in Tasks
  BY DEF SessionsInv, Shape
<1>2. UNCHANGED <<registry, conns, groups, log, boundary, open, wire>>
  BY DEF EndSpread
<1>3. PICK p \in Places, q \in Nat :
         /\ task' = [task EXCEPT ![s] = [task[s] EXCEPT !.pc = p, !.audience = {}, !.seq = q]]
         /\ \/ task[s].pc = "announcing" /\ p = "entering" /\ q = task[s].seq /\ running' = s
            \/ task[s].pc = "publishing" /\ p = "loop" /\ q = 0 /\ running' = None
            \/ /\ task[s].pc = "condemning" /\ p = "ejecting" /\ q = task[s].seq
               /\ running' \in {None, s}
  <2>1. task[s].seq \in Nat /\ 0 \in Nat
    BY <1>1 DEF Tasks
  <2>2. \A p \in Places : [task[s] EXCEPT !.pc = p, !.audience = {}]
                          = [task[s] EXCEPT !.pc = p, !.audience = {}, !.seq = task[s].seq]
    BY <1>1 DEF Tasks
  <2>3. {"entering", "loop", "ejecting"} \subseteq Places
    BY DEF Places
  <2>4. CASE /\ task[s].pc = "announcing" /\ RunOn(s)
             /\ task' = [task EXCEPT ![s].pc = "entering", ![s].audience = {}]
    <3>1. task' = [task EXCEPT ![s] = [task[s] EXCEPT !.pc = "entering", !.audience = {}]]
      BY <1>1, <2>4 DEF Shape, Tasks
    <3> QED BY <2>1, <2>2, <2>3, <2>4, <3>1 DEF RunOn
  <2>5. CASE /\ task[s].pc = "publishing" /\ Await
             /\ task' = [task EXCEPT ![s].pc = "loop", ![s].audience = {}, ![s].seq = 0]
    <3>1. task' = [task EXCEPT ![s] = [task[s] EXCEPT !.pc = "loop", !.audience = {}, !.seq = 0]]
      BY <1>1, <2>5 DEF Shape, Tasks
    <3> QED BY <2>1, <2>3, <2>5, <3>1 DEF Await
  <2>6. CASE /\ task[s].pc = "condemning" /\ AwaitSend(s)
             /\ task' = [task EXCEPT ![s].pc = "ejecting", ![s].audience = {}]
    <3>1. task' = [task EXCEPT ![s] = [task[s] EXCEPT !.pc = "ejecting", !.audience = {}]]
      BY <1>1, <2>6 DEF Shape, Tasks
    <3> QED BY <2>1, <2>2, <2>3, <2>6, <3>1 DEF AwaitSend
  <2> QED BY <2>4, <2>5, <2>6 DEF EndSpread
<1> DEFINE r == [task[s] EXCEPT !.pc = p, !.audience = {}, !.seq = q]
<1>4. r \in Tasks /\ task' = [task EXCEPT ![s] = r]
  BY <1>1, <1>3 DEF Tasks
<1>5. /\ r.pc = p /\ r.nick = task[s].nick /\ r.gen = task[s].gen
      /\ r.doomed = task[s].doomed /\ r.todo = task[s].todo /\ r.queue = task[s].queue
      /\ r.seq = q /\ r.end = task[s].end
  BY <1>1 DEF Tasks
<1> HIDE DEF r
<1>6. Sound(r, DOMAIN log)
  BY <1>1, <1>3, <1>5 DEF Referring, Sound, Carrying, Arriving
<1>7. /\ Entered(s) /\ (r.pc = "closing" /\ r.displaced <=> Owing(s)) /\ r.todo = {}
      /\ boundary' \in 0..Len(log) /\ wire' \in [Sockets -> Seq(FrameType)]
  BY <1>1, <1>2, <1>3, <1>5 DEF Entered, Owing, Condemned, Shape
<1>8. /\ running' = None \/ (running' = s /\ r.pc # "loop")
      /\ r.pc \notin {"new", "done"}
      /\ r.pc \in {"condemning", "ejecting"} <=> task[s].pc \in {"condemning", "ejecting"}
      /\ r.pc \in {"condemning", "ejecting"} => r.seq = task[s].seq
  BY <1>3, <1>5
<1> QED BY <1>2, <1>4, <1>5, <1>6, <1>7, <1>8, Moves

LEMMA StepEject ==
    ASSUME SessionsInv, NEW s \in Sockets, Eject(s) PROVE SessionsInv'
<1> DEFINE victims == conns[CHOOSE n \in log[task[s].seq].to : TRUE]
           r == [task[s] EXCEPT !.pc = "evicting", !.todo = victims, !.seq = 0]
<1>1. Shape /\ Referring /\ Condemned /\ task[s] \in Tasks /\ Extends
  BY DEF SessionsInv, Shape, Extends, Eject
<1>2. /\ task[s].pc = "ejecting" /\ running' = s
      /\ UNCHANGED <<registry, conns, groups, log, boundary, open, wire>>
  BY DEF Eject, RunOn
<1>3. PICK n \in Nicks : log[task[s].seq].to = {n}
  BY <1>1, <1>2 DEF Condemned
<1>4. victims = conns[n] /\ victims \in SUBSET Sockets
  BY <1>1, <1>3 DEF Shape
<1>4a. task' = [task EXCEPT ![s].pc = "evicting", ![s].todo = victims, ![s].seq = 0]
  BY DEF Eject
<1> HIDE DEF victims
<1>5. task' = [task EXCEPT ![s] = r]
  BY <1>1, <1>4a DEF Shape, Tasks
<1>6. r \in Tasks
  BY <1>1, <1>4 DEF Tasks, Places
<1>7. /\ r.pc = "evicting" /\ r.nick = task[s].nick /\ r.gen = task[s].gen
      /\ r.doomed = task[s].doomed /\ r.todo = victims /\ r.queue = task[s].queue
  BY <1>1 DEF Tasks
<1> HIDE DEF r
<1>8. Sound(r, DOMAIN log)
  BY <1>1, <1>7 DEF Referring, Sound, Arriving, Carrying
<1>9. Entered(s) /\ (r.pc = "closing" /\ r.displaced <=> Owing(s)) /\ task[s].todo = {}
  BY <1>1, <1>2, <1>7 DEF Entered, Owing, Condemned
<1>10. Condemned'
  <2>1. \A m \in Nicks : log[task[s].seq].to = {m} => conns[m] \subseteq r.todo
    BY <1>3, <1>4, <1>7
  <2>2. r.pc # "new" /\ r.pc \notin {"condemning", "ejecting"} /\ r.pc = "evicting"
    BY <1>7
  <2> QED BY <1>1, <1>2, <1>5, <1>6, <1>7, <1>9, <2>1, <2>2, CondemnedKept
<1>11. /\ conns' \in [Nicks -> SUBSET Sockets] /\ groups' \in [Nicks -> SUBSET Groups]
       /\ boundary' \in 0..Len(log) /\ wire' \in [Sockets -> Seq(FrameType)]
       /\ open' \in [Sockets -> BOOLEAN]
  BY <1>1, <1>2 DEF Shape
<1> QED BY <1>2, <1>5, <1>6, <1>7, <1>8, <1>9, <1>10, <1>11, QuietStep

LEMMA StepEndEviction ==
    ASSUME SessionsInv, NEW s \in Sockets, EndEviction(s) PROVE SessionsInv'
<1> DEFINE r == [task[s] EXCEPT !.pc = "loop"]
<1>1. Shape /\ Referring /\ Condemned /\ task[s] \in Tasks
  BY DEF SessionsInv, Shape
<1>2. /\ task[s].pc = "evicting" /\ running' = None /\ task[s].todo = {}
      /\ UNCHANGED <<registry, conns, groups, log, boundary, open, wire>>
  BY DEF EndEviction, Await
<1>3. r \in Tasks /\ task' = [task EXCEPT ![s] = r]
  BY <1>1 DEF Tasks, Places, EndEviction, Shape
<1>4. /\ r.pc = "loop" /\ r.nick = task[s].nick /\ r.gen = task[s].gen
      /\ r.doomed = task[s].doomed /\ r.todo = task[s].todo /\ r.queue = task[s].queue
  BY <1>1 DEF Tasks
<1> HIDE DEF r
<1>5. Sound(r, DOMAIN log)
  BY <1>1, <1>4 DEF Referring, Sound, Arriving, Carrying
<1>6. /\ Entered(s) /\ (r.pc = "closing" /\ r.displaced <=> Owing(s))
      /\ boundary' \in 0..Len(log) /\ wire' \in [Sockets -> Seq(FrameType)]
  BY <1>1, <1>2, <1>4 DEF Entered, Owing, Shape
<1> QED BY <1>2, <1>3, <1>4, <1>5, <1>6, Moves

LEMMA StepLeave ==
    ASSUME SessionsInv, NEW s \in Sockets, Leave(s) PROVE SessionsInv'
<1> DEFINE r == [NoTask EXCEPT !.pc = "done", !.doomed = task[s].doomed]
<1>1. Shape /\ Referring /\ Condemned /\ task[s] \in Tasks /\ Extends
  BY DEF SessionsInv, Shape, Extends, Leave
<1>2. /\ task[s].pc \in {"leaving", "loop", "replying", "catching", "warning"}
      /\ running' = None
      /\ task' = [task EXCEPT ![s] = r]
      /\ conns' = Put(conns, task[s].nick, conns[task[s].nick] \ {s})
      /\ open' = [open EXCEPT ![s] = FALSE]
      /\ UNCHANGED <<registry, groups, log, boundary, wire>>
  BY DEF Leave, Await, Set, OwnAwaits
<1>3. task[s].nick \in Nicks
  BY <1>2, SessionsInv DEF SessionsInv, Placed, Entered
<1>4. r \in Tasks
  BY <1>1 DEF Tasks, Places, NoTask
<1>5. r.pc = "done" /\ r.doomed = task[s].doomed /\ r.todo = {} /\ r.queue = {}
  BY DEF NoTask
<1> HIDE DEF r
<1>6. /\ conns' \in [Nicks -> SUBSET Sockets] /\ groups' \in [Nicks -> SUBSET Groups]
      /\ boundary' \in 0..Len(log) /\ wire' \in [Sockets -> Seq(FrameType)]
      /\ open' \in [Sockets -> BOOLEAN]
  BY <1>1, <1>2, <1>3 DEF Shape, Put
<1>7. /\ \A x \in Sockets : open'[x] => open[x]
      /\ ~open'[s]
  BY <1>1, <1>2 DEF Shape
<1>8. \A n \in Nicks : \A x \in conns[n] : x \in conns'[n] \/ x = s
  BY <1>1, <1>2, <1>3 DEF Put
<1>9. task[s].todo = {} /\ ~Owing(s) /\ task[s].pc \notin {"condemning", "ejecting"}
  BY <1>1, <1>2 DEF Condemned, Owing
<1>10. Condemned'
  <2>1. \A n \in Nicks : \A x \in conns[n] : x \in conns'[n] \/ ~open'[x] \/ x \in r.todo
    BY <1>7, <1>8
  <2>2. r.pc # "new" /\ r.pc \notin {"condemning", "ejecting"}
    BY <1>5
  <2>3. \A x \in r.doomed : x \in task[s].doomed
    BY <1>5
  <2>4. \A x \in task[s].todo : x \in r.todo
    BY <1>9
  <2> QED BY <1>1, <1>2, <1>4, <1>5, <1>7, <1>9, <2>1, <2>2, <2>3, <2>4, CondemnedKept
<1>11. Sound(r, DOMAIN log)
  BY <1>5 DEF Sound, Arriving, Carrying
<1>12. /\ (r.pc = "closing" /\ r.displaced <=> Owing(s))
       /\ r.pc \notin {"new", "done"} =>
            Entered(s) /\ r.nick = task[s].nick /\ r.gen = task[s].gen
  BY <1>5, <1>9
<1> QED BY <1>2, <1>4, <1>6, <1>10, <1>11, <1>12, QuietStep

LEMMA StepDisconnect ==
    ASSUME SessionsInv, NEW s \in Sockets, Disconnect(s) PROVE SessionsInv'
<1>1. Shape /\ Condemned
  BY DEF SessionsInv
<1>2. /\ UNCHANGED <<registry, conns, groups, log, boundary, task, running>>
      /\ open' = [open EXCEPT ![s] = FALSE]
      /\ wire' = [wire EXCEPT ![s] = <<>>]
  BY DEF Disconnect
<1>3. FrameType' = FrameType
  BY <1>2 DEF FrameType
<1>4. /\ open' \in [Sockets -> BOOLEAN] /\ wire' \in [Sockets -> Seq(FrameType)]
      /\ \A x \in Sockets : open'[x] => open[x]
  BY <1>1, <1>2 DEF Shape
<1>5. Shape'
  BY <1>1, <1>2, <1>3, <1>4 DEF Shape
<1>6. Condemned'
  <2>1. \A h \in Sockets : Target(h)' = Target(h)
    BY <1>2 DEF Target
  <2>2. ASSUME NEW h \in Sockets, NEW x \in task[h].doomed
        PROVE  \/ ~open'[x]
               \/ \E g \in Sockets : x \in task[g].todo
               \/ task[h].pc \in {"condemning", "ejecting"} /\ x \in conns[Target(h)]
    <3>1. x \in Sockets
      BY <1>1 DEF Shape, Tasks
    <3> QED BY <1>1, <1>4, <3>1 DEF Condemned
  <2> QED BY <1>1, <1>2, <2>1, <2>2 DEF Condemned
<1>7. Referring' /\ Placed' /\ Dated' /\ NothingAfterTakeover'
  BY <1>2 DEF SessionsInv, Referring, Placed, Dated, NothingAfterTakeover, Deeds, Entered
<1>8. Told'
  BY <1>2 DEF SessionsInv, Told, Announced, NoticeOnce, OwedOnce, OwedBy, Owing, Deeds, Takeovers
<1> QED BY <1>5, <1>6, <1>7, <1>8 DEF SessionsInv

-----------------------------------------------------------------------------
(* Steps that log an event of their client's. *)

LEMMA DeedStep ==
    ASSUME SessionsInv, NEW s \in Sockets, MayAct(s),
           NEW r \in Tasks, task' = [task EXCEPT ![s] = r],
           NEW type \in {"chat", "fyi", "status", "membership_set", "kick"},
           NEW to \in SUBSET (Nicks \cup Groups), NEW n \in Nicks,
           log' = Append(log, Event(type, s, to)),
           type \in {"membership_set", "kick"} => to = {n},
           registry' \in RegistryType,
           registry'.gen = registry.gen, registry'.instance = registry.instance,
           groups' \in [Nicks -> SUBSET Groups],
           MaySnapshot(s, Len(log) + 1),
           UNCHANGED <<conns, open, wire>>, running' \in {None, s},
           r.nick = task[s].nick, r.gen = task[s].gen, r.queue = task[s].queue,
           r.todo = task[s].todo, r.seq = Len(log) + 1,
           \/ /\ type = "kick" /\ r.pc = "condemning" /\ r.doomed = conns[n]
           \/ /\ r.pc \in {"routing", "warning"} /\ r.doomed = {}
    PROVE  SessionsInv'
<1> DEFINE e == Event(type, s, to)
<1>1. Shape /\ Referring /\ Condemned /\ Placed /\ Dated /\ Told /\ NothingAfterTakeover
  BY DEF SessionsInv
<1>2. task[s].pc = "loop" /\ registry.gen[task[s].nick] = task[s].gen
  BY DEF MayAct
<1>3. /\ Entered(s) /\ ~Owing(s) /\ task[s].nick \in Nicks
      /\ task[s].gen \in Nat /\ task[s].gen > 0
  <2>1. task[s].nick \in Nicks /\ task[s].gen \in 1..registry.gen[task[s].nick]
    BY <1>1, <1>2 DEF Placed, Entered
  <2> QED BY <1>1, <1>2, <2>1, GenTyped DEF Entered, Owing
<1>4. e \in EventType
  BY <1>3 DEF Event, EventType
<1>5. /\ log' = Append(log, e) /\ e.type = type /\ e.type # "takeover" /\ e.to = to
      /\ e.by = task[s].nick /\ e.gen = task[s].gen
  BY DEF Event
<1> HIDE DEF e
<1>6. Extends
  BY <1>4, <1>5 DEF Extends
<1>7. /\ Len(log) \in Nat /\ Len(log') = Len(log) + 1
      /\ Len(log) + 1 \in DOMAIN log' /\ DOMAIN log \subseteq DOMAIN log'
      /\ log'[Len(log) + 1] = e
      /\ \A k \in DOMAIN log' : k \in DOMAIN log \/ k = Len(log) + 1
  BY <1>1, <1>4, <1>5, Grown
<1>8. Placed' /\ Dated' /\ Told' /\ NothingAfterTakeover'
  BY <1>2, <1>3, <1>4, <1>5, DeedLogged
<1>9. Sound(r, DOMAIN log')
  BY <1>1, <1>7 DEF Referring, Sound, Arriving
<1>10. Referring' /\ task' \in [Sockets -> Tasks] /\ running' \in Sockets \cup {None}
  <2>1. \A k \in DOMAIN log' \ DOMAIN log :
             log'[k].type = "membership_set" => log'[k].to \subseteq Nicks
    BY <1>5, <1>7
  <2> QED BY <1>1, <1>6, <1>9, <2>1, ReferringKept
<1>11. Condemned'
  <2>1. r.pc \in {"condemning", "ejecting"} =>
            /\ r.seq \in DOMAIN log' /\ log'[r.seq].to = {n}
            /\ \A m \in Nicks : log'[r.seq].to = {m} => m = n
    BY <1>5, <1>7
  <2>2. \A x \in r.doomed :
            /\ r.pc \in {"condemning", "ejecting"}
            /\ \A m \in Nicks : log'[r.seq].to = {m} => x \in conns'[m]
    BY <2>1
  <2>3. task[s].todo = {} /\ task[s].pc \notin {"condemning", "ejecting"} /\ r.pc # "new"
    BY <1>1, <1>2 DEF Condemned
  <2>4. /\ r.pc \in {"condemning", "ejecting"} =>
             r.seq \in DOMAIN log' /\ \E m \in Nicks : log'[r.seq].to = {m}
        /\ \A x \in Sockets : open'[x] => open[x]
        /\ \A m \in Nicks : \A x \in conns[m] : x \in conns'[m]
        /\ r.todo = {}
    BY <2>1, <2>3
  <2>5. /\ r.todo # {} => r.pc \in {"closing", "evicting"}
        /\ \A m \in Nicks : \A x \in conns[m] : x \in conns'[m] \/ ~open'[x] \/ x \in r.todo
        /\ \A x \in task[s].todo : x \in r.todo \/ ~open'[x]
        /\ \A x \in r.doomed :
               \/ x \in task[s].doomed \/ ~open'[x] \/ x \in r.todo
               \/ r.pc \in {"condemning", "ejecting"}
                  /\ \A m \in Nicks : log'[r.seq].to = {m} => x \in conns'[m]
        /\ task[s].pc \in {"condemning", "ejecting"} =>
               \/ r.pc \in {"condemning", "ejecting"} /\ r.seq = task[s].seq
               \/ \A m \in Nicks : log[task[s].seq].to = {m} => conns[m] \subseteq r.todo
    BY <2>2, <2>3, <2>4
  <2> QED BY <1>1, <1>6, <2>3, <2>4, <2>5, CondemnedKept
<1>12. boundary' \in 0..Len(log')
  BY <1>1, <1>7 DEF MaySnapshot, Shape
<1>13. Shape'
  BY <1>1, <1>6, <1>10, <1>12, LogExtends DEF Shape
<1> QED BY <1>8, <1>10, <1>11, <1>13 DEF SessionsInv

LEMMA StepChat ==
    ASSUME SessionsInv, NEW s \in Sockets, NEW to \in MentionSets, NEW misspelt \in Misspells,
           Chat(s, to, misspelt)
    PROVE  SessionsInv'
<1> DEFINE p == IF misspelt THEN "warning" ELSE "routing"
           r == [task[s] EXCEPT !.pc = p, !.seq = Len(log) + 1, !.doomed = {}]
<1>1. Shape /\ task[s] \in Tasks /\ Len(log) + 1 \in Nat
  BY DEF SessionsInv, Shape
<1>2. /\ MayAct(s) /\ log' = Append(log, Event("chat", s, to))
      /\ MaySnapshot(s, Len(log) + 1) /\ running' \in {None, s}
      /\ UNCHANGED <<registry, conns, groups, open, wire>>
  BY DEF Chat, AwaitSend, RunOn
<1>3. task' = [task EXCEPT ![s] = r]
  BY <1>1 DEF Chat, Shape
<1>4. p \in {"warning", "routing"}
  OBVIOUS
<1> HIDE DEF p
<1>5. r \in Tasks
  BY <1>1, <1>4 DEF Tasks, Places
<1>6. /\ r.nick = task[s].nick /\ r.gen = task[s].gen /\ r.queue = task[s].queue
      /\ r.todo = task[s].todo /\ r.seq = Len(log) + 1
      /\ r.pc \in {"routing", "warning"} /\ r.doomed = {}
  BY <1>1, <1>4 DEF Tasks
<1>7. to \in SUBSET (Nicks \cup Groups)
  BY SessionsAssumption
<1>8. task[s].nick \in Nicks
  BY <1>2 DEF MayAct, SessionsInv, Placed, Entered
<1>9. /\ registry' \in RegistryType /\ registry' = registry
      /\ groups' \in [Nicks -> SUBSET Groups]
  BY <1>1, <1>2 DEF Shape
<1> QED BY <1>2, <1>3, <1>5, <1>6, <1>7, <1>8, <1>9, DeedStep

LEMMA StepNotice ==
    ASSUME SessionsInv, NEW s \in Sockets, NEW type \in {"fyi", "status"}, Notice(s, type)
    PROVE  SessionsInv'
<1> DEFINE r == [task[s] EXCEPT !.pc = "routing", !.seq = Len(log) + 1, !.doomed = {}]
<1>1. Shape /\ task[s] \in Tasks /\ Len(log) + 1 \in Nat
  BY DEF SessionsInv, Shape
<1>2. /\ MayAct(s) /\ log' = Append(log, Event(type, s, {}))
      /\ MaySnapshot(s, Len(log) + 1) /\ running' \in {None, s}
      /\ UNCHANGED <<registry, conns, groups, open, wire>>
  BY DEF Notice, RunOn
<1>3. r \in Tasks /\ task' = [task EXCEPT ![s] = r]
  BY <1>1 DEF Tasks, Places, Notice, Shape
<1>4. /\ r.nick = task[s].nick /\ r.gen = task[s].gen /\ r.queue = task[s].queue
      /\ r.todo = task[s].todo /\ r.seq = Len(log) + 1
      /\ r.pc = "routing" /\ r.doomed = {}
  BY <1>1 DEF Tasks
<1> HIDE DEF r
<1>5. task[s].nick \in Nicks
  BY <1>2 DEF MayAct, SessionsInv, Placed, Entered
<1>6. /\ registry' \in RegistryType /\ registry' = registry
      /\ groups' \in [Nicks -> SUBSET Groups]
  BY <1>1, <1>2 DEF Shape
<1> QED BY <1>2, <1>3, <1>4, <1>5, <1>6, DeedStep

LEMMA StepMembershipSet ==
    ASSUME SessionsInv, NEW s \in Sockets, NEW n \in Nicks, NEW gs \in SUBSET Groups,
           MembershipSet(s, n, gs)
    PROVE  SessionsInv'
<1> DEFINE r == [task[s] EXCEPT !.pc = "warning", !.seq = Len(log) + 1, !.doomed = {}]
<1>1. Shape /\ task[s] \in Tasks /\ Len(log) + 1 \in Nat
  BY DEF SessionsInv, Shape
<1>2. /\ MayAct(s) /\ log' = Append(log, Event("membership_set", s, {n}))
      /\ MaySnapshot(s, Len(log) + 1) /\ running' \in {None, s}
      /\ registry' = SetGroups(registry, n, gs) /\ groups' = Put(groups, n, gs)
      /\ UNCHANGED <<conns, open, wire>>
  BY DEF MembershipSet, AwaitSend
<1>3. r \in Tasks /\ task' = [task EXCEPT ![s] = r]
  BY <1>1 DEF Tasks, Places, MembershipSet, Shape
<1>4. /\ r.nick = task[s].nick /\ r.gen = task[s].gen /\ r.queue = task[s].queue
      /\ r.todo = task[s].todo /\ r.seq = Len(log) + 1
      /\ r.pc = "warning" /\ r.doomed = {}
  BY <1>1 DEF Tasks
<1> HIDE DEF r
<1>5. {n} \in SUBSET (Nicks \cup Groups)
  OBVIOUS
<1>6. groups' \in [Nicks -> SUBSET Groups]
  BY <1>1, <1>2 DEF Shape, Put
<1>7. /\ registry' \in RegistryType
      /\ registry'.gen = registry.gen /\ registry'.instance = registry.instance
  <2>1. registry \in RegistryType
    BY <1>1 DEF Shape
  <2>2. Put(registry.groups, n, gs) \in [Nicks -> SUBSET Groups]
    BY <2>1 DEF Put, RegistryType
  <2> QED BY <1>2, <2>1, <2>2 DEF SetGroups, RegistryType
<1> QED BY <1>2, <1>3, <1>4, <1>5, <1>6, <1>7, DeedStep

LEMMA StepKick ==
    ASSUME SessionsInv, NEW s \in Sockets, NEW n \in Nicks, Kick(s, n) PROVE SessionsInv'
<1> DEFINE r == [task[s] EXCEPT !.pc = "condemning", !.seq = Len(log) + 1,
                                !.audience = Nicks \ {n}, !.doomed = conns[n]]
<1>1. /\ Shape /\ task[s] \in Tasks /\ Len(log) + 1 \in Nat
      /\ conns[n] \in SUBSET Sockets /\ Nicks \ {n} \in SUBSET Nicks
  BY DEF SessionsInv, Shape
<1>2. /\ MayAct(s) /\ log' = Append(log, Event("kick", s, {n}))
      /\ MaySnapshot(s, Len(log) + 1) /\ running' \in {None, s}
      /\ registry' = Release(registry, n)
      /\ UNCHANGED <<conns, groups, open, wire>>
  BY DEF Kick, AwaitSend
<1>3. r \in Tasks /\ task' = [task EXCEPT ![s] = r]
  BY <1>1 DEF Tasks, Places, Kick, Shape
<1>4. /\ r.nick = task[s].nick /\ r.gen = task[s].gen /\ r.queue = task[s].queue
      /\ r.todo = task[s].todo /\ r.seq = Len(log) + 1
      /\ r.pc = "condemning" /\ r.doomed = conns[n]
  BY <1>1 DEF Tasks
<1> HIDE DEF r
<1>5. {n} \in SUBSET (Nicks \cup Groups)
  OBVIOUS
<1>6. groups' \in [Nicks -> SUBSET Groups]
  BY <1>1, <1>2 DEF Shape
<1>7. /\ registry' \in RegistryType
      /\ registry'.gen = registry.gen /\ registry'.instance = registry.instance
  <2>1. registry \in RegistryType
    BY <1>1 DEF Shape
  <2>2. Put(registry.addr, n, None) \in [Nicks -> Addrs \cup {None}]
    BY <2>1 DEF Put, RegistryType
  <2> QED BY <1>2, <2>1, <2>2 DEF Release, RegistryType
<1> QED BY <1>2, <1>3, <1>4, <1>5, <1>6, <1>7, DeedStep

\* What a hello does to the registry, with a token or without.
LEMMA HelloRegistry ==
    ASSUME Shape, NEW n \in Nicks, NEW i \in Instances,
           NEW trial, trial = (IF n \in Tokens THEN Hello(registry, n, i)
                               ELSE OpenHello(registry, n, i, None))
    PROVE  /\ trial \in RegistryType
           /\ trial.gen = Put(registry.gen, n, IF registry.instance[n] = i THEN registry.gen[n]
                                               ELSE registry.gen[n] + 1)
           /\ trial.instance[n] = i
           /\ \A m \in Nicks \ {n} : trial.instance[m] = registry.instance[m]
<1>1. registry \in RegistryType
  BY DEF Shape
<1>2. ASSUME NEW q \in RegistryType, q.gen = registry.gen, q.instance = registry.instance
      PROVE  /\ Bump(q, n, i) \in RegistryType
             /\ Bump(q, n, i).gen = Put(registry.gen, n,
                    IF registry.instance[n] = i THEN registry.gen[n] ELSE registry.gen[n] + 1)
             /\ Bump(q, n, i).instance[n] = i
             /\ \A m \in Nicks \ {n} : Bump(q, n, i).instance[m] = registry.instance[m]
  <2>1. CASE q.instance[n] = i
    <3>1. Bump(q, n, i) = q
      BY <2>1 DEF Bump
    <3>2. registry.gen = Put(registry.gen, n, registry.gen[n])
      BY <1>1 DEF RegistryType, Put
    <3> QED BY <1>2, <2>1, <3>1, <3>2
  <2>2. CASE q.instance[n] # i
    <3> DEFINE gen == Put(q.gen, n, q.gen[n] + 1)
               instance == Put(q.instance, n, i)
    <3>1. gen \in [Nicks -> Nat] /\ instance \in [Nicks -> Instances \cup {None}]
      BY DEF RegistryType, Put
    <3>2. instance[n] = i /\ \A m \in Nicks \ {n} : instance[m] = q.instance[m]
      BY DEF Put
    <3>3. Bump(q, n, i) = [q EXCEPT !.gen = gen, !.instance = instance]
      BY <2>2 DEF Bump
    <3>4. gen = Put(registry.gen, n, registry.gen[n] + 1)
      BY <1>2
    <3> HIDE DEF gen, instance
    <3>5. /\ Bump(q, n, i) \in RegistryType
          /\ Bump(q, n, i).gen = gen /\ Bump(q, n, i).instance = instance
      BY <3>1, <3>3 DEF RegistryType
    <3> QED BY <1>2, <2>2, <3>2, <3>4, <3>5
  <2> QED BY <2>1, <2>2
<1>3. CASE n \in Tokens
  BY <1>1, <1>2, <1>3 DEF Hello
<1>4. CASE n \notin Tokens
  <2>1. /\ Enrol(registry, n) \in RegistryType
        /\ Enrol(registry, n).gen = registry.gen
        /\ Enrol(registry, n).instance = registry.instance
    <3>1. Put(registry.role, n, "agent") \in [Nicks -> Roles]
      BY <1>1 DEF RegistryType, Put, Roles
    <3> QED BY <1>1, <3>1 DEF Enrol, RegistryType
  <2>2. trial = Bump(Enrol(registry, n), n, i)
    BY <1>4 DEF OpenHello, Pin
  <2> QED BY <1>2, <2>1, <2>2
<1> QED BY <1>3, <1>4

LEMMA StepHelloFrame ==
    ASSUME SessionsInv, NEW s \in Sockets, NEW n \in Nicks, NEW i \in Instances, NEW c \in Nat,
           HelloFrame(s, n, i, c)
    PROVE  SessionsInv'
<1> DEFINE trial == IF n \in Tokens THEN Hello(registry, n, i) ELSE OpenHello(registry, n, i, None)
           g == trial.gen[n]
           bumped == g # registry.gen[n]
           stale == IF bumped THEN conns[n] ELSE {}
           e == [type |-> "hello", by |-> n, gen |-> g, to |-> {}]
           p == IF bumped THEN "closing" ELSE "entering"
           displaced == bumped /\ registry.gen[n] > 0
           resync == c < boundary
           gs == trial.groups[n]
           end == Len(log) + 1
           r == [NoTask EXCEPT !.pc = p, !.nick = n, !.gen = g, !.groups = gs,
                               !.displaced = displaced, !.resync = resync, !.since = c,
                               !.end = end, !.todo = stale]
<1>1. Shape /\ Referring /\ Condemned /\ Placed /\ Dated
  BY DEF SessionsInv
<1>2. /\ task[s].pc = "new" /\ registry' = trial /\ log' = Append(log, e)
      /\ conns' = Put(conns, n, conns[n] \ stale)
      /\ task' = [task EXCEPT ![s] = r]
      /\ UNCHANGED <<groups, boundary, open, wire>>
  BY DEF HelloFrame, NextToEnter, Set
<1>3. running' = None \/ running' = s
  BY DEF HelloFrame, RunOn, AwaitSend
<1>4. /\ trial \in RegistryType
      /\ trial.gen = Put(registry.gen, n, IF registry.instance[n] = i THEN registry.gen[n]
                                          ELSE registry.gen[n] + 1)
      /\ trial.instance[n] = i
      /\ \A m \in Nicks \ {n} : trial.instance[m] = registry.instance[m]
  BY <1>1, HelloRegistry
<1>5. g \in Nat /\ gs \in SUBSET Groups
  BY <1>4 DEF RegistryType
<1> HIDE DEF trial
<1>6. g = (IF registry.instance[n] = i THEN registry.gen[n] ELSE registry.gen[n] + 1)
      /\ trial.gen = Put(registry.gen, n, g)
  BY <1>4 DEF Put
<1> HIDE DEF g, gs
<1>7. stale \in SUBSET Sockets /\ end \in Nat /\ p \in {"closing", "entering"}
      /\ displaced \in BOOLEAN /\ resync \in BOOLEAN
  BY <1>1 DEF Shape
<1>8. p = "closing" <=> bumped
  OBVIOUS
<1>9. stale # {} => bumped
  OBVIOUS
<1>10. e \in EventType
  BY <1>5 DEF EventType
<1>11. \A x \in conns[n] : x \in conns[n] \ stale \/ x \in stale
  OBVIOUS
<1>12. displaced <=> g # registry.gen[n] /\ registry.gen[n] > 0
  OBVIOUS
<1>13. p = (IF g # registry.gen[n] THEN "closing" ELSE "entering")
  OBVIOUS
<1>14. bumped <=> g # registry.gen[n]
  OBVIOUS
<1> HIDE DEF stale, p, displaced, resync, bumped
<1>15. r \in Tasks
  BY <1>5, <1>7 DEF Tasks, Places, NoTask
<1>16. /\ r.pc = p /\ r.nick = n /\ r.gen = g /\ r.displaced = displaced
       /\ r.todo = stale /\ r.end = end /\ r.queue = {} /\ r.doomed = {}
  BY DEF NoTask
<1> HIDE DEF r
<1>17. /\ Len(log) \in Nat /\ Len(log') = Len(log) + 1
       /\ DOMAIN log' = 1..(Len(log) + 1)
       /\ end \in DOMAIN log' /\ log'[end] = e
       /\ \A k \in DOMAIN log' : k \in DOMAIN log \/ k = end
  BY <1>1, <1>2, <1>10, Grown
<1> HIDE DEF end
<1>18. Placed' /\ Dated' /\ Told' /\ NothingAfterTakeover'
  <2>1. log' = Append(log, [type |-> "hello", by |-> n, gen |-> g, to |-> {}])
    BY <1>2
  <2>2. /\ registry'.gen = Put(registry.gen, n, g) /\ registry'.instance[n] = i
        /\ \A m \in Nicks \ {n} : registry'.instance[m] = registry.instance[m]
    BY <1>2, <1>4, <1>6
  <2>3. r.displaced <=> g # registry.gen[n] /\ registry.gen[n] > 0
    BY <1>12, <1>16
  <2>4. r.pc = (IF g # registry.gen[n] THEN "closing" ELSE "entering")
    BY <1>13, <1>16
  <2>5. task' = [task EXCEPT ![s] = r] /\ task[s].pc = "new" /\ r.nick = n /\ r.gen = g
    BY <1>2, <1>16
  <2>6. g = IF registry.instance[n] = i THEN registry.gen[n] ELSE registry.gen[n] + 1
    BY <1>6
  <2>7. g \in Nat /\ r \in Tasks
    BY <1>5, <1>15
  <2>8. HelloAdds(s, r, n, i, g)
    BY <2>1, <2>2, <2>3, <2>4, <2>5, <2>6 DEF HelloAdds
  <2> QED BY <2>7, <2>8, HelloLogged
<1>19. e.type = "hello"
  OBVIOUS
<1> HIDE DEF e
<1>20. Extends
  BY <1>2, <1>10 DEF Extends
<1>21. Sound(r, DOMAIN log')
  BY <1>7, <1>16, <1>17 DEF Sound, Arriving, Carrying
<1>22. Referring' /\ task' \in [Sockets -> Tasks] /\ running' \in Sockets \cup {None}
  <2>1. \A k \in DOMAIN log' \ DOMAIN log :
             log'[k].type = "membership_set" => log'[k].to \subseteq Nicks
    BY <1>17, <1>19
  <2>2. running' = None \/ (running' = s /\ r.pc \notin {"new", "loop", "done"})
    BY <1>3, <1>7, <1>16
  <2> QED BY <1>1, <1>2, <1>15, <1>20, <1>21, <2>1, <2>2, ReferringKept
<1>23. Condemned'
  <2>1. task[s].todo = {} /\ task[s].pc \notin {"condemning", "ejecting"}
    BY <1>1, <1>2 DEF Condemned
  <2>2. r.pc # "new" /\ r.pc \notin {"condemning", "ejecting"} /\ r.doomed = {}
    BY <1>7, <1>16
  <2>3. r.todo # {} => r.pc \in {"closing", "evicting"}
    BY <1>8, <1>9, <1>16
  <2>4. \A m \in Nicks : \A x \in conns[m] : x \in conns'[m] \/ ~open'[x] \/ x \in r.todo
    BY <1>2, <1>11, <1>16 DEF Put
  <2>5. \A x \in Sockets : open'[x] => open[x]
    BY <1>2
  <2> QED BY <1>1, <1>2, <1>15, <1>20, <2>1, <2>2, <2>3, <2>4, <2>5, CondemnedKept
<1>24. conns' \in [Nicks -> SUBSET Sockets] /\ groups' \in [Nicks -> SUBSET Groups]
       /\ open' \in [Sockets -> BOOLEAN] /\ registry' \in RegistryType
       /\ boundary' \in 0..Len(log')
  BY <1>1, <1>2, <1>4, <1>17 DEF Shape, Put
<1>25. Shape'
  BY <1>1, <1>2, <1>20, <1>22, <1>24, LogExtends DEF Shape
<1> QED BY <1>18, <1>22, <1>23, <1>25 DEF SessionsInv

-----------------------------------------------------------------------------
(* The invariant. *)

LEMMA InitHolds == ASSUME Init PROVE SessionsInv
<1>1. \A s \in Sockets : task[s] = NoTask
  BY DEF Init
<1>2. NoTask \in Tasks
  BY DEF NoTask, Tasks, Places
<1>3. registry \in RegistryType
  BY RegistryAssumption DEF Init, FromTokens, RegistryType, Roles
<1>4. groups \in [Nicks -> SUBSET Groups] /\ conns \in [Nicks -> SUBSET Sockets]
  BY RegistryAssumption DEF Init
<1>5. log = <<>> /\ Len(log) = 0 /\ DOMAIN log = {} /\ log \in Seq(EventType) /\ boundary = 0
  BY DEF Init
<1>6. /\ task \in [Sockets -> Tasks] /\ open \in [Sockets -> BOOLEAN]
      /\ wire \in [Sockets -> Seq(FrameType)] /\ running = None
  BY <1>2 DEF Init
<1>7. Shape
  BY <1>3, <1>4, <1>5, <1>6 DEF Shape
<1>8. /\ NoTask.pc = "new" /\ NoTask.queue = {} /\ NoTask.todo = {} /\ NoTask.doomed = {}
  BY DEF NoTask
<1>9. Referring
  BY <1>1, <1>5, <1>6, <1>8 DEF Referring, Sound, Carrying, Arriving
<1>10. \A s \in Sockets : ~Entered(s) /\ ~Owing(s)
  BY <1>1, <1>8 DEF Entered, Owing
<1>11. \A n \in Nicks : registry.gen[n] = 0 /\ registry.instance[n] = None
  BY DEF Init, FromTokens
<1>12. \A n : Deeds(n) = {} /\ Takeovers(n) = {}
  BY <1>5 DEF Deeds, Takeovers
<1>13. Placed /\ Dated /\ Told /\ NothingAfterTakeover
  BY <1>5, <1>10, <1>11, <1>12
     DEF Placed, Dated, Told, Announced, NoticeOnce, OwedOnce, NothingAfterTakeover
<1>14. Condemned
  BY <1>1, <1>8 DEF Condemned
<1> QED BY <1>7, <1>9, <1>13, <1>14 DEF SessionsInv

LEMMA StepKeeps == ASSUME SessionsInv, [Next]_vars PROVE SessionsInv'
<1>1. Len(log) \in Nat
  BY DEF SessionsInv, Shape
<1>2. CASE UNCHANGED vars
  <2>1. /\ UNCHANGED <<registry, conns, groups, log, boundary, task, open, wire, running>>
        /\ FrameType' = FrameType
    BY <1>2 DEF vars, FrameType
  <2>2. Shape' /\ Referring'
    BY <2>1 DEF SessionsInv, Shape, Referring
  <2>3. Placed' /\ Dated' /\ NothingAfterTakeover' /\ Told'
    BY <2>1 DEF SessionsInv, Placed, Dated, NothingAfterTakeover, Entered, Told, Announced,
                NoticeOnce, OwedOnce, OwedBy, Owing, Deeds, Takeovers
  <2>4. \A h \in Sockets : Target(h)' = Target(h)
    BY <2>1 DEF Target
  <2>5. Condemned'
    BY <2>1, <2>4 DEF SessionsInv, Condemned
  <2> QED BY <2>2, <2>3, <2>5 DEF SessionsInv
<1>3. ASSUME NEW s \in Sockets, NEW n \in Nicks, NEW i \in Instances, NEW c \in {0, Len(log)},
             HelloFrame(s, n, i, c)
      PROVE  SessionsInv'
  BY <1>1, <1>3, StepHelloFrame
<1>4. ASSUME NEW s \in Sockets, TurnedAway(s) PROVE SessionsInv'
  BY <1>4, StepTurnedAway
<1>5. ASSUME NEW s \in Sockets, Frame(s) PROVE SessionsInv'
  BY <1>5, StepStaleFrame, StepChat, StepNotice, StepMembershipSet, StepKick DEF Frame
<1>6. ASSUME NEW s \in Sockets, Handler(s) PROVE SessionsInv'
  BY <1>6, StepCloseOne, StepAnnounce, StepEnter, StepStartCatchUp, StepCatchUp, StepEndCatchUp,
     StepRoute, StepSpread, StepEndSpread, StepEject, StepEndEviction, StepLeave DEF Handler
<1>7. ASSUME NEW s \in Sockets, Disconnect(s) PROVE SessionsInv'
  BY <1>7, StepDisconnect
<1> QED BY <1>2, <1>3, <1>4, <1>5, <1>6, <1>7 DEF Next

\* Nothing in the log is ahead of the registry, every displacement is announced
\* or owed by one handler, and whom a kick condemned is somebody's to close.
THEOREM Invariant == Spec => []SessionsInv
<1>1. Init => SessionsInv
  BY InitHolds
<1>2. SessionsInv /\ [Next]_vars => SessionsInv'
  BY StepKeeps
<1> QED BY <1>1, <1>2, PTL DEF Spec

-----------------------------------------------------------------------------
(* What follows from it. *)

\* The state has the types the model gives it, what is sent and what handlers
\* refer to is in the log, and a handler holds the loop only between two awaits.
THEOREM Typed == Spec => []TypeOK
<1>1. SessionsInv => TypeOK
  <2> SUFFICES ASSUME SessionsInv PROVE TypeOK
    OBVIOUS
  <2>1. Shape /\ Referring
    BY DEF SessionsInv
  <2>2. \A k \in DOMAIN log : log[k] \in EventType
    BY <2>1, GenTyped
  <2>3. \A s \in Sockets : \A j \in DOMAIN wire[s] : wire[s][j] \in FrameType
    <3> SUFFICES ASSUME NEW s \in Sockets, NEW j \in DOMAIN wire[s] PROVE wire[s][j] \in FrameType
      OBVIOUS
    <3>1. wire[s] \in Seq(FrameType)
      BY <2>1 DEF Shape
    <3> QED BY <3>1
  <2>4. \A s \in Sockets : task[s].pc \in Places /\ task[s].gen \in Nat
    BY <2>1 DEF Shape, Tasks
  <2> QED BY <2>1, <2>2, <2>3, <2>4 DEF TypeOK, Shape, Referring
<1> QED BY <1>1, Invariant, PTL

\* After the hello of a newer instance the log has nothing from an older one
\* (server.py, rule a), whatever the older one had in flight.
THEOREM TakeoverIsFinal == Spec => []NothingAfterTakeover
<1>1. SessionsInv => NothingAfterTakeover
  BY DEF SessionsInv
<1> QED BY <1>1, Invariant, PTL

\* When the handler of a kick is done with it, whoever was connected under the
\* name at the kick is disconnected or being closed (_on_kick).
THEOREM KicksLand == Spec => []KickLands
<1>1. SessionsInv => KickLands
  BY DEF SessionsInv, Condemned, KickLands
<1> QED BY <1>1, Invariant, PTL

\* The notices of one nick carry different generations.
LEMMA NoticesCounted ==
    ASSUME SessionsInv, NEW n \in Nicks
    PROVE  Cardinality({log[k].gen : k \in Takeovers(n)}) = Cardinality(Takeovers(n))
<1> DEFINE S == Takeovers(n)
           T == {log[k].gen : k \in Takeovers(n)}
           f == [k \in S |-> log[k].gen]
<1>1. IsFiniteSet(S)
  <2>1. log \in Seq(EventType) /\ Len(log) \in Nat /\ DOMAIN log = 1..Len(log)
    BY DEF SessionsInv, Shape
  <2>2. IsFiniteSet(1..Len(log))
    BY <2>1, FS_Interval
  <2>3. S \in SUBSET (1..Len(log))
    BY <2>1 DEF Takeovers
  <2> QED BY <2>2, <2>3, FS_Subset
<1>2. \A j, k \in S : log[j].gen = log[k].gen => j = k
  BY DEF SessionsInv, Told, NoticeOnce
<1> HIDE DEF S
<1>3. f \in Bijection(S, T)
  BY <1>2 DEF Bijection, Injection, Surjection, IsInjective, S
<1>4. ExistsBijection(S, T)
  BY <1>3 DEF ExistsBijection
<1> QED BY <1>1, <1>4, FS_Bijection DEF S

\* Every displacement leaves exactly one notice, after the hello it is about,
\* however takeovers of a nick overlap (_announce_takeover).
THEOREM TakeoversAreTold == Spec => []TakeoverTrail
<1>1. SessionsInv => TakeoverTrail
  <2> SUFFICES ASSUME SessionsInv, NEW n \in Nicks
               PROVE  LET displacing == {log[k].gen : k \in Deeds(n)} \ {1}
                          announced == {log[k].gen : k \in Takeovers(n)}
                      IN  /\ announced \cup Announcing(n) = displacing
                          /\ announced \cap Announcing(n) = {}
                          /\ Cardinality(announced) = Cardinality(Takeovers(n))
                          /\ \A k \in Takeovers(n) : \E j \in Deeds(n) :
                                 j < k /\ log[j].gen = log[k].gen
    BY DEF TakeoverTrail
  <2> DEFINE displacing == {log[k].gen : k \in Deeds(n)} \ {1}
             announced == {log[k].gen : k \in Takeovers(n)}
  <2>1. Announced /\ NoticeOnce /\ OwedOnce
    BY DEF SessionsInv, Told
  <2>2. \A g : g \in Announcing(n) <=> \E s \in Sockets : OwedBy(s, n, g)
    BY DEF Announcing, OwedBy, Owing
  <2>3. displacing \subseteq announced \cup Announcing(n)
    BY <2>1, <2>2 DEF Announced
  <2>4. announced \subseteq displacing
    BY <2>1 DEF NoticeOnce
  <2>5. Announcing(n) \subseteq displacing
    BY <2>1, <2>2 DEF OwedOnce, OwedBy
  <2>6. announced \cap Announcing(n) = {}
    BY <2>1, <2>2 DEF NoticeOnce
  <2>7. \A k \in Takeovers(n) : \E j \in Deeds(n) : j < k /\ log[j].gen = log[k].gen
    BY <2>1 DEF NoticeOnce
  <2> QED BY <2>3, <2>4, <2>5, <2>6, <2>7, NoticesCounted
<1> QED BY <1>1, Invariant, PTL

-----------------------------------------------------------------------------
(* The listeners.  What a client has had is below its cursor, its connection *)
(* is its own, and nothing reaches a connection before the reply to its hello, *)
(* which starts where its cursor stands.                                     *)

\* A handler whose socket is not in the routing yet.
Before == {"new", "closing", "announcing", "entering"}

Listening ==
    /\ sock \in [Instances -> Sockets \cup {None}]
    /\ cursor \in [Instances -> 0..Len(log)]
    /\ emitted \in [Instances -> Seq(DOMAIN log)]

\* A process has a socket of its own, on which it said hello with its nick.
Dialled ==
    /\ \A i \in Instances : \A j \in Instances : sock[i] # None /\ sock[i] = sock[j] => i = j
    /\ \A i \in Instances : sock[i] # None =>
         /\ task[sock[i]].pc # "new"
         /\ task[sock[i]].pc # "done" => task[sock[i]].nick = NickOf[i]

\* Nothing is sent to a socket before its handler enters, and until then its
\* client's cursor is the one it named.
Unserved(x) ==
    /\ wire[x] = <<>>
    /\ \A n \in Nicks : x \notin conns[n]
    /\ \A h \in Sockets : x \notin task[h].batch
Unrouted == \A x \in Sockets : task[x].pc \in Before => Unserved(x)
Asked ==
    \A i \in Instances :
        sock[i] # None /\ task[sock[i]].pc \in Before => task[sock[i]].since = cursor[i]

\* The reply to a hello is the first message; it names nothing above the cursor it
\* sets, and a resync nothing that its client has had.
ReplyOk(c, m) ==
    /\ m.seqs \subseteq 1..m.cursor
    /\ m.type = "resync_required" => \A k \in m.seqs : k > c
ReplyFirst ==
    \A i \in Instances : sock[i] # None =>
        \A j \in DOMAIN wire[sock[i]] :
            wire[sock[i]][j].type # "event" => j = 1 /\ ReplyOk(cursor[i], wire[sock[i]][j])

Below == \A i \in Instances : \A r \in DOMAIN emitted[i] : emitted[i][r] <= cursor[i]

ListenersInv == Listening /\ Dialled /\ Unrouted /\ Asked /\ ReplyFirst /\ Below /\ EmittedOnce

-----------------------------------------------------------------------------
(* The elements of a finite set of naturals in increasing order. *)

Rank(S, k) == Cardinality({j \in S : j <= k})
Listing(S) == [r \in 1..Cardinality(S) |-> CHOOSE k \in S : Rank(S, k) = r]

LEMMA RankMonotone ==
    ASSUME NEW S, S \subseteq Nat, IsFiniteSet(S), NEW k \in S
    PROVE  /\ Rank(S, k) \in 1..Cardinality(S)
           /\ \A l \in S : k < l => Rank(S, k) < Rank(S, l)
<1> DEFINE T(l) == {j \in S : j <= l}
<1>1. Cardinality(S) \in Nat
  BY FS_CardinalityType
<1>2. \A l \in S : /\ IsFiniteSet(T(l)) /\ Cardinality(T(l)) \in Nat
                   /\ Cardinality(T(l)) <= Cardinality(S)
  <2> TAKE l \in S
  <2>1. T(l) \subseteq S
    OBVIOUS
  <2> QED BY <2>1, FS_Subset, FS_CardinalityType
<1>3. k \in T(k)
  OBVIOUS
<1>4. Cardinality(T(k)) # 0
  BY <1>2, <1>3, FS_EmptySet
<1>5. ASSUME NEW l \in S, k < l PROVE Cardinality(T(k)) < Cardinality(T(l))
  <2>0. k \in Nat /\ l \in Nat /\ \A j \in S : j \in Nat
    OBVIOUS
  <2>1. T(k) \subseteq T(l) /\ l \in T(l) /\ l \notin T(k)
    <3>1. \A j \in S : j <= k => j <= l
      BY <1>5, <2>0
    <3>2. l <= l /\ ~(l <= k)
      BY <1>5, <2>0
    <3> QED BY <3>1, <3>2
  <2>2. /\ Cardinality(T(k)) <= Cardinality(T(l))
        /\ Cardinality(T(k)) # Cardinality(T(l))
    BY <1>2, <2>1, FS_Subset
  <2> QED BY <1>2, <2>2
<1> QED BY <1>1, <1>2, <1>4, <1>5 DEF Rank

LEMMA RankOnto ==
    ASSUME NEW S, S \subseteq Nat, IsFiniteSet(S), NEW r \in 1..Cardinality(S)
    PROVE  \E k \in S : Rank(S, k) = r
<1> DEFINE f == [k \in S |-> Rank(S, k)]
           R == {Rank(S, k) : k \in S}
<1>1. Cardinality(S) \in Nat
  BY FS_CardinalityType
<1>2. \A k \in S : Rank(S, k) \in 1..Cardinality(S)
  BY RankMonotone
<1>3. \A k, l \in S : Rank(S, k) = Rank(S, l) => k = l
  <2> SUFFICES ASSUME NEW k \in S, NEW l \in S, Rank(S, k) = Rank(S, l), k # l PROVE FALSE
    OBVIOUS
  <2>1. k \in Nat /\ l \in Nat
    OBVIOUS
  <2>2. k < l \/ l < k
    BY <2>1
  <2>3. Rank(S, k) < Rank(S, l) \/ Rank(S, l) < Rank(S, k)
    BY <2>2, RankMonotone
  <2> QED BY <1>1, <1>2, <2>3
<1>4. f \in Bijection(S, R)
  BY <1>3 DEF Bijection, Injection, Surjection, IsInjective
<1>5. IsFiniteSet(R) /\ Cardinality(R) = Cardinality(S)
  BY <1>4, FS_Bijection DEF ExistsBijection
<1>6. IsFiniteSet(1..Cardinality(S)) /\ Cardinality(1..Cardinality(S)) = Cardinality(S)
  BY <1>1, FS_Interval
<1>7. R \subseteq 1..Cardinality(S)
  BY <1>2
<1>8. R = 1..Cardinality(S)
  BY <1>5, <1>6, <1>7, FS_Subset
<1> QED BY <1>8

\* InOrder is the sequence, then every element once, in order.
LEMMA InOrderLists ==
    ASSUME NEW S, S \subseteq Nat, IsFiniteSet(S), NEW q
    PROVE  /\ InOrder(q, S) = q \o Listing(S)
           /\ Cardinality(S) \in Nat
           /\ Listing(S) \in [1..Cardinality(S) -> S]
           /\ \A k \in S : \E r \in 1..Cardinality(S) : Listing(S)[r] = k
           /\ \A a, b \in 1..Cardinality(S) : a < b => Listing(S)[a] < Listing(S)[b]
<1>1. InOrder(q, S) = q \o Listing(S)
  BY DEF InOrder, Listing, Rank
<1>2. Cardinality(S) \in Nat
  BY FS_CardinalityType
<1>3. \A r \in 1..Cardinality(S) : Listing(S)[r] \in S /\ Rank(S, Listing(S)[r]) = r
  BY RankOnto DEF Listing
<1>4. Listing(S) \in [1..Cardinality(S) -> S]
  BY <1>3 DEF Listing
<1>5. \A k, l \in S : Rank(S, k) = Rank(S, l) => ~(k < l) /\ ~(l < k)
  <2> SUFFICES ASSUME NEW k \in S, NEW l \in S, Rank(S, k) = Rank(S, l) PROVE ~(k < l)
    OBVIOUS
  <2>0. Rank(S, k) \in 1..Cardinality(S)
    BY RankMonotone
  <2>1. Rank(S, k) \in Nat
    BY <1>2, <2>0
  <2>2. k < l => Rank(S, k) < Rank(S, l)
    BY RankMonotone
  <2>3. ~(Rank(S, k) < Rank(S, k))
    BY <2>1
  <2> QED BY <2>2, <2>3
<1>6. \A k \in S : \E r \in 1..Cardinality(S) : Listing(S)[r] = k
  <2> TAKE k \in S
  <2>1. Rank(S, k) \in 1..Cardinality(S)
    BY RankMonotone
  <2>2. Listing(S)[Rank(S, k)] \in S /\ Rank(S, Listing(S)[Rank(S, k)]) = Rank(S, k)
    BY <1>3, <2>1
  <2>3. Listing(S)[Rank(S, k)] = k
    <3> DEFINE l == Listing(S)[Rank(S, k)]
    <3>1. l \in S /\ Rank(S, l) = Rank(S, k)
      BY <2>2
    <3> HIDE DEF l
    <3>2. ~(k < l) /\ ~(l < k) /\ l \in Nat /\ k \in Nat
      BY <1>5, <3>1
    <3>3. l = k
      BY <3>2
    <3> QED BY <3>3 DEF l
  <2> QED BY <2>1, <2>3
<1>7. ASSUME NEW a \in 1..Cardinality(S), NEW b \in 1..Cardinality(S), a < b
      PROVE  Listing(S)[a] < Listing(S)[b]
  <2> DEFINE k == Listing(S)[a]
             l == Listing(S)[b]
  <2>1. k \in S /\ Rank(S, k) = a /\ l \in S /\ Rank(S, l) = b
    BY <1>3
  <2> HIDE DEF k, l
  <2>2. l < k => Rank(S, l) < Rank(S, k)
    BY <2>1, RankMonotone
  <2>3. k \in Nat /\ l \in Nat /\ k # l
    BY <1>7, <2>1
  <2>4. k < l
    BY <1>2, <1>7, <2>1, <2>2, <2>3
  <2> QED BY <2>4 DEF k, l
<1> QED BY <1>1, <1>2, <1>4, <1>6, <1>7

-----------------------------------------------------------------------------
(* What the hub's own steps do to a listener's connection. *)

\* One message is sent to x, none is, or what was on the way is lost.
Goes(x) ==
    \/ wire'[x] = wire[x]
    \/ wire'[x] = <<>> /\ ~open'[x]
    \/ /\ task[x].pc \notin Before
       /\ \E k \in DOMAIN log : wire'[x] = Append(wire[x], [type |-> "event", seq |-> k])

\* The handler of s does one step that lets nobody in.
HubMove(s) ==
    /\ \A x \in Sockets \ {s} : task'[x] = task[x]
    /\ task[s].pc # "done" /\ task'[s].pc # "new"
    /\ task'[s].pc # "done" => task'[s].nick = task[s].nick
    /\ task'[s].pc \in Before =>
         task[s].pc \in Before \ {"new"} /\ task'[s].since = task[s].since
    /\ \A n \in Nicks : conns'[n] \subseteq conns[n]
    /\ \A x \in task'[s].batch : x \in task[s].batch \/ \E n \in Nicks : x \in conns[n]
    /\ \A x \in Sockets : open'[x] => open[x]
    /\ \A x \in Sockets : Goes(x)
    /\ Extends

LEMMA HubKeeps ==
    ASSUME SessionsInv, SessionsInv', ListenersInv, NEW s \in Sockets, HubMove(s), UNCHANGED clients
    PROVE  ListenersInv'
<1>1. Shape /\ Shape' /\ sock' = sock /\ cursor' = cursor /\ emitted' = emitted
  BY DEF SessionsInv, clients
<1>2. Len(log) \in Nat /\ Len(log') \in Nat /\ Len(log) <= Len(log') /\ DOMAIN log \subseteq DOMAIN log'
  BY <1>1, LogExtends DEF HubMove
<1>3. Listening'
  BY <1>1, <1>2 DEF ListenersInv, Listening
<1>4. \A x \in Sockets : task'[x].pc \in Before => task[x].pc \in Before /\ task'[x].since = task[x].since
  BY DEF HubMove
<1>5. Dialled'
  <2>1. \A x \in Sockets : /\ task[x].pc # "new" => task'[x].pc # "new"
                           /\ task'[x].pc # "done" =>
                                task[x].pc # "done" /\ task'[x].nick = task[x].nick
    BY DEF HubMove
  <2>2. \A i \in Instances : sock[i] # None => sock[i] \in Sockets
    BY DEF ListenersInv, Listening
  <2> QED BY <1>1, <2>1, <2>2 DEF ListenersInv, Dialled
<1>6. ASSUME NEW x \in Sockets, task'[x].pc \in Before PROVE Unserved(x)'
  <2>1. Unserved(x) /\ task[x].pc \in Before
    BY <1>4, <1>6 DEF ListenersInv, Unrouted
  <2>2. wire'[x] = <<>>
    BY <2>1 DEF HubMove, Goes, Unserved
  <2>3. \A n \in Nicks : x \notin conns'[n]
    BY <2>1 DEF HubMove, Unserved
  <2>4. \A h \in Sockets : x \notin task'[h].batch
    BY <2>1 DEF HubMove, Unserved
  <2> QED BY <2>2, <2>3, <2>4 DEF Unserved
<1>7. Unrouted'
  BY <1>6 DEF Unrouted
<1>8. Asked'
  <2>1. \A i \in Instances : sock[i] # None => sock[i] \in Sockets
    BY DEF ListenersInv, Listening
  <2> QED BY <1>1, <1>4, <2>1 DEF ListenersInv, Asked
<1>9. ReplyFirst'
  <2> SUFFICES ASSUME NEW i \in Instances, sock[i] # None, NEW j \in DOMAIN wire'[sock[i]],
                      wire'[sock[i]][j].type # "event"
               PROVE  j = 1 /\ ReplyOk(cursor[i], wire'[sock[i]][j])
    BY <1>1 DEF ReplyFirst
  <2> DEFINE x == sock[i]
  <2>1. x \in Sockets /\ wire[x] \in Seq(FrameType)
    BY <1>1 DEF ListenersInv, Listening, Shape
  <2>2. j \in DOMAIN wire[x] /\ wire'[x][j] = wire[x][j]
    <3>1. CASE wire'[x] = wire[x]
      BY <3>1
    <3>2. CASE wire'[x] = <<>>
      BY <3>2
    <3>3. ASSUME NEW k, wire'[x] = Append(wire[x], [type |-> "event", seq |-> k])
          PROVE  j \in DOMAIN wire[x] /\ wire'[x][j] = wire[x][j]
      <4>1. j \in 1..Len(wire[x])+1 /\ Len(wire[x]) \in Nat /\ DOMAIN wire[x] = 1..Len(wire[x])
        BY <2>1, <3>3
      <4>2. j # Len(wire[x])+1
        BY <2>1, <3>3
      <4>3. j \in 1..Len(wire[x])
        BY <4>1, <4>2
      <4> QED BY <2>1, <3>3, <4>1, <4>3
    <3> QED BY <2>1, <3>1, <3>2, <3>3 DEF HubMove, Goes
  <2>3. j = 1 /\ ReplyOk(cursor[i], wire[x][j])
    BY <2>2 DEF ListenersInv, ReplyFirst
  <2> QED BY <2>2, <2>3
<1>10. Below' /\ EmittedOnce'
  BY <1>1 DEF ListenersInv, Below, EmittedOnce
<1> QED BY <1>3, <1>5, <1>7, <1>8, <1>9, <1>10 DEF ListenersInv

\* Every step of the hub but a hello and an entry is one.
LEMMA Sent ==
    ASSUME Shape, NEW x \in Sockets, NEW k \in DOMAIN log, task[x].pc \notin Before,
           Transmit(x, [type |-> "event", seq |-> k])
    PROVE  \A y \in Sockets : Goes(y)
<1>1. wire \in [Sockets -> Seq(FrameType)]
  BY DEF Shape
<1>2. \A y \in Sockets : wire'[y] = wire[y] \/ (y = x /\ wire'[y] = Append(wire[x], [type |-> "event", seq |-> k]))
  BY <1>1 DEF Transmit
<1> QED BY <1>2 DEF Goes

LEMMA Unsent == ASSUME wire' = wire PROVE \A y \in Sockets : Goes(y)
BY DEF Goes

LEMMA HandlerMoves ==
    ASSUME SessionsInv, Unrouted, NEW s \in Sockets, Handler(s), ~Enter(s)
    PROVE  HubMove(s)
<1>1. /\ Shape /\ Referring /\ task \in [Sockets -> Tasks] /\ task[s] \in Tasks
      /\ open \in [Sockets -> BOOLEAN]
  BY DEF SessionsInv, Shape
<1>2. log' = log => Extends
  BY DEF Extends
<1>3. CASE CloseOne(s)
  <2>1. \A y \in Sockets : Goes(y)
    BY <1>3, Unsent DEF CloseOne
  <2> QED BY <1>1, <1>2, <1>3, <2>1 DEF CloseOne, HubMove, Tasks, Before
<1>4. CASE Announce(s)
  <2>1. \A y \in Sockets : Goes(y)
    BY <1>4, Unsent DEF Announce
  <2>2. Event("takeover", s, {task[s].nick}) \in EventType
    BY <1>1, <1>4 DEF Event, EventType, Announce, SessionsInv, Placed, Entered
  <2>3. Extends
    BY <1>4, <2>2 DEF Announce, Extends
  <2>4. /\ task'[s].pc \in {"announcing", "entering"} /\ task'[s].nick = task[s].nick
        /\ task'[s].since = task[s].since /\ task'[s].batch = task[s].batch
        /\ task[s].pc = "closing" /\ \A x \in Sockets \ {s} : task'[x] = task[x]
    BY <1>1, <1>4 DEF Announce, Tasks
  <2>5. UNCHANGED <<conns, open>>
    BY <1>4 DEF Announce
  <2> QED BY <2>1, <2>3, <2>4, <2>5 DEF HubMove, Before
<1>5. CASE StartCatchUp(s) \/ EndCatchUp(s) \/ Route(s) \/ Eject(s) \/ EndEviction(s)
  <2>1. \A y \in Sockets : Goes(y)
    BY <1>5, Unsent DEF StartCatchUp, EndCatchUp, Route, Eject, EndEviction
  <2>2. UNCHANGED <<conns, open, log>>
    BY <1>5 DEF StartCatchUp, EndCatchUp, Route, Eject, EndEviction
  <2>3. /\ task[s].pc \in {"replying", "catching", "routing", "warning", "ejecting", "evicting"}
        /\ task'[s].pc \in {"catching", "loop", "publishing", "evicting"}
        /\ task'[s].nick = task[s].nick /\ task'[s].batch = task[s].batch
        /\ \A x \in Sockets \ {s} : task'[x] = task[x]
    <3>1. CASE StartCatchUp(s)
      BY <1>1, <3>1 DEF StartCatchUp, Tasks
    <3>2. CASE EndCatchUp(s)
      BY <1>1, <3>2 DEF EndCatchUp, Tasks
    <3>3. CASE Route(s)
      BY <1>1, <3>3 DEF Route, Tasks
    <3>4. CASE Eject(s)
      BY <1>1, <3>4 DEF Eject, Tasks
    <3>5. CASE EndEviction(s)
      BY <1>1, <3>5 DEF EndEviction, Tasks
    <3> QED BY <1>5, <3>1, <3>2, <3>3, <3>4, <3>5
  <2> QED BY <1>2, <2>1, <2>2, <2>3 DEF HubMove, Before
<1>6. CASE CatchUp(s)
  <2>1. PICK k \in task[s].queue : /\ Transmit(s, [type |-> "event", seq |-> k])
                                   /\ task' = [task EXCEPT ![s].queue = @ \ {k}]
    BY <1>6 DEF CatchUp
  <2>2. k \in DOMAIN log /\ task[s].pc \notin Before
    BY <1>1, <1>6 DEF Referring, Sound, CatchUp, Before
  <2>3. \A y \in Sockets : Goes(y)
    BY <1>1, <2>1, <2>2, Sent
  <2> QED BY <1>1, <1>2, <1>6, <2>1, <2>3 DEF CatchUp, HubMove, Tasks, Before
<1>7. CASE Spread(s)
  <2>1. task[s].seq \in DOMAIN log /\ task[s].pc \in {"announcing", "publishing", "condemning"}
    BY <1>1, <1>7 DEF Spread, Spreading, Referring, Sound, Carrying
  <2>2. ASSUME NEW x \in Sockets, NEW b \in SUBSET Sockets, NEW a,
               x \in task[s].batch \/ \E n \in Nicks : x \in conns[n],
               Transmit(x, [type |-> "event", seq |-> task[s].seq]),
               task' = [task EXCEPT ![s] = [task[s] EXCEPT !.batch = b, !.audience = a]],
               \A y \in b : y \in task[s].batch \/ \E n \in Nicks : y \in conns[n]
        PROVE  HubMove(s)
    <3>1. task[x].pc \notin Before
      BY <2>2 DEF Unrouted, Unserved
    <3>2. \A y \in Sockets : Goes(y)
      BY <1>1, <2>1, <2>2, <3>1, Sent
    <3>3. /\ task'[s].batch = b /\ task'[s].pc = task[s].pc /\ task'[s].nick = task[s].nick
          /\ task'[s].since = task[s].since /\ \A y \in Sockets \ {s} : task'[y] = task[y]
      BY <1>1, <2>2 DEF Tasks
    <3>4. UNCHANGED <<conns, log, open>>
      BY <1>7 DEF Spread
    <3> QED BY <1>1, <1>2, <2>1, <2>2, <3>2, <3>3, <3>4 DEF HubMove, Before
  <2>3. CASE \E x \in task[s].batch :
               /\ Transmit(x, [type |-> "event", seq |-> task[s].seq])
               /\ task' = [task EXCEPT ![s].batch = @ \ {x}]
    <3>1. PICK x \in task[s].batch :
             /\ Transmit(x, [type |-> "event", seq |-> task[s].seq])
             /\ task' = [task EXCEPT ![s].batch = @ \ {x}]
      BY <2>3
    <3>2. x \in Sockets /\ task[s].batch \ {x} \in SUBSET Sockets
      BY <1>1 DEF Tasks
    <3>3. task' = [task EXCEPT ![s] = [task[s] EXCEPT !.batch = task[s].batch \ {x},
                                                      !.audience = task[s].audience]]
      BY <1>1, <3>1 DEF Tasks
    <3>4. \A y \in task[s].batch \ {x} : y \in task[s].batch \/ \E n \in Nicks : y \in conns[n]
      OBVIOUS
    <3>5. x \in task[s].batch \/ \E n \in Nicks : x \in conns[n]
      BY <3>1
    <3>6. Transmit(x, [type |-> "event", seq |-> task[s].seq])
      BY <3>1
    <3> QED BY <2>2, <3>2, <3>3, <3>4, <3>5, <3>6
  <2>4. CASE \E n \in task[s].audience : \E x \in conns[n] :
               /\ Transmit(x, [type |-> "event", seq |-> task[s].seq])
               /\ task' = [task EXCEPT ![s].batch = conns[n] \ {x}, ![s].audience = @ \ {n}]
    <3>0. PICK n \in task[s].audience : \E x \in conns[n] :
             /\ Transmit(x, [type |-> "event", seq |-> task[s].seq])
             /\ task' = [task EXCEPT ![s].batch = conns[n] \ {x}, ![s].audience = @ \ {n}]
      BY <2>4
    <3>1. PICK x \in conns[n] :
             /\ Transmit(x, [type |-> "event", seq |-> task[s].seq])
             /\ task' = [task EXCEPT ![s].batch = conns[n] \ {x}, ![s].audience = @ \ {n}]
      BY <3>0
    <3>2. n \in Nicks
      BY <1>1 DEF Tasks
    <3>3. x \in Sockets /\ conns[n] \ {x} \in SUBSET Sockets
      BY <1>1, <3>2 DEF Shape
    <3>4. task' = [task EXCEPT ![s] = [task[s] EXCEPT !.batch = conns[n] \ {x},
                                                      !.audience = task[s].audience \ {n}]]
      BY <1>1, <3>1 DEF Tasks
    <3>5. \A y \in conns[n] \ {x} : y \in task[s].batch \/ \E m \in Nicks : y \in conns[m]
      BY <3>2
    <3>6. x \in task[s].batch \/ \E m \in Nicks : x \in conns[m]
      BY <3>1, <3>2
    <3>7. Transmit(x, [type |-> "event", seq |-> task[s].seq])
      BY <3>1
    <3> QED BY <2>2, <3>3, <3>4, <3>5, <3>6, <3>7
  <2> QED BY <1>7, <2>3, <2>4 DEF Spread
<1>8. CASE EndSpread(s)
  <2>1. \A y \in Sockets : Goes(y)
    BY <1>8, Unsent DEF EndSpread
  <2> QED BY <1>1, <1>2, <1>8, <2>1 DEF EndSpread, Spreading, HubMove, Tasks, Before
<1>9. CASE Leave(s)
  <2>1. \A y \in Sockets : Goes(y)
    BY <1>9, Unsent DEF Leave
  <2>2. \A n \in Nicks : conns'[n] \subseteq conns[n]
    BY <1>1, <1>9 DEF Leave, Put
  <2>3. task'[s] = [NoTask EXCEPT !.pc = "done", !.doomed = task[s].doomed]
    BY <1>1, <1>9 DEF Leave, Set
  <2>4. task'[s].pc = "done" /\ task'[s].batch = {}
    BY <2>3 DEF NoTask
  <2>5. /\ task[s].pc # "done" /\ \A x \in Sockets \ {s} : task'[x] = task[x]
        /\ open' = [open EXCEPT ![s] = FALSE] /\ log' = log
    BY <1>1, <1>9 DEF Leave, Set, OwnAwaits
  <2> QED BY <1>1, <1>2, <2>1, <2>2, <2>4, <2>5 DEF HubMove, Before
<1> QED BY <1>3, <1>4, <1>5, <1>6, <1>7, <1>8, <1>9 DEF Handler

LEMMA FrameMoves ==
    ASSUME SessionsInv, NEW s \in Sockets, Frame(s)
    PROVE  HubMove(s)
<1>1. /\ Shape /\ task \in [Sockets -> Tasks] /\ task[s] \in Tasks
      /\ open \in [Sockets -> BOOLEAN]
  BY DEF SessionsInv, Shape
<1>2. UNCHANGED <<conns, open, wire>> /\ task[s].pc = "loop"
  BY DEF Frame, StaleFrame, Chat, Notice, MembershipSet, Kick, MayAct
<1>3. task[s].nick \in Nicks /\ task[s].gen \in Nat
  BY <1>1, <1>2 DEF SessionsInv, Placed, Entered, Shape, Tasks
<1>4. \A y \in Sockets : Goes(y)
  BY <1>2, Unsent
<1>5. ASSUME NEW type \in {"chat", "fyi", "status", "membership_set", "kick"},
             NEW to \in SUBSET (Nicks \cup Groups), log' = Append(log, Event(type, s, to))
      PROVE  Extends
  BY <1>3, <1>5 DEF Extends, Event, EventType
<1>6. CASE StaleFrame(s)
  <2>1. Extends
    BY <1>6 DEF StaleFrame, Extends
  <2> QED BY <1>1, <1>2, <1>4, <1>6, <2>1 DEF StaleFrame, HubMove, Tasks, Before
<1>7. ASSUME NEW to \in MentionSets, NEW misspelt \in Misspells, Chat(s, to, misspelt)
      PROVE  HubMove(s)
  <2>1. to \in SUBSET (Nicks \cup Groups)
    BY SessionsAssumption
  <2>2. Extends
    BY <1>5, <1>7, <2>1 DEF Chat
  <2>3. task' = [task EXCEPT ![s].pc = IF misspelt THEN "warning" ELSE "routing",
                             ![s].seq = Len(log) + 1, ![s].doomed = {}]
    BY <1>7 DEF Chat
  <2>4. task'[s].pc \in {"warning", "routing"}
    <3>1. CASE misspelt
      BY <1>1, <2>3, <3>1 DEF Tasks
    <3>2. CASE ~misspelt
      BY <1>1, <2>3, <3>2 DEF Tasks
    <3> QED BY <3>1, <3>2
  <2>5. /\ task'[s].nick = task[s].nick /\ task'[s].batch = task[s].batch
        /\ \A x \in Sockets \ {s} : task'[x] = task[x]
    BY <1>1, <2>3 DEF Tasks
  <2> QED BY <1>2, <1>4, <2>2, <2>4, <2>5 DEF HubMove, Before
<1>8. ASSUME NEW type \in {"fyi", "status"}, Notice(s, type) PROVE HubMove(s)
  <2>1. {} \in SUBSET (Nicks \cup Groups)
    OBVIOUS
  <2>2. Extends
    BY <1>5, <1>8, <2>1 DEF Notice
  <2> QED BY <1>1, <1>2, <1>4, <1>8, <2>2 DEF Notice, HubMove, Tasks, Before
<1>9. ASSUME NEW n \in Nicks, NEW gs \in SUBSET Groups, MembershipSet(s, n, gs) PROVE HubMove(s)
  <2>1. {n} \in SUBSET (Nicks \cup Groups)
    OBVIOUS
  <2>2. Extends
    BY <1>5, <1>9, <2>1 DEF MembershipSet
  <2> QED BY <1>1, <1>2, <1>4, <1>9, <2>2 DEF MembershipSet, HubMove, Tasks, Before
<1>10. ASSUME NEW n \in Nicks, Kick(s, n) PROVE HubMove(s)
  <2>1. {n} \in SUBSET (Nicks \cup Groups)
    OBVIOUS
  <2>2. Extends
    BY <1>5, <1>10, <2>1 DEF Kick
  <2> QED BY <1>1, <1>2, <1>4, <1>10, <2>2 DEF Kick, HubMove, Tasks, Before
<1> QED BY <1>6, <1>7, <1>8, <1>9, <1>10 DEF Frame

LEMMA DisconnectMoves ==
    ASSUME SessionsInv, NEW s \in Sockets, Disconnect(s) PROVE HubMove(s)
<1>1. wire \in [Sockets -> Seq(FrameType)] /\ open \in [Sockets -> BOOLEAN]
  BY DEF SessionsInv, Shape
<1>2. \A y \in Sockets : Goes(y)
  BY <1>1 DEF Goes, Disconnect
<1>3. Extends
  BY DEF Extends, Disconnect
<1> QED BY <1>1, <1>2, <1>3 DEF Disconnect, HubMove, Before

-----------------------------------------------------------------------------
(* The steps that concern a listener. *)

LEMMA HelloMoves ==
    ASSUME SessionsInv, NEW s \in Sockets, NEW n \in Nicks, NEW i \in Instances, NEW c \in Nat,
           HelloFrame(s, n, i, c)
    PROVE  /\ task[s].pc = "new" /\ \A x \in Sockets \ {s} : task'[x] = task[x]
           /\ task'[s].pc \in {"closing", "entering"} /\ task'[s].nick = n
           /\ task'[s].since = c /\ task'[s].end = Len(log) + 1 /\ task'[s].batch = {}
           /\ task'[s].resync = (c < boundary)
           /\ \A m \in Nicks : conns'[m] \subseteq conns[m]
           /\ UNCHANGED <<groups, boundary, open, wire>>
           /\ Extends /\ log'[Len(log) + 1].type = "hello" /\ Len(log') = Len(log) + 1
           /\ Turn(s)
<1> DEFINE trial == IF n \in Tokens THEN Hello(registry, n, i) ELSE OpenHello(registry, n, i, None)
           bumped == trial.gen[n] # registry.gen[n]
           stale == IF bumped THEN conns[n] ELSE {}
           p == IF bumped THEN "closing" ELSE "entering"
           e == [type |-> "hello", by |-> n, gen |-> trial.gen[n], to |-> {}]
           displaced == bumped /\ registry.gen[n] > 0
           r == [NoTask EXCEPT !.pc = p, !.nick = n, !.gen = trial.gen[n], !.groups = trial.groups[n],
                               !.displaced = displaced,
                               !.resync = c < boundary, !.since = c, !.end = Len(log) + 1,
                               !.todo = stale]
<1>1. /\ task[s].pc = "new" /\ Turn(s)
      /\ task' = [task EXCEPT ![s] = r] /\ log' = Append(log, e)
      /\ conns' = Put(conns, n, conns[n] \ stale)
      /\ UNCHANGED <<groups, boundary, open, wire>>
  BY DEF HelloFrame, NextToEnter, Set
<1>2. trial \in RegistryType
  BY HelloRegistry DEF SessionsInv
<1>3. e \in EventType
  BY <1>2 DEF RegistryType, EventType
<1>4. e.type = "hello"
  OBVIOUS
<1>5. p \in {"closing", "entering"}
  OBVIOUS
<1> HIDE DEF trial, e, p, bumped, stale, displaced
<1>6. Extends
  BY <1>1, <1>3 DEF Extends
<1>7. log'[Len(log) + 1].type = "hello" /\ Len(log') = Len(log) + 1
  BY <1>1, <1>3, <1>4, Grown DEF SessionsInv
<1>8. \A m \in Nicks : conns'[m] \subseteq conns[m]
  BY <1>1 DEF Put
<1>9. task'[s] = r /\ \A x \in Sockets \ {s} : task'[x] = task[x]
  BY <1>1 DEF SessionsInv, Shape
<1>10. /\ r.pc = p /\ r.nick = n /\ r.since = c /\ r.end = Len(log) + 1 /\ r.batch = {}
       /\ r.resync = (c < boundary)
  BY DEF NoTask
<1> HIDE DEF r
<1> QED BY <1>1, <1>5, <1>6, <1>7, <1>8, <1>9, <1>10

LEMMA DialKeeps ==
    ASSUME SessionsInv, SessionsInv', ListenersInv, NEW i \in Instances, NEW s \in Sockets, Dial(i, s)
    PROVE  ListenersInv'
<1>1. NickOf[i] \in Nicks
  BY DeliveryAssumption
<1>2. /\ Shape /\ Shape' /\ sock[i] = None /\ s # None
      /\ sock' = [sock EXCEPT ![i] = s] /\ cursor' = cursor /\ emitted' = emitted
      /\ HelloFrame(s, NickOf[i], i, cursor[i])
  BY SessionsAssumption DEF SessionsInv, Dial, Sockets
<1>3. /\ sock \in [Instances -> Sockets \cup {None}] /\ cursor \in [Instances -> 0..Len(log)]
      /\ cursor[i] \in Nat /\ Len(log) \in Nat
  BY <1>2 DEF ListenersInv, Listening, Shape
<1>4. /\ task[s].pc = "new" /\ \A x \in Sockets \ {s} : task'[x] = task[x]
      /\ task'[s].pc \in {"closing", "entering"} /\ task'[s].nick = NickOf[i]
      /\ task'[s].since = cursor[i] /\ task'[s].batch = {}
      /\ \A m \in Nicks : conns'[m] \subseteq conns[m]
      /\ wire' = wire /\ Extends
  BY <1>1, <1>2, <1>3, HelloMoves
<1>5. Len(log) <= Len(log') /\ DOMAIN log \subseteq DOMAIN log' /\ Len(log') \in Nat
  BY <1>2, <1>4, LogExtends
<1>6. Listening'
  BY <1>2, <1>3, <1>5 DEF ListenersInv, Listening
<1>7. \A j \in Instances : sock[j] # s
  BY <1>2, <1>4 DEF ListenersInv, Dialled
<1>8. /\ sock'[i] = s /\ \A j \in Instances \ {i} : sock'[j] = sock[j]
      /\ \A j \in Instances : sock[j] # None => sock[j] \in Sockets \ {s}
  BY <1>2, <1>3, <1>7
<1>9. Dialled'
  <2>1. \A j \in Instances : \A l \in Instances : sock'[j] # None /\ sock'[j] = sock'[l] => j = l
    BY <1>7, <1>8 DEF ListenersInv, Dialled
  <2>2. ASSUME NEW j \in Instances, sock'[j] # None
        PROVE  /\ task'[sock'[j]].pc # "new"
               /\ task'[sock'[j]].pc # "done" => task'[sock'[j]].nick = NickOf[j]
    <3>1. CASE j = i
      BY <1>4, <1>8, <3>1
    <3>2. CASE j # i
      <4>1. sock'[j] = sock[j] /\ sock[j] \in Sockets \ {s} /\ task'[sock[j]] = task[sock[j]]
        BY <1>4, <1>8, <2>2, <3>2
      <4>2. /\ task[sock[j]].pc # "new"
            /\ task[sock[j]].pc # "done" => task[sock[j]].nick = NickOf[j]
        BY <2>2, <4>1 DEF ListenersInv, Dialled
      <4> QED BY <4>1, <4>2
    <3> QED BY <3>1, <3>2
  <2> QED BY <2>1, <2>2 DEF Dialled
<1>10. Unserved(s)
  BY <1>4 DEF ListenersInv, Unrouted, Before
<1>11. ASSUME NEW x \in Sockets, task'[x].pc \in Before PROVE Unserved(x)'
  <2>1. Unserved(x)
    BY <1>4, <1>10, <1>11 DEF ListenersInv, Unrouted
  <2> QED BY <1>4, <2>1 DEF Unserved
<1>12. Unrouted'
  BY <1>11 DEF Unrouted
<1>13. ASSUME NEW j \in Instances, sock'[j] # None, task'[sock'[j]].pc \in Before
       PROVE  task'[sock'[j]].since = cursor'[j]
  <2>1. CASE j = i
    BY <1>2, <1>4, <1>8, <2>1
  <2>2. CASE j # i
    <3>1. sock'[j] = sock[j] /\ task'[sock[j]] = task[sock[j]]
      BY <1>4, <1>8, <1>13, <2>2
    <3> QED BY <1>2, <1>13, <3>1 DEF ListenersInv, Asked
  <2> QED BY <2>1, <2>2
<1>14. Asked'
  BY <1>13 DEF Asked
<1>15. ASSUME NEW j \in Instances, sock'[j] # None, NEW q \in DOMAIN wire'[sock'[j]],
              wire'[sock'[j]][q].type # "event"
       PROVE  q = 1 /\ ReplyOk(cursor'[j], wire'[sock'[j]][q])
  <2>1. j # i
    BY <1>4, <1>8, <1>10, <1>15 DEF Unserved
  <2>2. sock'[j] = sock[j]
    BY <1>8, <2>1
  <2> QED BY <1>2, <1>4, <1>15, <2>2 DEF ListenersInv, ReplyFirst
<1>16. ReplyFirst'
  BY <1>15 DEF ReplyFirst
<1>17. Below' /\ EmittedOnce'
  BY <1>2 DEF ListenersInv, Below, EmittedOnce
<1> QED BY <1>6, <1>9, <1>12, <1>14, <1>16, <1>17 DEF ListenersInv

LEMMA EnterMoves ==
    ASSUME SessionsInv, NEW s \in Sockets, Enter(s)
    PROVE  /\ task[s].pc = "entering" /\ \A x \in Sockets \ {s} : task'[x] = task[x]
           /\ task'[s].pc = "replying" /\ task'[s].nick = task[s].nick
           /\ task'[s].batch = task[s].batch /\ task'[s].end = task[s].end
           /\ task'[s].groups = task[s].groups
           /\ task[s].nick \in Nicks
           /\ conns'[task[s].nick] = conns[task[s].nick] \cup {s}
           /\ \A n \in Nicks \ {task[s].nick} : conns'[n] = conns[n]
           /\ log' = log /\ open' = open /\ Turn(s)
           /\ \A x \in Sockets \ {s} : wire'[x] = wire[x]
           /\ wire'[s] = IF open[s] /\ task[s].nick \in Listened
                         THEN Append(wire[s], ReplyTo(task[s])) ELSE wire[s]
<1>1. task \in [Sockets -> Tasks] /\ task[s] \in Tasks /\ wire \in [Sockets -> Seq(FrameType)]
  BY DEF SessionsInv, Shape
<1>2. task[s].pc = "entering" /\ task[s].nick \in Nicks /\ Turn(s) /\ log' = log /\ open' = open
  BY DEF Enter, SessionsInv, Placed, Entered
<1>3. /\ conns'[task[s].nick] = conns[task[s].nick] \cup {s}
      /\ \A n \in Nicks \ {task[s].nick} : conns'[n] = conns[n]
  BY <1>2 DEF Enter, Put
<1>4. task' = [task EXCEPT ![s].pc = "replying", ![s].displaced = FALSE, ![s].resync = FALSE,
                           ![s].since = 0, ![s].seq = 0]
  BY DEF Enter
<1>5. Transmit(s, ReplyTo(task[s]))
  BY DEF Enter
<1>6. /\ \A x \in Sockets \ {s} : wire'[x] = wire[x]
      /\ wire'[s] = IF open[s] /\ task[s].nick \in Listened
                    THEN Append(wire[s], ReplyTo(task[s])) ELSE wire[s]
  <2>1. CASE open[s] /\ task[s].nick \in Listened
    BY <1>1, <1>5, <2>1 DEF Transmit
  <2>2. CASE ~(open[s] /\ task[s].nick \in Listened)
    BY <1>5, <2>2 DEF Transmit
  <2> QED BY <2>1, <2>2
<1>7. /\ \A x \in Sockets \ {s} : task'[x] = task[x]
      /\ task'[s].pc = "replying" /\ task'[s].nick = task[s].nick
      /\ task'[s].batch = task[s].batch /\ task'[s].end = task[s].end
      /\ task'[s].groups = task[s].groups
  BY <1>1, <1>4 DEF Tasks
<1> QED BY <1>2, <1>3, <1>6, <1>7

LEMMA ReplyShape ==
    ASSUME Shape, Referring, NEW s \in Sockets, task[s].pc = "entering"
    PROVE  /\ ReplyTo(task[s]).type \in {"ok", "resync_required"}
           /\ ReplyTo(task[s]) \in FrameType
           /\ ReplyOk(task[s].since, ReplyTo(task[s]))
           /\ ReplyTo(task[s]).type = "resync_required" <=> task[s].resync
<1>1. /\ task[s] \in Tasks /\ Len(log) \in Nat /\ DOMAIN log = 1..Len(log)
      /\ task[s].end \in DOMAIN log
  BY DEF Shape, Referring, Sound, Arriving
<1>2. task[s].since \in Nat /\ task[s].end \in Nat /\ Len(log) \in DOMAIN log
  BY <1>1 DEF Tasks
<1>3. CASE task[s].resync
  <2>1. Conversation(task[s].since) \subseteq DOMAIN log
        /\ Conversation(task[s].since) \subseteq 1..Len(log)
        /\ \A k \in Conversation(task[s].since) : k > task[s].since
    BY <1>1, <1>2 DEF Conversation
  <2> QED BY <1>2, <1>3, <2>1 DEF ReplyTo, ReplyOk, FrameType
<1>4. CASE ~task[s].resync
  <2>1. Backlog(task[s].since, task[s].end) \subseteq DOMAIN log
        /\ Backlog(task[s].since, task[s].end) \subseteq 1..task[s].end
    BY <1>1, <1>2 DEF Backlog
  <2> QED BY <1>1, <1>4, <2>1 DEF ReplyTo, ReplyOk, FrameType
<1> QED BY <1>3, <1>4

LEMMA EnterKeeps ==
    ASSUME SessionsInv, SessionsInv', ListenersInv, NEW s \in Sockets, Enter(s), UNCHANGED clients
    PROVE  ListenersInv'
<1>1. Shape /\ Referring /\ sock' = sock /\ cursor' = cursor /\ emitted' = emitted
  BY DEF SessionsInv, clients
<1>2. /\ task[s].pc = "entering" /\ \A x \in Sockets \ {s} : task'[x] = task[x]
      /\ task'[s].pc = "replying" /\ task'[s].nick = task[s].nick
      /\ task'[s].batch = task[s].batch
      /\ \A n \in Nicks : conns'[n] \subseteq conns[n] \cup {s}
      /\ log' = log
      /\ \A x \in Sockets \ {s} : wire'[x] = wire[x]
      /\ wire'[s] = wire[s] \/ wire'[s] = Append(wire[s], ReplyTo(task[s]))
  BY EnterMoves
<1>3. \A i \in Instances : sock[i] # None => sock[i] \in Sockets
  BY DEF ListenersInv, Listening
<1>4. Listening' /\ Below' /\ EmittedOnce'
  BY <1>1, <1>2 DEF ListenersInv, Listening, Below, EmittedOnce
<1>5. Dialled'
  BY <1>1, <1>2, <1>3 DEF ListenersInv, Dialled
<1>6. ASSUME NEW x \in Sockets, task'[x].pc \in Before PROVE Unserved(x)'
  <2>1. x # s /\ Unserved(x)
    BY <1>2, <1>6 DEF ListenersInv, Unrouted, Before
  <2> QED BY <1>2, <2>1 DEF Unserved
<1>7. Unrouted'
  BY <1>6 DEF Unrouted
<1>8. Asked'
  BY <1>1, <1>2, <1>3 DEF ListenersInv, Asked, Before
<1>9. wire[s] = <<>>
  BY <1>2 DEF ListenersInv, Unrouted, Before, Unserved
<1>10. ASSUME NEW i \in Instances, sock[i] # None, NEW j \in DOMAIN wire'[sock[i]],
              wire'[sock[i]][j].type # "event"
       PROVE  j = 1 /\ ReplyOk(cursor[i], wire'[sock[i]][j])
  <2>1. CASE sock[i] # s
    BY <1>2, <1>3, <1>10, <2>1 DEF ListenersInv, ReplyFirst
  <2>2. CASE sock[i] = s
    <3>1. wire'[s] = <<ReplyTo(task[s])>>
      BY <1>2, <1>9, <1>10, <2>2
    <3>2. j = 1 /\ wire'[s][j] = ReplyTo(task[s])
      BY <1>10, <2>2, <3>1
    <3>3. task[s].since = cursor[i]
      BY <1>2, <1>10, <2>2 DEF ListenersInv, Asked, Before
    <3> QED BY <1>1, <1>2, <2>2, <3>2, <3>3, ReplyShape
  <2> QED BY <2>1, <2>2
<1>11. ReplyFirst'
  BY <1>1, <1>10 DEF ReplyFirst
<1> QED BY <1>4, <1>5, <1>7, <1>8, <1>11 DEF ListenersInv

-----------------------------------------------------------------------------
(* Reading: what the head of the queue carries goes to the agent, unless it *)
(* has had it, and the cursor goes as far as the message reaches.           *)

Carries(m, k) == IF m.type = "event" THEN m.seq = k ELSE k \in m.seqs
Reach(m) == IF m.type = "event" THEN m.seq ELSE m.cursor
News(m, c) == {k \in DOMAIN log : Carries(m, k) /\ k > c}

Increasing(q) == \A a, b \in DOMAIN q : a < b => q[a] < q[b]

LEMMA ConcatAt ==
    ASSUME NEW q \in Seq(Nat), NEW t \in Seq(Nat), NEW a \in 1..(Len(q) + Len(t))
    PROVE  (q \o t)[a] = IF a <= Len(q) THEN q[a] ELSE t[a - Len(q)]
OBVIOUS

LEMMA ConcatLen ==
    ASSUME NEW q \in Seq(Nat), NEW t \in Seq(Nat)
    PROVE  Len(q \o t) = Len(q) + Len(t) /\ DOMAIN (q \o t) = 1..(Len(q) + Len(t))
OBVIOUS

LEMMA Joined ==
    ASSUME NEW q \in Seq(Nat), Increasing(q), NEW c \in Nat, \A a \in DOMAIN q : q[a] <= c,
           NEW S, S \subseteq Nat, IsFiniteSet(S), \A k \in S : k > c
    PROVE  /\ InOrder(q, S) \in Seq(Nat) /\ Increasing(InOrder(q, S))
           /\ \A k : (\E a \in DOMAIN InOrder(q, S) : InOrder(q, S)[a] = k)
                     <=> (\E a \in DOMAIN q : q[a] = k) \/ k \in S
<1> DEFINE L == Listing(S)
           n == Cardinality(S)
           t == q \o L
<1>1. /\ InOrder(q, S) = t /\ n \in Nat /\ L \in [1..n -> S]
      /\ \A k \in S : \E r \in 1..n : L[r] = k
      /\ \A a, b \in 1..n : a < b => L[a] < L[b]
  BY InOrderLists
<1> HIDE DEF L, n
<1>2. L \in Seq(Nat) /\ Len(L) = n /\ DOMAIN L = 1..n
  <2>1. L \in [1..n -> Nat] /\ n \in Nat
    BY <1>1
  <2> QED BY <2>1
<1>3. /\ Len(q) \in Nat /\ DOMAIN q = 1..Len(q)
      /\ t \in Seq(Nat) /\ DOMAIN t = 1..(Len(q) + n)
      /\ \A a \in 1..Len(q) : t[a] = q[a]
      /\ \A a \in (Len(q)+1)..(Len(q)+n) : a - Len(q) \in 1..n /\ t[a] = L[a - Len(q)]
  <2>1. q \in Seq(Nat) /\ L \in Seq(Nat) /\ Len(L) = n /\ n \in Nat
    BY <1>1, <1>2
  <2>2. Len(q) \in Nat /\ DOMAIN q = 1..Len(q) /\ t \in Seq(Nat)
    BY <2>1
  <2>3. Len(t) = Len(q) + n /\ DOMAIN t = 1..Len(t)
    BY <2>1, ConcatLen
  <2>4. \A a \in 1..(Len(q)+n) : t[a] = IF a <= Len(q) THEN q[a] ELSE L[a - Len(q)]
    BY <2>1, ConcatAt
  <2>5. /\ \A a \in 1..Len(q) : t[a] = q[a]
        /\ \A a \in (Len(q)+1)..(Len(q)+n) : a - Len(q) \in 1..n /\ t[a] = L[a - Len(q)]
    BY <2>1, <2>2, <2>4
  <2> QED BY <2>2, <2>3, <2>5
<1>4. \A a \in (Len(q)+1)..(Len(q)+n) : t[a] \in S
  BY <1>1, <1>3
<1> HIDE DEF t
<1>5. ASSUME NEW a \in DOMAIN t, NEW b \in DOMAIN t, a < b PROVE t[a] < t[b]
  <2>1. CASE b \in 1..Len(q)
    <3>1. a \in 1..Len(q)
      BY <1>1, <1>3, <1>5, <2>1
    <3> QED BY <1>3, <1>5, <2>1, <3>1 DEF Increasing
  <2>2. CASE b \in (Len(q)+1)..(Len(q)+n) /\ a \in 1..Len(q)
    <3>1. t[a] = q[a] /\ q[a] <= c /\ q[a] \in Nat /\ t[b] \in S
      BY <1>3, <1>4, <2>2
    <3>2. t[b] > c /\ t[b] \in Nat
      BY <3>1
    <3> QED BY <3>1, <3>2
  <2>3. CASE b \in (Len(q)+1)..(Len(q)+n) /\ a \in (Len(q)+1)..(Len(q)+n)
    <3>1. a - Len(q) \in 1..n /\ b - Len(q) \in 1..n /\ t[a] = L[a - Len(q)] /\ t[b] = L[b - Len(q)]
      BY <1>3, <2>3
    <3>2. a - Len(q) < b - Len(q)
      BY <1>3, <1>5, <2>3
    <3> QED BY <1>1, <3>1, <3>2
  <2>4. a \in 1..(Len(q)+n) /\ b \in 1..(Len(q)+n)
    BY <1>3
  <2> QED BY <1>1, <1>3, <2>1, <2>2, <2>3, <2>4
<1>6. ASSUME NEW k \in S PROVE \E a \in DOMAIN t : t[a] = k
  <2>1. PICK r \in 1..n : L[r] = k
    BY <1>1
  <2>2. /\ Len(q) + r \in (Len(q)+1)..(Len(q)+n) /\ (Len(q) + r) - Len(q) = r
        /\ Len(q) + r \in DOMAIN t
    BY <1>1, <1>3
  <2>3. t[Len(q) + r] = k
    BY <1>3, <2>1, <2>2
  <2> QED BY <2>2, <2>3
<1>7. ASSUME NEW a \in DOMAIN q PROVE a \in DOMAIN t /\ t[a] = q[a]
  BY <1>1, <1>3
<1>8. ASSUME NEW a \in DOMAIN t PROVE t[a] \in S \/ (a \in DOMAIN q /\ t[a] = q[a])
  <2>1. a \in 1..Len(q) \/ a \in (Len(q)+1)..(Len(q)+n)
    BY <1>1, <1>3
  <2> QED BY <1>3, <1>4, <2>1
<1>9. \A k : (\E a \in DOMAIN t : t[a] = k) <=> (\E a \in DOMAIN q : q[a] = k) \/ k \in S
  BY <1>6, <1>7, <1>8
<1> QED BY <1>1, <1>3, <1>5, <1>9 DEF Increasing

LEMMA Reads ==
    ASSUME SessionsInv, ListenersInv, NEW i \in Instances, Read(i),
           NEW x, x = sock[i], NEW m, m = Head(wire[sock[i]])
    PROVE  /\ x \in Sockets /\ wire[x] \in Seq(FrameType) /\ wire[x] # <<>>
           /\ m \in FrameType /\ m = wire[x][1] /\ Reach(m) \in DOMAIN log
           /\ wire' = [wire EXCEPT ![x] = Tail(@)]
           /\ cursor' = [cursor EXCEPT ![i] = AtLeast(@, Reach(m))]
           /\ \A j \in Instances \ {i} : emitted'[j] = emitted[j]
           /\ emitted' \in [Instances -> Seq(DOMAIN log)]
           /\ Increasing(emitted'[i])
           /\ \A k : k \in Had(i)' <=> k \in Had(i) \/ k \in News(m, cursor[i])
           /\ \A k : Carries(m, k) => k \in DOMAIN log /\ k <= Reach(m)
<1>1. /\ x \in Sockets /\ wire[x] \in Seq(FrameType) /\ wire[x] # <<>>
      /\ wire' = [wire EXCEPT ![x] = Tail(@)]
  BY DEF Read, ListenersInv, Listening, SessionsInv, Shape
<1>2. m \in FrameType /\ m = wire[x][1] /\ 1 \in DOMAIN wire[x]
  BY <1>1
<1>3. /\ Len(log) \in Nat /\ DOMAIN log = 1..Len(log) /\ cursor \in [Instances -> 0..Len(log)]
      /\ emitted \in [Instances -> Seq(DOMAIN log)] /\ cursor[i] \in Nat
      /\ emitted[i] \in Seq(DOMAIN log)
  BY DEF SessionsInv, Shape, ListenersInv, Listening
<1>4. /\ Increasing(emitted[i]) /\ emitted[i] \in Seq(Nat)
      /\ \A a \in DOMAIN emitted[i] : emitted[i][a] <= cursor[i] /\ emitted[i][a] \in DOMAIN log
  <2>1. Increasing(emitted[i])
    BY DEF ListenersInv, EmittedOnce, Increasing
  <2>2. \A a \in DOMAIN emitted[i] : emitted[i][a] <= cursor[i]
    BY DEF ListenersInv, Below
  <2>3. DOMAIN log \subseteq Nat
    BY <1>3
  <2>4. emitted[i] \in Seq(Nat)
    BY <1>3, <2>3
  <2> QED BY <1>3, <2>1, <2>2, <2>4
<1>5. \A k : k \in Had(i) <=> \E a \in DOMAIN emitted[i] : emitted[i][a] = k
  BY DEF Had
<1>6. \A k : k \in Had(i)' <=> \E a \in DOMAIN emitted'[i] : emitted'[i][a] = k
  BY DEF Had
<1>7. CASE m.type = "event"
  <2>1. m.seq \in DOMAIN log /\ Reach(m) = m.seq /\ \A k : Carries(m, k) <=> k = m.seq
    BY <1>2, <1>7 DEF FrameType, Reach, Carries
  <2>2. ApplyFrame(i, m.seq)
    BY <1>7 DEF Read
  <2>3. m.seq \in Nat /\ \A k : Carries(m, k) => k <= Reach(m)
    BY <1>3, <2>1
  <2>4. CASE m.seq <= cursor[i]
    <3>1. emitted' = emitted /\ cursor' = cursor
      BY <2>2, <2>4 DEF ApplyFrame
    <3>2. cursor' = [cursor EXCEPT ![i] = AtLeast(@, Reach(m))]
      BY <1>3, <2>1, <2>3, <2>4, <3>1 DEF AtLeast
    <3>3. News(m, cursor[i]) = {}
      BY <1>3, <2>1, <2>3, <2>4 DEF News
    <3>4. /\ Increasing(emitted'[i]) /\ emitted' \in [Instances -> Seq(DOMAIN log)]
          /\ \A j \in Instances \ {i} : emitted'[j] = emitted[j]
      BY <1>3, <1>4, <3>1
    <3>5. \A k : k \in Had(i)' <=> k \in Had(i) \/ k \in News(m, cursor[i])
      BY <1>5, <1>6, <3>1, <3>3
    <3>6. \A k : Carries(m, k) => k \in DOMAIN log /\ k <= Reach(m)
      BY <2>1, <2>3
    <3> QED BY <1>1, <1>2, <2>1, <3>2, <3>4, <3>5, <3>6
  <2>5. CASE ~(m.seq <= cursor[i])
    <3>1. emitted' = [emitted EXCEPT ![i] = Append(@, m.seq)] /\ cursor' = [cursor EXCEPT ![i] = m.seq]
      BY <2>2, <2>5 DEF ApplyFrame
    <3>2. cursor' = [cursor EXCEPT ![i] = AtLeast(@, Reach(m))]
      BY <1>3, <2>1, <2>3, <2>5, <3>1 DEF AtLeast
    <3>3. \A k : k \in News(m, cursor[i]) <=> k = m.seq
      BY <1>3, <2>1, <2>3, <2>5 DEF News
    <3> DEFINE q == emitted[i]
    <3>4. emitted'[i] = Append(q, m.seq) /\ Append(q, m.seq) \in Seq(DOMAIN log)
      BY <1>3, <2>1, <3>1
    <3>5. /\ Len(q) \in Nat /\ DOMAIN q = 1..Len(q) /\ DOMAIN emitted'[i] = 1..(Len(q)+1)
          /\ emitted'[i][Len(q)+1] = m.seq /\ Len(q)+1 \in DOMAIN emitted'[i]
          /\ \A a \in 1..Len(q) : emitted'[i][a] = q[a] /\ a \in DOMAIN emitted'[i]
          /\ \A a \in DOMAIN emitted'[i] : a \in 1..Len(q) \/ a = Len(q)+1
      BY <1>3, <3>4
    <3>6. ASSUME NEW a \in DOMAIN emitted'[i], NEW b \in DOMAIN emitted'[i], a < b
          PROVE  emitted'[i][a] < emitted'[i][b]
      <4>1. a \in 1..Len(q)
        BY <3>5, <3>6
      <4>2. CASE b \in 1..Len(q)
        BY <1>4, <3>5, <3>6, <4>1, <4>2 DEF Increasing
      <4>3. CASE b = Len(q)+1
        <5>1. emitted'[i][a] = q[a] /\ q[a] <= cursor[i] /\ q[a] \in Nat /\ emitted'[i][b] = m.seq
          BY <1>3, <1>4, <3>5, <4>1, <4>3
        <5> QED BY <1>3, <2>3, <2>5, <5>1
      <4> QED BY <3>5, <4>2, <4>3
    <3>7. Increasing(emitted'[i])
      BY <3>6 DEF Increasing
    <3>8. \A k : (\E a \in DOMAIN emitted'[i] : emitted'[i][a] = k)
                 <=> (\E a \in DOMAIN q : q[a] = k) \/ k = m.seq
      BY <3>5
    <3>9. /\ emitted' \in [Instances -> Seq(DOMAIN log)]
          /\ \A j \in Instances \ {i} : emitted'[j] = emitted[j]
      BY <1>3, <3>1, <3>4
    <3> QED BY <1>1, <1>2, <1>5, <1>6, <2>1, <2>3, <3>2, <3>3, <3>7, <3>8, <3>9
  <2> QED BY <2>4, <2>5
<1>8. CASE m.type # "event"
  <2>1. m.type \in {"ok", "resync_required"} /\ m.cursor \in DOMAIN log /\ m.seqs \subseteq DOMAIN log
    BY <1>2, <1>8 DEF FrameType
  <2>2. Reach(m) = m.cursor /\ (\A k : Carries(m, k) <=> k \in m.seqs)
    BY <1>8 DEF Reach, Carries
  <2>3. ApplyReply(i, m)
    BY <1>8 DEF Read
  <2>4. ReplyOk(cursor[i], m)
    BY <1>1, <1>2, <1>8 DEF ListenersInv, ReplyFirst, Read
  <2>5. \A k : Carries(m, k) => k \in DOMAIN log /\ k <= Reach(m)
    BY <2>1, <2>2, <2>4 DEF ReplyOk
  <2> DEFINE new == IF m.type = "ok" THEN {k \in m.seqs : k > cursor[i]} ELSE m.seqs
  <2>6. new = News(m, cursor[i])
    <3>1. CASE m.type = "ok"
      BY <2>1, <2>2, <3>1 DEF News
    <3>2. CASE m.type # "ok"
      BY <2>1, <2>2, <2>4, <3>2 DEF News, ReplyOk
    <3> QED BY <3>1, <3>2
  <2>7. /\ emitted' = [emitted EXCEPT ![i] = InOrder(@, new)]
        /\ cursor' = [cursor EXCEPT ![i] = AtLeast(@, m.cursor)]
    BY <2>3 DEF ApplyReply
  <2> HIDE DEF new
  <2>8. new \subseteq DOMAIN log /\ \A k \in new : k > cursor[i]
    BY <2>6 DEF News
  <2>9. new \subseteq Nat /\ IsFiniteSet(new)
    <3>1. IsFiniteSet(1..Len(log))
      BY <1>3, FS_Interval
    <3> QED BY <1>3, <2>8, <3>1, FS_Subset
  <2> DEFINE q == emitted[i]
             t == InOrder(q, new)
  <2>10. /\ t \in Seq(Nat) /\ Increasing(t)
         /\ \A k : (\E a \in DOMAIN t : t[a] = k) <=> (\E a \in DOMAIN q : q[a] = k) \/ k \in new
    <3>1. \A a \in DOMAIN q : q[a] <= cursor[i]
      BY <1>4
    <3>2. q \in Seq(Nat) /\ Increasing(q) /\ cursor[i] \in Nat
      BY <1>3, <1>4
    <3> HIDE DEF q
    <3> QED BY <2>8, <2>9, <3>1, <3>2, Joined
  <2>11. emitted'[i] = t /\ \A j \in Instances \ {i} : emitted'[j] = emitted[j]
    BY <1>3, <2>7
  <2> HIDE DEF t
  <2>12. t \in Seq(DOMAIN log)
    <3>1. \A a \in DOMAIN t : t[a] \in DOMAIN log
      BY <1>4, <2>8, <2>10
    <3>2. Len(t) \in Nat /\ DOMAIN t = 1..Len(t) /\ t = [a \in 1..Len(t) |-> t[a]]
      BY <2>10
    <3> QED BY <3>1, <3>2
  <2>13. emitted' \in [Instances -> Seq(DOMAIN log)]
    BY <1>3, <2>7, <2>11, <2>12
  <2>14. Increasing(emitted'[i])
    BY <2>10, <2>11
  <2>15. \A k : k \in Had(i)' <=> k \in Had(i) \/ k \in News(m, cursor[i])
    BY <1>5, <1>6, <2>6, <2>10, <2>11
  <2>16. cursor' = [cursor EXCEPT ![i] = AtLeast(@, Reach(m))] /\ Reach(m) \in DOMAIN log
    BY <2>1, <2>2, <2>7
  <2> QED BY <1>1, <1>2, <2>5, <2>11, <2>13, <2>14, <2>15, <2>16
<1> QED BY <1>7, <1>8

LEMMA ReadKeeps ==
    ASSUME SessionsInv, ListenersInv, NEW i \in Instances, Read(i)
    PROVE  SessionsInv' /\ ListenersInv'
<1> DEFINE x == sock[i]
           m == Head(wire[sock[i]])
<1>1. /\ x \in Sockets /\ wire[x] \in Seq(FrameType) /\ wire[x] # <<>>
      /\ wire' = [wire EXCEPT ![x] = Tail(@)] /\ Reach(m) \in DOMAIN log
      /\ cursor' = [cursor EXCEPT ![i] = AtLeast(@, Reach(m))]
      /\ \A j \in Instances \ {i} : emitted'[j] = emitted[j]
      /\ emitted' \in [Instances -> Seq(DOMAIN log)]
      /\ Increasing(emitted'[i])
      /\ \A k : k \in Had(i)' <=> k \in Had(i) \/ k \in News(m, cursor[i])
      /\ \A k : Carries(m, k) => k \in DOMAIN log /\ k <= Reach(m)
  BY Reads
<1> HIDE DEF m
<1>2. UNCHANGED <<registry, conns, groups, log, boundary, task, open, running, sock>>
  BY DEF Read
<1>3. /\ Shape /\ Len(log) \in Nat /\ DOMAIN log = 1..Len(log)
      /\ cursor \in [Instances -> 0..Len(log)] /\ wire \in [Sockets -> Seq(FrameType)]
  BY DEF SessionsInv, Shape, ListenersInv, Listening
<1>4. Tail(wire[x]) \in Seq(FrameType) /\ FrameType' = FrameType
  BY <1>1, <1>2 DEF FrameType
<1>5. SessionsInv'
  <2>1. Shape'
    BY <1>1, <1>2, <1>3, <1>4 DEF Shape
  <2>2. Referring' /\ Placed' /\ Dated' /\ NothingAfterTakeover'
    BY <1>2 DEF SessionsInv, Referring, Placed, Dated, NothingAfterTakeover, Deeds, Entered
  <2>3. Told'
    BY <1>2 DEF SessionsInv, Told, Announced, NoticeOnce, OwedOnce, OwedBy, Owing, Deeds, Takeovers
  <2>4. \A h \in Sockets : Target(h)' = Target(h)
    BY <1>2 DEF Target
  <2>5. Condemned'
    BY <1>2, <2>4 DEF SessionsInv, Condemned
  <2> QED BY <2>1, <2>2, <2>3, <2>5 DEF SessionsInv
<1>6. /\ cursor' \in [Instances -> 0..Len(log)] /\ cursor[i] <= cursor'[i] /\ Reach(m) <= cursor'[i]
      /\ \A j \in Instances \ {i} : cursor'[j] = cursor[j]
  BY <1>1, <1>3 DEF AtLeast
<1>7. Listening' /\ Dialled'
  BY <1>1, <1>2, <1>6 DEF ListenersInv, Listening, Dialled
<1>8. \A y \in Sockets : wire'[y] = IF y = x THEN Tail(wire[x]) ELSE wire[y]
  BY <1>1, <1>3
<1>9. ~Unserved(x) /\ task[x].pc \notin Before
  BY <1>1 DEF ListenersInv, Unrouted, Unserved
<1>10. Unrouted'
  BY <1>2, <1>8, <1>9 DEF ListenersInv, Unrouted, Unserved
<1>11. Asked'
  <2> SUFFICES ASSUME NEW j \in Instances, sock[j] # None, task[sock[j]].pc \in Before
               PROVE  task[sock[j]].since = cursor'[j]
    BY <1>2 DEF Asked
  <2>1. j # i
    BY <1>9
  <2> QED BY <1>6, <2>1 DEF ListenersInv, Asked
<1>12. ReplyFirst'
  <2> SUFFICES ASSUME NEW j \in Instances, sock[j] # None, NEW q \in DOMAIN wire'[sock[j]],
                      wire'[sock[j]][q].type # "event"
               PROVE  q = 1 /\ ReplyOk(cursor'[j], wire'[sock[j]][q])
    BY <1>2 DEF ReplyFirst
  <2>1. CASE j = i
    <3>1. wire'[x] = Tail(wire[x]) /\ q \in DOMAIN Tail(wire[x])
      BY <1>1, <1>8, <2>1
    <3>2. /\ q + 1 \in DOMAIN wire[x] /\ q + 1 # 1
          /\ Tail(wire[x])[q] = wire[x][q + 1]
      BY <1>1, <3>1
    <3>3. wire[x][q + 1].type # "event"
      BY <2>1, <3>1, <3>2
    <3> QED BY <1>1, <2>1, <3>2, <3>3, SessionsAssumption DEF ListenersInv, ReplyFirst, Sockets
  <2>2. CASE j # i
    <3>1. sock[j] # x /\ sock[j] \in Sockets
      BY <2>2, SessionsAssumption, <1>1 DEF ListenersInv, Dialled, Listening, Sockets
    <3> QED BY <1>6, <1>8, <2>2, <3>1 DEF ListenersInv, ReplyFirst
  <2> QED BY <2>1, <2>2
<1>13. ASSUME NEW j \in Instances
       PROVE  /\ \A r \in DOMAIN emitted'[j] : emitted'[j][r] <= cursor'[j]
              /\ Increasing(emitted'[j])
  <2>1. CASE j # i
    BY <1>1, <1>6, <2>1 DEF ListenersInv, Below, EmittedOnce, Increasing
  <2>2. CASE j = i
    <3>1. ASSUME NEW r \in DOMAIN emitted'[i] PROVE emitted'[i][r] <= cursor'[i]
      <4> DEFINE k == emitted'[i][r]
      <4>1. k \in Had(i)'
        BY DEF Had
      <4> HIDE DEF k
      <4>2. CASE k \in Had(i)
        <5>1. PICK p \in DOMAIN emitted[i] : emitted[i][p] = k
          BY <4>2 DEF Had
        <5>2. k <= cursor[i] /\ emitted[i] \in Seq(DOMAIN log)
          BY <5>1 DEF ListenersInv, Below, Listening
        <5>3. k \in DOMAIN log
          BY <5>1, <5>2
        <5> QED BY <1>3, <1>6, <5>2, <5>3 DEF k
      <4>3. CASE k \in News(m, cursor[i])
        BY <1>1, <1>3, <1>6, <4>3 DEF News, k
      <4> QED BY <1>1, <4>1, <4>2, <4>3
    <3> QED BY <1>1, <2>2, <3>1
  <2> QED BY <2>1, <2>2
<1>14. Below' /\ EmittedOnce'
  BY <1>13 DEF Below, EmittedOnce, Increasing
<1> QED BY <1>5, <1>7, <1>10, <1>11, <1>12, <1>14 DEF ListenersInv

LEMMA ReconnectKeeps ==
    ASSUME SessionsInv, ListenersInv, NEW i \in Instances, Reconnect(i)
    PROVE  SessionsInv' /\ ListenersInv'
<1>1. /\ UNCHANGED <<registry, conns, groups, log, boundary, task, open, wire, running>>
      /\ cursor' = cursor /\ emitted' = emitted /\ sock' = [sock EXCEPT ![i] = None]
  BY DEF Reconnect, vars
<1>2. SessionsInv'
  BY <1>1, StepKeeps DEF vars
<1>3. sock \in [Instances -> Sockets \cup {None}]
  BY DEF ListenersInv, Listening
<1>4. \A j \in Instances : sock'[j] # None => sock'[j] = sock[j]
  BY <1>1, <1>3
<1>5. Listening' /\ Dialled'
  BY <1>1, <1>3, <1>4 DEF ListenersInv, Listening, Dialled
<1>6. Unrouted' /\ Asked' /\ Below' /\ EmittedOnce'
  BY <1>1, <1>4 DEF ListenersInv, Unrouted, Unserved, Asked, Below, EmittedOnce
<1>7. ReplyFirst'
  BY <1>1, <1>4 DEF ListenersInv, ReplyFirst
<1> QED BY <1>2, <1>5, <1>6, <1>7 DEF ListenersInv

-----------------------------------------------------------------------------
(* The listeners' invariant. *)

LEMMA ListenersInit == ASSUME DInit PROVE SessionsInv /\ ListenersInv
<1>1. SessionsInv
  BY InitHolds DEF DInit
<1>2. /\ sock = [i \in Instances |-> None] /\ cursor = [i \in Instances |-> 0]
      /\ emitted = [i \in Instances |-> <<>>] /\ log = <<>>
      /\ wire = [s \in Sockets |-> <<>>] /\ conns = [n \in Nicks |-> {}]
      /\ \A s \in Sockets : task[s] = NoTask
  BY DEF DInit, Init
<1>3. Listening /\ Dialled /\ Asked /\ ReplyFirst /\ Below /\ EmittedOnce
  <2>1. Len(log) = 0 /\ <<>> \in Seq(DOMAIN log) /\ DOMAIN <<>> = {}
    BY <1>2
  <2> QED BY <1>2, <2>1 DEF Listening, Dialled, Asked, ReplyFirst, Below, EmittedOnce
<1>4. Unrouted
  <2>1. NoTask.batch = {}
    BY DEF NoTask
  <2> QED BY <1>2, <2>1 DEF Unrouted, Unserved
<1> QED BY <1>1, <1>3, <1>4 DEF ListenersInv

LEMMA ListenersStep ==
    ASSUME SessionsInv, ListenersInv, [DNext]_allvars PROVE SessionsInv' /\ ListenersInv'
<1>1. \A i \in Instances : NickOf[i] \in Nicks /\ cursor[i] \in Nat
  BY DeliveryAssumption DEF ListenersInv, Listening, SessionsInv, Shape
<1>2. CASE UNCHANGED allvars
  <2>1. /\ UNCHANGED <<registry, conns, groups, log, boundary, task, open, wire, running>>
        /\ UNCHANGED <<sock, cursor, emitted>>
    BY <1>2 DEF allvars, vars, clients
  <2>2. SessionsInv'
    BY <2>1, StepKeeps DEF vars
  <2>3. Listening' /\ Dialled' /\ Unrouted' /\ Asked' /\ ReplyFirst' /\ Below' /\ EmittedOnce'
    BY <2>1 DEF ListenersInv, Listening, Dialled, Unrouted, Unserved, Asked, ReplyFirst, Below, EmittedOnce
  <2> QED BY <2>2, <2>3 DEF ListenersInv
<1>3. ASSUME NEW i \in Instances, NEW s \in Sockets, Dial(i, s) PROVE SessionsInv' /\ ListenersInv'
  <2>1. SessionsInv'
    BY <1>1, <1>3, StepHelloFrame DEF Dial
  <2> QED BY <1>3, <2>1, DialKeeps
<1>4. ASSUME NEW i \in Instances, Read(i) PROVE SessionsInv' /\ ListenersInv'
  BY <1>4, ReadKeeps
<1>5. ASSUME NEW i \in Instances, Reconnect(i) PROVE SessionsInv' /\ ListenersInv'
  BY <1>5, ReconnectKeeps
<1>6. ASSUME NEW s \in Sockets, Frame(s), UNCHANGED clients PROVE SessionsInv' /\ ListenersInv'
  <2>1. SessionsInv'
    BY <1>6, StepStaleFrame, StepChat, StepNotice, StepMembershipSet, StepKick DEF Frame
  <2> QED BY <1>6, <2>1, FrameMoves, HubKeeps
<1>7. ASSUME NEW s \in Sockets, Handler(s), UNCHANGED clients PROVE SessionsInv' /\ ListenersInv'
  <2>1. SessionsInv'
    BY <1>7, StepCloseOne, StepAnnounce, StepEnter, StepStartCatchUp, StepCatchUp, StepEndCatchUp,
       StepRoute, StepSpread, StepEndSpread, StepEject, StepEndEviction, StepLeave DEF Handler
  <2>2. CASE Enter(s)
    BY <1>7, <2>1, <2>2, EnterKeeps
  <2>3. CASE ~Enter(s)
    <3>1. HubMove(s)
      BY <1>7, <2>3, HandlerMoves DEF ListenersInv
    <3> QED BY <1>7, <2>1, <3>1, HubKeeps
  <2> QED BY <2>1, <2>2, <2>3
<1>8. ASSUME NEW s \in Sockets, Disconnect(s), UNCHANGED clients PROVE SessionsInv' /\ ListenersInv'
  <2>1. SessionsInv'
    BY <1>8, StepDisconnect
  <2> QED BY <1>8, <2>1, DisconnectMoves, HubKeeps
<1> QED BY <1>2, <1>3, <1>4, <1>5, <1>6, <1>7, <1>8 DEF DNext

\* The inductive invariant of the listeners, beside that of the hub: it needs
\* nothing of the hub's scheduling, of its snapshots or of the chats' recipients.
THEOREM ListenersInvariant == DSpec => [](SessionsInv /\ ListenersInv)
<1>1. DInit => SessionsInv /\ ListenersInv
  BY ListenersInit
<1>2. SessionsInv /\ ListenersInv /\ [DNext]_allvars => SessionsInv' /\ ListenersInv'
  BY ListenersStep
<1> QED BY <1>1, <1>2, PTL DEF DSpec

\* A listener's connection, cursor and what it has shown keep their types; no
\* cursor is ever beyond the log of the hub.
THEOREM ListenersTyped == DSpec => []DTypeOK
<1>1. SessionsInv /\ ListenersInv => DTypeOK
  BY DEF ListenersInv, Listening, DTypeOK
<1> QED BY <1>1, ListenersInvariant, PTL

\* No listener shows its agent a frame twice, whatever is sent again after a
\* reconnect, in a resync or by a catch-up that overtakes a live frame: client.py
\* skips what is not above its cursor, and nothing sends a resync twice.
THEOREM FramesOnce == DSpec => []EmittedOnce
<1>1. ListenersInv => EmittedOnce
  BY DEF ListenersInv
<1> QED BY <1>1, ListenersInvariant, PTL

-----------------------------------------------------------------------------
(* While no send suspends, no snapshot falls between a hello and its        *)
(* catch-up, and no chat names somebody who does not exist: what a handler  *)
(* does between two awaits that suspend it is one piece.                    *)

Calm == SendsYield = FALSE /\ Compaction # "always" /\ Misspells \subseteq {FALSE}

Resting == {"new", "closing", "evicting", "loop", "done"}
Atomic == \A h \in Sockets : task[h].pc \notin Resting => running = h

Spreads == {"announcing", "publishing", "condemning"}
Batched ==
    /\ \A n \in Nicks : \A x \in conns[n] : task[x].nick = n /\ task[x].pc # "done"
    /\ \A x \in Sockets : task[x].pc \in {"replying", "catching"} => x \in conns[task[x].nick]
    /\ \A h \in Sockets : \A x \in task[h].batch :
         task[h].pc \in Spreads /\ \E n \in Nicks : x \in conns[n]

\* The log still goes back to the hello of a handler that has promised so.
Fresh ==
    \A x \in Sockets : task[x].pc \in Before \ {"new"} =>
        /\ task[x].resync \/ boundary <= task[x].end
        /\ log[task[x].end].type = "hello"

\* Whatever a message would move the cursor past, it or one before it carries.
OnWire(x, k) == \E j \in DOMAIN wire[x] : Carries(wire[x][j], k)
Ordered(i) ==
    sock[i] # None =>
        \A j \in DOMAIN wire[sock[i]] : \A k \in MeantFor(i) \ Had(i) :
            k <= Reach(wire[sock[i]][j]) => \E q \in 1..j : Carries(wire[sock[i]][q], k)

\* What a connected listener has not had is on the wire, or its own handler is about
\* to send it, or the handler that logged it is.
Coming(x, k) ==
    \/ task[x].pc = "replying" /\ k \in Missed(task[x])
    \/ task[x].pc = "catching" /\ k \in task[x].queue
Pending(i, h, k) ==
    /\ task[h].seq = k
    /\ \/ task[h].pc = "routing"
       \/ task[h].pc = "publishing" /\ (sock[i] \in task[h].batch \/ NickOf[i] \in task[h].audience)
Hearing(i) ==
    sock[i] # None /\ open[sock[i]] /\ sock[i] \in conns[NickOf[i]] /\ NickOf[i] \in Listened
Reached(i, k) ==
    \/ k \in Had(i) \/ OnWire(sock[i], k) \/ Coming(sock[i], k)
    \/ \E h \in Sockets : Pending(i, h, k)
UpToDate(i) == Hearing(i) => \A k \in MeantFor(i) : Reached(i, k)
Kept(i) == \A k \in MeantFor(i) : k <= cursor[i] => k \in Had(i)

Served(i) == Ordered(i) /\ UpToDate(i) /\ Kept(i)
CalmInv == Atomic /\ Batched /\ Fresh /\ \A i \in Instances : Served(i)

\* When it is one handler's turn, no other has anything in hand.
LEMMA Alone ==
    ASSUME Atomic, Batched, NEW s \in Sockets, Turn(s), NEW x \in Sockets, x # s
    PROVE  /\ task[x].pc \in Resting /\ task[x].batch = {}
           /\ \A k : ~Coming(x, k)
           /\ \A i, k : ~Pending(i, x, k)
<1>1. task[x].pc \in Resting
  BY SessionsAssumption DEF Atomic, Turn, Sockets
<1>2. task[x].batch = {}
  BY <1>1 DEF Batched, Resting, Spreads
<1> QED BY <1>1, <1>2 DEF Coming, Pending, Resting

\* What a step of the handler of s may do to the listener at x.
FlowAt(s, x) ==
    /\ \A h \in Sockets \ {s} : task'[h] = task[h]
    /\ open'[x] => open[x]
    /\ \A n \in Nicks : x \in conns'[n] => x \in conns[n]
    /\ Extends

\* A message sent to x comes in its turn.
SentAt(s, x) ==
    wire'[x] = wire[x] \/ (wire'[x] = <<>> /\ ~open'[x]) \/
    \E k \in DOMAIN log :
        /\ wire'[x] = Append(wire[x], [type |-> "event", seq |-> k])
        /\ open[x] /\ task[x].nick \in Listened /\ \E n \in Nicks : x \in conns[n]
        /\ x = s => \A l : Coming(s, l) => k <= l
        /\ task[s].pc # "routing" /\ (task[s].pc = "publishing" => task[s].seq = k)

\* What the handler of s has in hand for listener i stays in hand or is sent.
KeepsFor(s, i) ==
    Hearing(i) => \A k \in MeantFor(i) :
        (sock[i] = s /\ Coming(s, k)) \/ Pending(i, s, k) =>
            (sock[i] = s /\ Coming(s, k)') \/ Pending(i, s, k)' \/ OnWire(sock[i], k)'

\* A chat that is new in the log is about to be routed.
Routes(s) ==
    \A k \in DOMAIN log' \ DOMAIN log :
        log'[k].type = "chat" => task'[s].pc = "routing" /\ task'[s].seq = k

LEMMA MeantKept ==
    ASSUME Shape, Extends, NEW i \in Instances, NEW k \in DOMAIN log
    PROVE  k \in MeantFor(i)' <=> k \in MeantFor(i)
BY LogExtends DEF MeantFor

LEMMA ReachBound ==
    ASSUME Shape, NEW x \in Sockets, NEW j \in DOMAIN wire[x]
    PROVE  Reach(wire[x][j]) \in DOMAIN log
<1>1. wire[x] \in Seq(FrameType)
  BY DEF Shape
<1>2. wire[x][j] \in FrameType
  BY <1>1
<1> QED BY <1>2 DEF FrameType, Reach

LEMMA Serves ==
    ASSUME SessionsInv, ListenersInv, Atomic, Batched, NEW i \in Instances, Served(i),
           NEW s \in Sockets, Turn(s),
           sock'[i] = sock[i], cursor'[i] = cursor[i], emitted'[i] = emitted[i],
           sock[i] # None => FlowAt(s, sock[i]) /\ SentAt(s, sock[i]),
           Extends, Routes(s), KeepsFor(s, i)
    PROVE  Served(i)'
<1>1. /\ Shape /\ sock[i] \in Sockets \cup {None} /\ cursor[i] \in 0..Len(log)
  BY DEF SessionsInv, ListenersInv, Listening
<1>2. /\ Len(log) \in Nat /\ Len(log') \in Nat /\ DOMAIN log = 1..Len(log)
      /\ DOMAIN log' = 1..Len(log') /\ Had(i)' = Had(i)
  BY <1>1, LogExtends DEF Had
<1>3. \A k \in DOMAIN log : k \in MeantFor(i)' <=> k \in MeantFor(i)
  BY <1>1, MeantKept
<1>4. \A k \in MeantFor(i)' : k \in DOMAIN log'
  BY DEF MeantFor
<1>5. Kept(i)'
  <2> SUFFICES ASSUME NEW k \in MeantFor(i)', k <= cursor[i] PROVE k \in Had(i)'
    BY DEF Kept
  <2>1. k \in DOMAIN log
    BY <1>1, <1>2, <1>4
  <2> QED BY <1>2, <1>3, <2>1 DEF Served, Kept
<1>6. Ordered(i)'
  <2> DEFINE x == sock[i]
  <2> SUFFICES ASSUME sock[i] # None, NEW j \in DOMAIN wire'[x], NEW k \in MeantFor(i)', k \notin Had(i),
                      k <= Reach(wire'[x][j])
               PROVE  \E q \in 1..j : Carries(wire'[x][q], k)
    <3>1. \A m : Reach(m)' = Reach(m)
      BY DEF Reach
    <3>2. \A m, k : Carries(m, k)' <=> Carries(m, k)
      BY DEF Carries
    <3> QED BY <1>2, <3>1, <3>2 DEF Ordered, Reach, Carries
  <2>1. x \in Sockets /\ wire[x] \in Seq(FrameType) /\ FlowAt(s, x) /\ SentAt(s, x)
    BY <1>1 DEF Shape, FlowAt
  <2>2. ASSUME NEW y, y \in DOMAIN wire[x], k <= Reach(wire[x][y])
        PROVE  k \in MeantFor(i) /\ \E q \in 1..y : Carries(wire[x][q], k)
    <3>1. Reach(wire[x][y]) \in DOMAIN log
      BY <1>1, <2>1, <2>2, ReachBound
    <3>2. k \in DOMAIN log
      BY <1>2, <1>4, <2>2, <3>1
    <3> QED BY <1>3, <2>2, <3>2 DEF Served, Ordered
  <2>3. CASE wire'[x] = wire[x]
    BY <2>2, <2>3
  <2>4. CASE wire'[x] = <<>>
    BY <2>4
  <2>5. ASSUME NEW r \in DOMAIN log, wire'[x] = Append(wire[x], [type |-> "event", seq |-> r]),
               open[x], task[x].nick \in Listened, \E n \in Nicks : x \in conns[n],
               x = s => \A l : Coming(s, l) => r <= l,
               task[s].pc # "routing", task[s].pc = "publishing" => task[s].seq = r
        PROVE  \E q \in 1..j : Carries(wire'[x][q], k)
    <3>2. /\ Len(wire[x]) \in Nat /\ DOMAIN wire[x] = 1..Len(wire[x])
          /\ DOMAIN wire'[x] = 1..(Len(wire[x])+1)
          /\ \A q \in 1..Len(wire[x]) : wire'[x][q] = wire[x][q]
          /\ wire'[x][Len(wire[x])+1] = [type |-> "event", seq |-> r]
      BY <2>1, <2>5
    <3>3. CASE j \in 1..Len(wire[x])
      <4>1. PICK q \in 1..j : Carries(wire[x][q], k)
        BY <2>2, <3>2, <3>3
      <4>2. q \in 1..Len(wire[x])
        BY <3>2, <3>3
      <4> QED BY <3>2, <4>1, <4>2
    <3>4. CASE j = Len(wire[x]) + 1
      <4>1. wire'[x][j] = [type |-> "event", seq |-> r] /\ k <= r
        BY <3>2, <3>4 DEF Reach
      <4>2. k \in DOMAIN log
        BY <1>2, <1>4, <4>1
      <4>3. k \in MeantFor(i)
        BY <1>3, <4>2
      <4>4. Hearing(i)
        BY <2>1, <2>5 DEF Hearing, Batched, ListenersInv, Dialled
      <4>5. Reached(i, k)
        BY <4>3, <4>4 DEF Served, UpToDate
      <4>6. CASE OnWire(x, k)
        <5>1. PICK q \in DOMAIN wire[x] : Carries(wire[x][q], k)
          BY <4>6 DEF OnWire
        <5>2. q \in 1..j /\ wire'[x][q] = wire[x][q]
          BY <3>2, <3>4, <5>1
        <5> QED BY <5>1, <5>2
      <4>7. CASE k = r
        <5>1. j \in 1..j
          BY <3>2, <3>4
        <5>2. Carries(wire'[x][j], k)
          BY <4>1, <4>7 DEF Carries
        <5> QED BY <5>1, <5>2
      <4>8. CASE Coming(x, k)
        <5>1. x = s
          BY <2>1, <4>8, Alone
        <5>2. r <= k
          BY <2>5, <4>8, <5>1
        <5>3. k = r
          BY <1>2, <4>1, <4>2, <5>2
        <5> QED BY <4>7, <5>3
      <4>9. ASSUME NEW h \in Sockets, Pending(i, h, k) PROVE k = r
        <5>1. h = s
          BY <4>9, Alone
        <5> QED BY <2>5, <4>9, <5>1 DEF Pending
      <4> QED BY <4>5, <4>6, <4>7, <4>8, <4>9 DEF Reached
    <3> QED BY <3>2, <3>3, <3>4
  <2> QED BY <2>1, <2>3, <2>4, <2>5 DEF SentAt
<1>7. UpToDate(i)'
  <2> DEFINE x == sock[i]
  <2> SUFFICES ASSUME Hearing(i)', NEW k \in MeantFor(i)' PROVE Reached(i, k)'
    BY DEF UpToDate
  <2>1. x # None /\ open'[x] /\ x \in conns'[NickOf[i]] /\ NickOf[i] \in Listened
    BY DEF Hearing
  <2>2. x \in Sockets /\ wire[x] \in Seq(FrameType) /\ FlowAt(s, x) /\ SentAt(s, x)
    BY <1>1, <2>1 DEF Shape
  <2>3. Hearing(i)
    BY <2>1, <2>2, DeliveryAssumption DEF Hearing, FlowAt
  <2>4. CASE k \notin DOMAIN log
    <3>1. log'[k].type = "chat" /\ k \in DOMAIN log' \ DOMAIN log
      BY <2>4 DEF MeantFor
    <3>2. Pending(i, s, k)'
      BY <3>1 DEF Routes, Pending
    <3> QED BY <3>2 DEF Reached
  <2>5. CASE k \in DOMAIN log
    <3>1. Reached(i, k)
      BY <1>3, <2>3, <2>5 DEF Served, UpToDate
    <3>2. CASE k \in Had(i)
      BY <1>2, <3>2 DEF Reached
    <3>3. CASE OnWire(x, k)
      <4>1. PICK q \in DOMAIN wire[x] : Carries(wire[x][q], k)
        BY <3>3 DEF OnWire
      <4>2. q \in DOMAIN wire'[x] /\ wire'[x][q] = wire[x][q]
        <5>1. wire'[x] = wire[x] \/ \E r : wire'[x] = Append(wire[x], [type |-> "event", seq |-> r])
          BY <2>1, <2>2 DEF SentAt
        <5>2. CASE wire'[x] = wire[x]
          BY <4>1, <5>2
        <5>3. ASSUME NEW r, wire'[x] = Append(wire[x], [type |-> "event", seq |-> r])
              PROVE  q \in DOMAIN wire'[x] /\ wire'[x][q] = wire[x][q]
          BY <2>2, <4>1, <5>3
        <5> QED BY <5>1, <5>2, <5>3
      <4>3. \E p \in DOMAIN wire'[x] : Carries(wire'[x][p], k)
        BY <4>1, <4>2
      <4>4. OnWire(sock[i], k)'
        BY <4>3 DEF OnWire, Carries
      <4> QED BY <4>4 DEF Reached
    <3>4. CASE Coming(x, k) \/ \E h \in Sockets : Pending(i, h, k)
      <4>1. (x = s /\ Coming(s, k)) \/ Pending(i, s, k)
        BY <2>2, <3>4, Alone
      <4>2. (sock[i] = s /\ Coming(s, k)') \/ Pending(i, s, k)' \/ OnWire(sock[i], k)'
        BY <1>3, <2>3, <2>5, <4>1 DEF KeepsFor
      <4>3. CASE sock[i] = s /\ Coming(s, k)'
        <5>1. Coming(sock[i], k)'
          BY <4>3 DEF Coming
        <5> QED BY <5>1 DEF Reached
      <4> QED BY <4>2, <4>3 DEF Reached
    <3> HIDE DEF x
    <3> QED BY <3>1, <3>2, <3>3, <3>4 DEF Reached, x
  <2> QED BY <2>4, <2>5
<1> QED BY <1>5, <1>6, <1>7 DEF Served

\* A step of the handler of s that lets nobody in, with nothing of another's in hand.
HubServes(s) ==
    /\ HubMove(s) /\ Turn(s)
    /\ task'[s].pc \notin Resting => running' = s
    /\ task'[s].pc = "done" => \A n \in Nicks : s \notin conns'[n]
    /\ task'[s].pc \in {"replying", "catching"} =>
         task[s].pc \in {"replying", "catching"} /\ conns' = conns
    /\ \A x \in task'[s].batch : task'[s].pc \in Spreads /\ \E n \in Nicks : x \in conns'[n]
    /\ \/ boundary' = boundary
       \/ task'[s].pc \notin Before /\ \A x \in Sockets \ {s} : ~Entering(x)
    /\ task'[s].pc \in Before =>
         task'[s].end = task[s].end /\ task'[s].resync = task[s].resync
    /\ \A x \in Sockets : SentAt(s, x)
    /\ Routes(s)
    /\ \A i \in Instances : KeepsFor(s, i)

LEMMA HubCalmKeeps ==
    ASSUME SessionsInv, ListenersInv, CalmInv, NEW s \in Sockets, HubServes(s), UNCHANGED clients
    PROVE  CalmInv'
<1>1. /\ Shape /\ Referring /\ Turn(s) /\ Extends /\ Atomic /\ Batched /\ Fresh
      /\ sock' = sock /\ cursor' = cursor /\ emitted' = emitted
      /\ \A x \in Sockets \ {s} : task'[x] = task[x]
  BY DEF SessionsInv, HubServes, HubMove, CalmInv, clients
<1>2. \A x \in Sockets \ {s} : task[x].pc \in Resting /\ task[x].batch = {}
  BY <1>1, Alone
<1>3. Atomic'
  BY <1>1, <1>2 DEF HubServes, Atomic
<1>4. Batched'
  <2>1. ASSUME NEW n \in Nicks, NEW x \in conns'[n] PROVE task'[x].nick = n /\ task'[x].pc # "done"
    <3>1. x \in conns[n] /\ x \in Sockets
      BY <1>1, <2>1 DEF HubServes, HubMove, Shape
    <3>2. task[x].nick = n /\ task[x].pc # "done"
      BY <1>1, <3>1 DEF Batched
    <3>3. CASE x = s
      BY <2>1, <3>2, <3>3 DEF HubServes, HubMove
    <3> QED BY <1>1, <3>1, <3>2, <3>3
  <2>2. ASSUME NEW x \in Sockets, task'[x].pc \in {"replying", "catching"} PROVE x \in conns'[task'[x].nick]
    <3>1. x = s
      BY <1>1, <1>2, <2>2 DEF Resting
    <3>2. /\ task[s].pc \in {"replying", "catching"} /\ conns' = conns /\ task'[s].nick = task[s].nick
      BY <2>2, <3>1 DEF HubServes, HubMove
    <3> QED BY <1>1, <3>1, <3>2 DEF Batched
  <2>3. ASSUME NEW h \in Sockets, NEW x \in task'[h].batch
        PROVE  task'[h].pc \in Spreads /\ \E n \in Nicks : x \in conns'[n]
    <3>1. h = s
      BY <1>1, <1>2, <2>3
    <3> QED BY <2>3, <3>1 DEF HubServes
  <2> QED BY <2>1, <2>2, <2>3 DEF Batched
<1>5. Fresh'
  <2> SUFFICES ASSUME NEW x \in Sockets, task'[x].pc \in Before \ {"new"}
               PROVE  /\ task'[x].resync \/ boundary' <= task'[x].end
                      /\ log'[task'[x].end].type = "hello"
    BY DEF Fresh
  <2>1. /\ task[x].pc \in Before \ {"new"} /\ task'[x].end = task[x].end
        /\ task'[x].resync = task[x].resync
    <3>1. CASE x = s
      BY <3>1 DEF HubServes, HubMove
    <3>2. CASE x # s
      BY <1>1, <3>2
    <3> QED BY <3>1, <3>2
  <2>2. Entering(x)
    BY <2>1 DEF Entering, Before
  <2>3. boundary' = boundary
    BY <2>2 DEF HubServes
  <2>4. task[x].end \in DOMAIN log
    BY <1>1, <2>1 DEF Referring, Sound, Arriving, Before
  <2>5. log'[task[x].end] = log[task[x].end]
    BY <1>1, <2>4, LogExtends
  <2> QED BY <1>1, <2>1, <2>3, <2>5 DEF Fresh
<1>6. ASSUME NEW i \in Instances PROVE Served(i)'
  <2>1. Served(i) /\ (sock[i] # None => sock[i] \in Sockets)
    BY DEF CalmInv, ListenersInv, Listening
  <2>2. sock[i] # None => FlowAt(s, sock[i]) /\ SentAt(s, sock[i])
    BY <2>1 DEF HubServes, HubMove, FlowAt
  <2>3. Routes(s) /\ KeepsFor(s, i)
    BY DEF HubServes
  <2> QED BY <1>1, <2>1, <2>2, <2>3, Serves
<1> QED BY <1>3, <1>4, <1>5, <1>6 DEF CalmInv

LEMMA EmptyHanded ==
    ASSUME NEW s \in Sockets, task[s].pc \notin {"routing", "publishing", "replying", "catching"}
    PROVE  \A i \in Instances : KeepsFor(s, i)
BY DEF KeepsFor, Coming, Pending

LEMMA QuietMessages == ASSUME wire' = wire PROVE \A s \in Sockets, x \in Sockets : SentAt(s, x)
BY DEF SentAt

LEMMA CalmSnapshot ==
    ASSUME Calm, NEW s \in Sockets, NEW n, MaySnapshot(s, n)
    PROVE  boundary' = boundary \/ \A x \in Sockets \ {s} : ~Entering(x)
BY DEF Calm, MaySnapshot

LEMMA Logs ==
    ASSUME Shape, NEW e \in EventType, log' = Append(log, e), NEW s \in Sockets,
           e.type = "chat" => task'[s].pc = "routing" /\ task'[s].seq = Len(log) + 1
    PROVE  Routes(s)
BY Grown DEF Routes

\* Frames: the handler has nothing in hand yet.
LEMMA FrameServes ==
    ASSUME Calm, SessionsInv, ListenersInv, CalmInv, NEW s \in Sockets, Frame(s)
    PROVE  HubServes(s)
<1>1. /\ Shape /\ task \in [Sockets -> Tasks] /\ task[s] \in Tasks /\ Batched
      /\ SendsYield = FALSE /\ HubMove(s)
  <2>1. Shape /\ Batched /\ SendsYield = FALSE
    BY DEF SessionsInv, CalmInv, Calm
  <2>2. task \in [Sockets -> Tasks]
    BY <2>1 DEF Shape
  <2>3. HubMove(s)
    BY FrameMoves
  <2> QED BY <2>1, <2>2, <2>3
<1>2. UNCHANGED <<conns, open, wire>> /\ task[s].pc = "loop" /\ Turn(s)
  BY DEF Frame, StaleFrame, Chat, Notice, MembershipSet, Kick, MayAct
<1>3. task[s].nick \in Nicks /\ task[s].gen \in Nat /\ task[s].batch = {}
  BY <1>1, <1>2 DEF SessionsInv, Placed, Entered, Shape, Tasks, Batched, Spreads
<1>4. /\ \A x \in Sockets : SentAt(s, x)
      /\ \A i \in Instances : KeepsFor(s, i)
  BY <1>2, QuietMessages, EmptyHanded
<1>5. ASSUME task'[s].pc \in {"leaving", "warning", "routing", "condemning"}, running' = s,
             task'[s].batch = {}, boundary' = boundary \/ \A x \in Sockets \ {s} : ~Entering(x),
             Routes(s)
      PROVE  HubServes(s)
  BY <1>1, <1>2, <1>4, <1>5 DEF HubServes, Before
<1>6. ASSUME NEW type \in {"fyi", "status", "membership_set", "kick"},
             NEW to \in SUBSET (Nicks \cup Groups), log' = Append(log, Event(type, s, to))
      PROVE  Routes(s)
  <2>1. Event(type, s, to) \in EventType /\ Event(type, s, to).type # "chat"
    BY <1>3 DEF Event, EventType
  <2> QED BY <1>1, <1>6, <2>1, Logs
<1>7. CASE StaleFrame(s)
  <2>1. Routes(s) /\ boundary' = boundary
    BY <1>7 DEF StaleFrame, Routes
  <2>2. running' = s /\ task'[s].pc = "leaving" /\ task'[s].batch = {}
    BY <1>1, <1>3, <1>7 DEF StaleFrame, AwaitSend, Tasks
  <2> QED BY <1>5, <2>1, <2>2
<1>8. ASSUME NEW to \in MentionSets, NEW misspelt \in Misspells, Chat(s, to, misspelt)
      PROVE  HubServes(s)
  <2>1. to \in SUBSET (Nicks \cup Groups) /\ misspelt = FALSE
    BY SessionsAssumption DEF Calm
  <2>2. /\ task' = [task EXCEPT ![s].pc = "routing", ![s].seq = Len(log) + 1, ![s].doomed = {}]
        /\ running' = s /\ log' = Append(log, Event("chat", s, to))
    BY <1>8, <2>1 DEF Chat, RunOn
  <2>3. task'[s].pc = "routing" /\ task'[s].batch = {} /\ task'[s].seq = Len(log) + 1
    BY <1>1, <1>3, <2>2 DEF Tasks
  <2>4. Event("chat", s, to) \in EventType
    BY <1>3, <2>1 DEF Event, EventType
  <2>5. Routes(s)
    BY <1>1, <2>2, <2>3, <2>4, Logs
  <2>6. boundary' = boundary \/ \A x \in Sockets \ {s} : ~Entering(x)
    BY <1>8, CalmSnapshot DEF Chat
  <2> QED BY <1>5, <2>2, <2>3, <2>5, <2>6
<1>9. ASSUME NEW type \in {"fyi", "status"}, Notice(s, type) PROVE HubServes(s)
  <2>1. {} \in SUBSET (Nicks \cup Groups)
    OBVIOUS
  <2>2. Routes(s)
    BY <1>6, <1>9, <2>1 DEF Notice
  <2>3. running' = s /\ task'[s].pc = "routing" /\ task'[s].batch = {}
    BY <1>1, <1>3, <1>9 DEF Notice, RunOn, Tasks
  <2>4. boundary' = boundary \/ \A x \in Sockets \ {s} : ~Entering(x)
    BY <1>9, CalmSnapshot DEF Notice
  <2> QED BY <1>5, <2>2, <2>3, <2>4
<1>10. ASSUME NEW n \in Nicks, NEW gs \in SUBSET Groups, MembershipSet(s, n, gs) PROVE HubServes(s)
  <2>1. {n} \in SUBSET (Nicks \cup Groups)
    OBVIOUS
  <2>2. Routes(s)
    BY <1>6, <1>10, <2>1 DEF MembershipSet
  <2>3. running' = s /\ task'[s].pc = "warning" /\ task'[s].batch = {}
    BY <1>1, <1>3, <1>10 DEF MembershipSet, AwaitSend, Tasks
  <2>4. boundary' = boundary \/ \A x \in Sockets \ {s} : ~Entering(x)
    BY <1>10, CalmSnapshot DEF MembershipSet
  <2> QED BY <1>5, <2>2, <2>3, <2>4
<1>11. ASSUME NEW n \in Nicks, Kick(s, n) PROVE HubServes(s)
  <2>1. {n} \in SUBSET (Nicks \cup Groups)
    OBVIOUS
  <2>2. Routes(s)
    BY <1>6, <1>11, <2>1 DEF Kick
  <2>3. running' = s /\ task'[s].pc = "condemning" /\ task'[s].batch = {}
    BY <1>1, <1>3, <1>11 DEF Kick, AwaitSend, Tasks
  <2>4. boundary' = boundary \/ \A x \in Sockets \ {s} : ~Entering(x)
    BY <1>11, CalmSnapshot DEF Kick
  <2> QED BY <1>5, <2>2, <2>3, <2>4
<1> QED BY <1>7, <1>8, <1>9, <1>10, <1>11 DEF Frame

LEMMA DisconnectServes ==
    ASSUME SessionsInv, ListenersInv, CalmInv, NEW s \in Sockets, Disconnect(s)
    PROVE  HubServes(s)
<1>1. /\ running = None /\ task' = task /\ conns' = conns /\ boundary' = boundary /\ log' = log
      /\ open' = [open EXCEPT ![s] = FALSE] /\ wire' = [wire EXCEPT ![s] = <<>>]
      /\ task[s].pc \notin {"new", "done"}
  BY DEF Disconnect
<1>2. /\ wire \in [Sockets -> Seq(FrameType)] /\ open \in [Sockets -> BOOLEAN] /\ Atomic /\ Batched
  BY DEF SessionsInv, Shape, CalmInv
<1>3. task[s].pc \in Resting
  BY <1>1, <1>2, SessionsAssumption DEF Atomic, Sockets
<1>4. \A x \in Sockets : SentAt(s, x)
  BY <1>1, <1>2 DEF SentAt
<1>5. Routes(s) /\ Turn(s)
  BY <1>1 DEF Routes, Turn
<1>6. \A i \in Instances : KeepsFor(s, i)
  BY <1>3, EmptyHanded DEF Resting
<1>7. \A x \in task[s].batch : task[s].pc \in Spreads /\ \E n \in Nicks : x \in conns[n]
  BY <1>2 DEF Batched
<1>8. HubMove(s)
  BY DisconnectMoves
<1> QED BY <1>1, <1>3, <1>4, <1>5, <1>6, <1>7, <1>8 DEF HubServes

\* What is sent to one socket comes in its turn, and reaches a listener.
LEMMA OneSent ==
    ASSUME Shape, Batched, NEW s \in Sockets, NEW x \in Sockets, NEW k \in DOMAIN log,
           Transmit(x, [type |-> "event", seq |-> k]), \E n \in Nicks : x \in conns[n],
           x = s => \A l : Coming(s, l) => k <= l,
           task[s].pc # "routing", task[s].pc = "publishing" => task[s].seq = k
    PROVE  /\ \A y \in Sockets : SentAt(s, y)
           /\ \A i \in Instances : Hearing(i) /\ sock[i] = x /\ sock' = sock => OnWire(sock[i], k)'
<1> DEFINE m == [type |-> "event", seq |-> k]
<1>1. wire \in [Sockets -> Seq(FrameType)]
  BY DEF Shape
<1>2. CASE open[x] /\ task[x].nick \in Listened
  <2>1. wire'[x] = Append(wire[x], m) /\ \A y \in Sockets \ {x} : wire'[y] = wire[y]
    BY <1>1, <1>2 DEF Transmit
  <2>2. \A y \in Sockets : SentAt(s, y)
    BY <1>2, <2>1 DEF SentAt
  <2>3. Len(wire[x]) + 1 \in DOMAIN wire'[x] /\ wire'[x][Len(wire[x]) + 1] = m
    BY <1>1, <2>1
  <2>4. \E j \in DOMAIN wire'[x] : Carries(wire'[x][j], k)
    BY <2>3 DEF Carries
  <2>5. ASSUME NEW i \in Instances, sock[i] = x, sock' = sock PROVE OnWire(sock[i], k)'
    BY <2>4, <2>5 DEF OnWire, Carries
  <2> QED BY <2>2, <2>5
<1>3. CASE ~(open[x] /\ task[x].nick \in Listened)
  <2>1. wire' = wire
    BY <1>3 DEF Transmit
  <2>2. \A y \in Sockets : SentAt(s, y)
    BY <2>1, QuietMessages
  <2>3. \A i \in Instances : ~(Hearing(i) /\ sock[i] = x)
    BY <1>3, DeliveryAssumption DEF Hearing, Batched
  <2> QED BY <2>2, <2>3
<1> QED BY <1>2, <1>3

\* A step of a handler that stays in its place in the argument.
LEMMA HandlerServes ==
    ASSUME Calm, SessionsInv, ListenersInv, CalmInv, NEW s \in Sockets, Handler(s), ~Enter(s),
           sock' = sock
    PROVE  HubServes(s)
<1>1. /\ Shape /\ Referring /\ task \in [Sockets -> Tasks] /\ task[s] \in Tasks /\ Batched
      /\ SendsYield = FALSE /\ HubMove(s)
      /\ \A n \in Nicks : conns[n] \subseteq Sockets
  BY HandlerMoves DEF SessionsInv, ListenersInv, Shape, CalmInv, Calm
<1>2. AwaitSend(s) => running' = s
  BY <1>1 DEF AwaitSend
<1>3. task[s].pc \notin Spreads => task[s].batch = {}
  BY <1>1 DEF Batched
<1>4. ASSUME wire' = wire PROVE \A x \in Sockets : SentAt(s, x)
  BY <1>4, QuietMessages
<1>5. log' = log => Routes(s)
  BY DEF Routes
<1>6. ASSUME task[s].pc \notin {"new", "done"} PROVE task[s].nick \in Nicks
  BY <1>6 DEF SessionsInv, Placed, Entered
<1>7. CASE CloseOne(s) \/ Eject(s) \/ EndEviction(s)
  <2>1. /\ task[s].pc \in {"closing", "evicting", "ejecting"} /\ Turn(s)
        /\ UNCHANGED <<conns, log, boundary, wire>>
    BY <1>7 DEF CloseOne, Eject, EndEviction
  <2>2. /\ task'[s].pc \in {"closing", "evicting", "loop"} /\ task'[s].batch = {}
        /\ task'[s].end = task[s].end /\ task'[s].resync = task[s].resync
    <3>1. CASE CloseOne(s)
      BY <1>1, <1>3, <2>1, <3>1 DEF CloseOne, Tasks, Spreads
    <3>2. CASE Eject(s)
      BY <1>1, <1>3, <2>1, <3>2 DEF Eject, Tasks, Spreads
    <3>3. CASE EndEviction(s)
      BY <1>1, <1>3, <2>1, <3>3 DEF EndEviction, Tasks, Spreads
    <3> QED BY <1>7, <3>1, <3>2, <3>3
  <2>3. \A i \in Instances : KeepsFor(s, i)
    BY <2>1, EmptyHanded
  <2> QED BY <1>1, <1>4, <1>5, <2>1, <2>2, <2>3 DEF HubServes, Resting
<1>8. CASE Announce(s)
  <2>1. /\ task[s].pc = "closing" /\ Turn(s) /\ UNCHANGED <<conns, boundary, wire>> /\ running' = s
    BY <1>8 DEF Announce, RunOn
  <2>2. /\ task'[s].pc \in {"announcing", "entering"} /\ task'[s].batch = {}
        /\ task'[s].end = task[s].end /\ task'[s].resync = task[s].resync
    BY <1>1, <1>3, <1>8, <2>1 DEF Announce, Tasks, Spreads
  <2>3. \A i \in Instances : KeepsFor(s, i)
    BY <2>1, EmptyHanded
  <2>4. /\ Event("takeover", s, {task[s].nick}) \in EventType
        /\ Event("takeover", s, {task[s].nick}).type # "chat"
    BY <1>1, <1>6, <2>1 DEF Event, EventType, Tasks
  <2>5. Routes(s)
    BY <1>1, <1>5, <1>8, <2>4, Logs DEF Announce
  <2> QED BY <1>1, <1>4, <2>1, <2>2, <2>3, <2>5 DEF HubServes
<1>9. CASE StartCatchUp(s)
  <2>1. /\ task[s].pc = "replying" /\ Turn(s) /\ UNCHANGED <<conns, log, boundary, wire>>
        /\ running' = s
    BY <1>9 DEF StartCatchUp, RunOn
  <2>2. task'[s].pc = "catching" /\ task'[s].batch = {} /\ task'[s].queue = Missed(task[s])
    BY <1>1, <1>3, <1>9, <2>1 DEF StartCatchUp, Tasks, Spreads
  <2>3. \A i \in Instances : KeepsFor(s, i)
    BY <2>1, <2>2 DEF KeepsFor, Coming, Pending
  <2> QED BY <1>1, <1>4, <1>5, <2>1, <2>2, <2>3 DEF HubServes, Before
<1>10. CASE CatchUp(s)
  <2>1. /\ task[s].pc = "catching" /\ Turn(s) /\ UNCHANGED <<conns, log, boundary>>
        /\ running' = s /\ s \in conns[task[s].nick] /\ task[s].nick \in Nicks
    BY <1>1, <1>2, <1>6, <1>10 DEF CatchUp, Batched
  <2>2. PICK k \in task[s].queue : /\ \A j \in task[s].queue : k <= j
                                   /\ Transmit(s, [type |-> "event", seq |-> k])
                                   /\ task' = [task EXCEPT ![s].queue = @ \ {k}]
    BY <1>10 DEF CatchUp
  <2>3. /\ task'[s].pc = "catching" /\ task'[s].batch = {} /\ task'[s].queue = task[s].queue \ {k}
    BY <1>1, <1>3, <2>1, <2>2 DEF Tasks, Spreads
  <2>4. k \in DOMAIN log /\ \A l : Coming(s, l) => l \in task[s].queue /\ k <= l
    BY <1>1, <2>1, <2>2 DEF Referring, Sound, Coming
  <2>5. /\ \A y \in Sockets : SentAt(s, y)
        /\ \A i \in Instances : Hearing(i) /\ sock[i] = s => OnWire(sock[i], k)'
    BY <1>1, <2>1, <2>2, <2>4, OneSent
  <2>6. \A i \in Instances : KeepsFor(s, i)
    BY <2>1, <2>3, <2>4, <2>5 DEF KeepsFor, Coming, Pending
  <2> QED BY <1>1, <1>5, <2>1, <2>3, <2>5, <2>6 DEF HubServes, Before
<1>11. CASE EndCatchUp(s)
  <2>1. /\ task[s].pc = "catching" /\ task[s].queue = {} /\ Turn(s)
        /\ UNCHANGED <<conns, log, wire>>
    BY <1>11 DEF EndCatchUp
  <2>2. task'[s].pc = "loop" /\ task'[s].batch = {}
    BY <1>1, <1>3, <1>11, <2>1 DEF EndCatchUp, Tasks, Spreads
  <2>3. boundary' = boundary \/ \A x \in Sockets \ {s} : ~Entering(x)
    BY <1>11, CalmSnapshot DEF EndCatchUp
  <2>4. \A i \in Instances : KeepsFor(s, i)
    BY <2>1 DEF KeepsFor, Coming, Pending
  <2> QED BY <1>1, <1>4, <1>5, <2>1, <2>2, <2>3, <2>4 DEF HubServes, Before, Resting
<1>12. CASE Route(s)
  <2>1. /\ task[s].pc \in {"routing", "warning"} /\ Turn(s)
        /\ UNCHANGED <<conns, log, boundary, wire>> /\ running' = s
    BY <1>12 DEF Route, RunOn
  <2>2. /\ task'[s].pc = "publishing" /\ task'[s].batch = {} /\ task'[s].seq = task[s].seq
        /\ task'[s].audience = Audience(log[task[s].seq])
    BY <1>1, <1>3, <1>12, <2>1 DEF Route, Tasks, Spreads
  <2>3. ASSUME NEW i \in Instances, NEW k \in MeantFor(i), Pending(i, s, k) PROVE Pending(i, s, k)'
    <3>1. task[s].seq = k /\ log[k].type = "chat" /\ log[k].by # NickOf[i] /\ NickOf[i] \in log[k].to
      BY <2>3 DEF Pending, MeantFor
    <3>2. NickOf[i] \in Audience(log[k])
      BY <3>1, DeliveryAssumption DEF Audience, Hears
    <3> QED BY <2>2, <3>1, <3>2 DEF Pending
  <2>4. \A i \in Instances : KeepsFor(s, i)
    BY <2>1, <2>3 DEF KeepsFor, Coming
  <2> QED BY <1>1, <1>4, <1>5, <2>1, <2>2, <2>4 DEF HubServes, Before
<1>13. CASE Spread(s)
  <2>1. /\ task[s].pc \in Spreads /\ Turn(s) /\ UNCHANGED <<conns, log, boundary>>
        /\ running' = s /\ task[s].seq \in DOMAIN log
    BY <1>1, <1>2, <1>13 DEF Spread, Spreading, Spreads, Referring, Sound, Carrying
  <2>2. \A l : ~Coming(s, l)
    BY <2>1 DEF Coming, Spreads
  <2>3. ASSUME NEW x \in Sockets, NEW b \in SUBSET Sockets, NEW a,
               Transmit(x, [type |-> "event", seq |-> task[s].seq]), \E n \in Nicks : x \in conns[n],
               task'[s].pc = task[s].pc, task'[s].seq = task[s].seq,
               task'[s].end = task[s].end, task'[s].resync = task[s].resync,
               task'[s].batch = b, task'[s].audience = a,
               \A y \in b : \E n \in Nicks : y \in conns[n],
               \A y \in task[s].batch : y = x \/ y \in b,
               \A n \in task[s].audience : n \in a \/ \A y \in conns[n] : y = x \/ y \in b
        PROVE  HubServes(s)
    <3>0. PICK r \in DOMAIN log : r = task[s].seq
      BY <2>1
    <3>1. /\ \A y \in Sockets : SentAt(s, y)
          /\ \A i \in Instances : Hearing(i) /\ sock[i] = x => OnWire(sock[i], r)'
      <4>1. x = s => \A l : Coming(s, l) => r <= l
        BY <2>2
      <4>2. task[s].pc # "routing" /\ (task[s].pc = "publishing" => task[s].seq = r)
        BY <2>1, <3>0 DEF Spreads
      <4>3. Transmit(x, [type |-> "event", seq |-> r])
        BY <2>3, <3>0
      <4> QED BY <1>1, <2>3, <4>1, <4>2, <4>3, OneSent
    <3>2. ASSUME NEW i \in Instances, Hearing(i), NEW k \in MeantFor(i), Pending(i, s, k)
          PROVE  Pending(i, s, k)' \/ OnWire(sock[i], k)'
      <4>1. /\ task[s].seq = k /\ task[s].pc = "publishing" /\ sock[i] \in conns[NickOf[i]]
            /\ sock[i] \in task[s].batch \/ NickOf[i] \in task[s].audience
        BY <2>1, <3>2 DEF Pending, Spreads, Hearing
      <4>2. sock[i] = x \/ sock[i] \in b \/ NickOf[i] \in a
        BY <2>3, <4>1
      <4>3. sock[i] \in b \/ NickOf[i] \in a => Pending(i, s, k)'
        BY <2>3, <4>1 DEF Pending
      <4>4. r = k
        BY <3>0, <4>1
      <4>5. sock[i] = x => OnWire(sock[i], k)'
        BY <3>1, <3>2, <4>4
      <4> QED BY <4>2, <4>3, <4>5
    <3>3. \A i \in Instances : KeepsFor(s, i)
      BY <2>2, <3>2 DEF KeepsFor
    <3> QED BY <1>1, <1>5, <2>1, <2>3, <3>1, <3>3 DEF HubServes, Spreads
  <2>4. CASE \E x \in task[s].batch :
               /\ Transmit(x, [type |-> "event", seq |-> task[s].seq])
               /\ task' = [task EXCEPT ![s].batch = @ \ {x}]
    <3>1. PICK x \in task[s].batch :
             /\ Transmit(x, [type |-> "event", seq |-> task[s].seq])
             /\ task' = [task EXCEPT ![s].batch = @ \ {x}]
      BY <2>4
    <3>2. x \in Sockets /\ task[s].batch \ {x} \in SUBSET Sockets
      BY <1>1 DEF Tasks
    <3>3. /\ task'[s].pc = task[s].pc /\ task'[s].seq = task[s].seq
          /\ task'[s].end = task[s].end /\ task'[s].resync = task[s].resync
          /\ task'[s].batch = task[s].batch \ {x} /\ task'[s].audience = task[s].audience
      BY <1>1, <3>1 DEF Tasks
    <3>4. \A y \in task[s].batch : \E n \in Nicks : y \in conns[n]
      BY <1>1 DEF Batched
    <3>5. \A y \in task[s].batch \ {x} : \E n \in Nicks : y \in conns[n]
      BY <3>4
    <3>6. \A y \in task[s].batch : y = x \/ y \in task[s].batch \ {x}
      OBVIOUS
    <3> QED BY <2>3, <3>1, <3>2, <3>3, <3>4, <3>5, <3>6
  <2>5. CASE \E n \in task[s].audience : \E x \in conns[n] :
               /\ Transmit(x, [type |-> "event", seq |-> task[s].seq])
               /\ task' = [task EXCEPT ![s].batch = conns[n] \ {x}, ![s].audience = @ \ {n}]
             /\ task[s].batch = {}
    <3>0. PICK n \in task[s].audience : \E x \in conns[n] :
             /\ Transmit(x, [type |-> "event", seq |-> task[s].seq])
             /\ task' = [task EXCEPT ![s].batch = conns[n] \ {x}, ![s].audience = @ \ {n}]
      BY <2>5
    <3>1. PICK x \in conns[n] :
             /\ Transmit(x, [type |-> "event", seq |-> task[s].seq])
             /\ task' = [task EXCEPT ![s].batch = conns[n] \ {x}, ![s].audience = @ \ {n}]
      BY <3>0
    <3>2. n \in Nicks
      BY <1>1 DEF Tasks
    <3>3. x \in Sockets /\ conns[n] \ {x} \in SUBSET Sockets
      BY <1>1, <3>2
    <3>4. /\ task'[s].pc = task[s].pc /\ task'[s].seq = task[s].seq
          /\ task'[s].end = task[s].end /\ task'[s].resync = task[s].resync
          /\ task'[s].batch = conns[n] \ {x} /\ task'[s].audience = task[s].audience \ {n}
      BY <1>1, <3>1 DEF Tasks
    <3>5. \E m \in Nicks : x \in conns[m]
      BY <3>1, <3>2
    <3>6. \A y \in conns[n] \ {x} : \E m \in Nicks : y \in conns[m]
      BY <3>2
    <3>7. \A m \in task[s].audience : m \in task[s].audience \ {n}
                                      \/ \A y \in conns[m] : y = x \/ y \in conns[n] \ {x}
      OBVIOUS
    <3>8. \A y \in task[s].batch : y = x \/ y \in conns[n] \ {x}
      BY <2>5
    <3> QED BY <2>3, <3>1, <3>3, <3>4, <3>5, <3>6, <3>7, <3>8
  <2> QED BY <1>13, <2>4, <2>5 DEF Spread
<1>14. CASE EndSpread(s)
  <2>1. /\ task[s].pc \in Spreads /\ Turn(s) /\ UNCHANGED <<conns, log, boundary, wire>>
        /\ task[s].batch = {} /\ \A n \in task[s].audience : conns[n] = {}
    BY <1>14 DEF EndSpread, Spreading, Spreads
  <2>2. /\ task'[s].pc \in {"entering", "loop", "ejecting"} /\ task'[s].batch = {}
        /\ task'[s].end = task[s].end /\ task'[s].resync = task[s].resync
        /\ task'[s].pc # "loop" => running' = s
    BY <1>1, <1>2, <1>14, <2>1 DEF EndSpread, Tasks, RunOn
  <2>3. \A i \in Instances : KeepsFor(s, i)
    BY <2>1 DEF KeepsFor, Coming, Pending, Hearing, Spreads
  <2> QED BY <1>1, <1>4, <1>5, <2>1, <2>2, <2>3 DEF HubServes, Resting
<1>15. CASE Leave(s)
  <2>1. /\ Turn(s) /\ UNCHANGED <<log, boundary, wire>>
        /\ task[s].pc = "leaving" \/ (~open[s] /\ task[s].pc \in {"loop", "replying", "catching", "warning"})
    BY <1>15 DEF Leave, OwnAwaits
  <2>2. task[s].nick \in Nicks
    BY <1>6, <2>1
  <2>3. conns' = Put(conns, task[s].nick, conns[task[s].nick] \ {s})
    BY <1>15 DEF Leave
  <2>4. \A n \in Nicks : s \notin conns'[n]
    BY <1>1, <2>2, <2>3 DEF Batched, Put
  <2>5. task'[s] = [NoTask EXCEPT !.pc = "done", !.doomed = task[s].doomed]
    BY <1>1, <1>15 DEF Leave, Set
  <2>6. task'[s].pc = "done" /\ task'[s].batch = {}
    BY <2>5 DEF NoTask
  <2>7. \A i \in Instances : KeepsFor(s, i)
    BY <2>1 DEF KeepsFor, Coming, Pending, Hearing
  <2> QED BY <1>1, <1>4, <1>5, <2>1, <2>4, <2>6, <2>7 DEF HubServes, Resting, Before
<1> QED BY <1>7, <1>8, <1>9, <1>10, <1>11, <1>12, <1>13, <1>14, <1>15 DEF Handler

\* The listener of a new connection, and the others, when it says hello.
LEMMA HelloRuns ==
    ASSUME NEW s \in Sockets, NEW n \in Nicks, NEW i \in Instances, NEW c \in Nat, Shape,
           HelloFrame(s, n, i, c)
    PROVE  (task'[s].pc = "entering" => running' = s) /\ c <= Len(log)
<1> DEFINE trial == IF n \in Tokens THEN Hello(registry, n, i) ELSE OpenHello(registry, n, i, None)
           bumped == trial.gen[n] # registry.gen[n]
           stale == IF bumped THEN conns[n] ELSE {}
           p == IF bumped THEN "closing" ELSE "entering"
           displaced == bumped /\ registry.gen[n] > 0
           r == [NoTask EXCEPT !.pc = p, !.nick = n, !.gen = trial.gen[n], !.groups = trial.groups[n],
                               !.displaced = displaced,
                               !.resync = c < boundary, !.since = c, !.end = Len(log) + 1,
                               !.todo = stale]
<1>1. /\ task' = [task EXCEPT ![s] = r] /\ c <= Len(log)
      /\ IF stale = {} THEN RunOn(s) ELSE AwaitSend(s)
  BY DEF HelloFrame, Set
<1>2. p = "entering" => stale = {}
  OBVIOUS
<1> HIDE DEF trial, p, bumped, stale, displaced
<1>3. task'[s].pc = p
  BY <1>1 DEF Shape, NoTask
<1> QED BY <1>1, <1>2, <1>3 DEF RunOn

LEMMA DialCalm ==
    ASSUME SessionsInv, ListenersInv, CalmInv, NEW i \in Instances, NEW s \in Sockets, Dial(i, s)
    PROVE  CalmInv'
<1>1. /\ Shape /\ Referring /\ NickOf[i] \in Nicks /\ sock[i] = None /\ s # None
      /\ sock' = [sock EXCEPT ![i] = s] /\ cursor' = cursor /\ emitted' = emitted
      /\ HelloFrame(s, NickOf[i], i, cursor[i]) /\ Atomic /\ Batched /\ Fresh
  BY SessionsAssumption, DeliveryAssumption DEF SessionsInv, Dial, Sockets, CalmInv
<1>2. /\ sock \in [Instances -> Sockets \cup {None}] /\ cursor[i] \in Nat
      /\ boundary \in Nat /\ Len(log) \in Nat /\ cursor[i] \in 0..Len(log) /\ DOMAIN log = 1..Len(log)
  BY <1>1 DEF ListenersInv, Listening, Shape
<1>3. /\ task[s].pc = "new" /\ \A x \in Sockets \ {s} : task'[x] = task[x]
      /\ task'[s].pc \in {"closing", "entering"} /\ task'[s].nick = NickOf[i]
      /\ task'[s].end = Len(log) + 1 /\ task'[s].batch = {}
      /\ task'[s].resync = (cursor[i] < boundary)
      /\ \A m \in Nicks : conns'[m] \subseteq conns[m]
      /\ boundary' = boundary /\ open' = open /\ wire' = wire
      /\ Extends /\ log'[Len(log) + 1].type = "hello" /\ Len(log') = Len(log) + 1 /\ Turn(s)
  BY <1>1, <1>2, HelloMoves
<1>4. /\ task'[s].pc = "entering" => running' = s
      /\ cursor[i] <= Len(log)
  BY <1>1, <1>2, HelloRuns
<1>5. Unserved(s)
  BY <1>3 DEF ListenersInv, Unrouted, Before
<1>6. \A x \in Sockets \ {s} : task[x].pc \in Resting /\ task[x].batch = {}
  BY <1>1, <1>3, Alone
<1>7. /\ \A k \in DOMAIN log : k \in DOMAIN log' /\ log'[k] = log[k]
      /\ DOMAIN log' = 1..Len(log')
  BY <1>1, <1>3, LogExtends
<1>8. Atomic'
  BY <1>3, <1>4, <1>6 DEF Atomic, Resting
<1>9. Batched'
  <2>1. ASSUME NEW n \in Nicks, NEW x \in conns'[n] PROVE task'[x].nick = n /\ task'[x].pc # "done"
    <3>1. x \in conns[n] /\ x \in Sockets /\ x # s
      BY <1>1, <1>3, <1>5, <2>1 DEF Shape, Unserved
    <3> QED BY <1>1, <1>3, <3>1 DEF Batched
  <2>2. \A x \in Sockets : task'[x].pc \notin {"replying", "catching"}
    BY <1>3, <1>6 DEF Resting
  <2>3. \A h \in Sockets : task'[h].batch = {}
    BY <1>3, <1>6
  <2> QED BY <2>1, <2>2, <2>3 DEF Batched
<1>10. Fresh'
  <2> SUFFICES ASSUME NEW x \in Sockets, task'[x].pc \in Before \ {"new"}
               PROVE  /\ task'[x].resync \/ boundary' <= task'[x].end
                      /\ log'[task'[x].end].type = "hello"
    BY DEF Fresh
  <2>1. CASE x = s
    <3>1. task'[s].resync \/ boundary <= task'[s].end
      <4>1. ~(cursor[i] < boundary) => boundary <= Len(log) + 1
        BY <1>2
      <4>2. cursor[i] < boundary => task'[s].resync
        BY <1>3, Zenon
      <4> QED BY <1>3, <4>1, <4>2
    <3> QED BY <1>3, <2>1, <3>1
  <2>2. CASE x # s
    <3>1. task'[x] = task[x]
      BY <1>3, <2>2
    <3>2. task[x].end \in DOMAIN log
      BY <1>1, <3>1 DEF Referring, Sound, Arriving, Before
    <3> QED BY <1>1, <1>3, <1>7, <3>1, <3>2 DEF Fresh
  <2> QED BY <2>1, <2>2
<1>11. Routes(s)
  <2>1. \A k \in DOMAIN log' \ DOMAIN log : k = Len(log) + 1
    BY <1>2, <1>3, <1>7
  <2> QED BY <1>3, <2>1 DEF Routes
<1>12. ASSUME NEW j \in Instances PROVE Served(j)'
  <2>0. Served(j)
    BY DEF CalmInv
  <2>1. CASE j # i
    <3>1. sock'[j] = sock[j] /\ cursor'[j] = cursor[j] /\ emitted'[j] = emitted[j]
      BY <1>1, <1>2, <2>1
    <3>2. sock[j] # None => FlowAt(s, sock[j])
      BY <1>2, <1>3 DEF FlowAt
    <3>3. sock[j] # None => SentAt(s, sock[j])
      BY <1>3 DEF SentAt
    <3>4. KeepsFor(s, j)
      BY <1>3, EmptyHanded
    <3> QED BY <1>1, <1>3, <1>11, <2>0, <3>1, <3>2, <3>3, <3>4, Serves
  <2>2. CASE j = i
    <3>1. sock'[i] = s
      BY <1>1, <1>2
    <3>2. Ordered(i)'
      BY <1>3, <1>5, <3>1 DEF Ordered, Unserved
    <3>3. ~Hearing(i)'
      BY <1>1, <1>3, <1>5, <3>1 DEF Hearing, Unserved
    <3>4. Kept(i)'
      <4> SUFFICES ASSUME NEW k \in MeantFor(i)', k <= cursor'[i] PROVE k \in Had(i)'
        BY DEF Kept
      <4>1. k \in DOMAIN log' /\ k <= cursor[i]
        BY <1>1 DEF MeantFor
      <4>2. k \in DOMAIN log
        BY <1>2, <1>7, <4>1
      <4>3. k \in MeantFor(i)
        BY <1>1, <1>3, <4>2, MeantKept
      <4>4. k \in Had(i)
        BY <2>0, <2>2, <4>1, <4>3 DEF Served, Kept
      <4> QED BY <1>1, <4>4 DEF Had
    <3>5. UpToDate(i)'
      BY <3>3 DEF UpToDate
    <3> QED BY <2>2, <3>2, <3>4, <3>5 DEF Served
  <2> QED BY <2>1, <2>2
<1> QED BY <1>8, <1>9, <1>10, <1>12 DEF CalmInv

\* Its handler lets it in: what the reply does not carry is about to be caught up.
LEMMA EntryServes ==
    ASSUME SessionsInv, ListenersInv, Fresh, NEW i \in Instances, Kept(i),
           NEW s \in Sockets, sock[i] = s, Enter(s), UNCHANGED clients
    PROVE  Served(i)'
<1> DEFINE t == task[s]
           m == ReplyTo(task[s])
<1>1. /\ Shape /\ Referring /\ s # None /\ NickOf[i] \in Nicks
      /\ sock'[i] = s /\ cursor' = cursor /\ emitted' = emitted
  BY SessionsAssumption, DeliveryAssumption DEF SessionsInv, Sockets, clients
<1>2. /\ task[s].pc = "entering" /\ task'[s].pc = "replying"
      /\ task'[s].nick = task[s].nick /\ task'[s].end = task[s].end
      /\ task'[s].groups = task[s].groups /\ log' = log /\ open' = open
      /\ wire'[s] = IF open[s] /\ task[s].nick \in Listened
                    THEN Append(wire[s], ReplyTo(task[s])) ELSE wire[s]
  BY EnterMoves DEF SessionsInv
<1>3. task[s].since = cursor[i] /\ task[s].nick = NickOf[i] /\ wire[s] = <<>>
  BY <1>1, <1>2 DEF ListenersInv, Asked, Dialled, Unrouted, Unserved, Before
<1>4. wire'[s] = <<>> \/ wire'[s] = <<m>>
  BY <1>2, <1>3
<1>5. /\ log \in Seq(EventType) /\ Len(log) \in Nat /\ DOMAIN log = 1..Len(log)
      /\ task[s].end \in DOMAIN log /\ task[s].since \in Nat
      /\ task[s].resync \in BOOLEAN /\ boundary \in Nat
  BY <1>1, <1>2 DEF Shape, Tasks, Referring, Sound, Arriving
<1>6. /\ task[s].resync \/ boundary <= task[s].end
      /\ log[task[s].end].type = "hello"
  BY <1>2 DEF Fresh, Before
<1>7. MeantFor(i)' = MeantFor(i) /\ Had(i)' = Had(i)
  BY <1>1, <1>2 DEF MeantFor, Had
<1>8. ASSUME NEW k \in MeantFor(i), k \notin Had(i)
      PROVE  /\ k \in DOMAIN log /\ k > task[s].since /\ log[k].type = "chat"
             /\ log[k].by # task[s].nick /\ task[s].nick \in log[k].to /\ k # task[s].end
  <2>1. /\ k \in DOMAIN log /\ log[k].type = "chat" /\ log[k].by # NickOf[i]
        /\ NickOf[i] \in log[k].to
    BY DEF MeantFor
  <2>2. ~(k <= cursor[i])
    BY <1>8 DEF Kept
  <2>3. k # task[s].end
    BY <1>6, <2>1
  <2> QED BY <1>3, <1>5, <2>1, <2>2, <2>3
<1>9. CASE task[s].resync
  <2>1. m = [type |-> "resync_required", seqs |-> Conversation(task[s].since), cursor |-> Len(log)]
    BY <1>9 DEF ReplyTo
  <2>2. \A k \in MeantFor(i) \ Had(i) : Carries(m, k)
    BY <1>5, <1>8, <2>1 DEF Carries, Conversation
  <2>3. \A k \in MeantFor(i) \ Had(i) : Carries(m, k) \/ (k > task[s].end /\ ~task[s].resync)
    BY <2>2
  <2>4. \A k \in MeantFor(i) \ Had(i) : k <= Reach(m) => Carries(m, k)
    BY <2>2
  <2> QED
    <3> HIDE DEF m
    <3>1. Ordered(i)'
      BY <1>1, <1>4, <1>7, <2>4 DEF Ordered, Carries, Reach
    <3>2. UpToDate(i)'
      <4> SUFFICES ASSUME Hearing(i)', NEW k \in MeantFor(i)' PROVE Reached(i, k)'
        BY DEF UpToDate
      <4>1. wire'[s] = <<m>>
        BY <1>1, <1>2, <1>3 DEF Hearing, m
      <4>2. CASE k \in Had(i)
        BY <1>7, <4>2 DEF Reached
      <4>3. CASE k \notin Had(i)
        <5>1. Carries(m, k)
          BY <1>7, <2>2, <4>3
        <5>2. 1 \in DOMAIN wire'[s] /\ wire'[s][1] = m
          BY <4>1
        <5>3. \E j \in DOMAIN wire'[s] : Carries(wire'[s][j], k)
          BY <5>1, <5>2
        <5>4. OnWire(sock[i], k)'
          BY <1>1, <5>3 DEF OnWire, Carries
        <5> QED BY <5>4 DEF Reached
      <4> QED BY <4>2, <4>3
    <3>3. Kept(i)'
      BY <1>1, <1>7 DEF Kept
    <3> QED BY <3>1, <3>2, <3>3 DEF Served
<1>10. CASE ~task[s].resync
  <2>1. m = [type |-> "ok", seqs |-> Backlog(task[s].since, task[s].end), cursor |-> task[s].end]
    BY <1>10 DEF ReplyTo
  <2>2. \A k \in MeantFor(i) \ Had(i) : k <= task[s].end => Carries(m, k)
    BY <1>5, <1>8, <2>1 DEF Carries, Backlog
  <2>3. boundary' = boundary /\ registry' = registry
    BY <1>10 DEF Enter
  <2>4. ASSUME NEW k \in MeantFor(i) \ Had(i), k > task[s].end PROVE Coming(s, k)'
    <3>1. k \in task'[s].end+1..Len(log')
      BY <1>2, <1>5, <1>8, <2>4
    <3>2. /\ log'[k].type = "chat" /\ log'[k].by # task'[s].nick
          /\ Hears(task'[s].nick, task'[s].groups, log'[k].to)
      BY <1>2, <1>8, <2>4 DEF Hears
    <3>3. ~(boundary' > task'[s].end)
      BY <1>2, <1>5, <1>6, <1>10, <2>3
    <3>4. k \in Missed(task[s])'
      BY <3>1, <3>2, <3>3 DEF Missed
    <3> QED BY <1>2, <3>4 DEF Coming
  <2> QED
    <3>0. Reach(m) = task[s].end
      BY <2>1 DEF Reach
    <3> HIDE DEF m
    <3>1. Ordered(i)'
      BY <1>1, <1>4, <1>7, <2>2, <3>0 DEF Ordered, Carries, Reach
    <3>2. UpToDate(i)'
      <4> SUFFICES ASSUME Hearing(i)', NEW k \in MeantFor(i)' PROVE Reached(i, k)'
        BY DEF UpToDate
      <4>1. wire'[s] = <<m>>
        BY <1>1, <1>2, <1>3 DEF Hearing, m
      <4>2. CASE k \in Had(i)
        BY <1>7, <4>2 DEF Reached
      <4>3. CASE k \notin Had(i) /\ k <= task[s].end
        <5>1. Carries(m, k)
          BY <1>7, <2>2, <4>3
        <5>2. 1 \in DOMAIN wire'[s] /\ wire'[s][1] = m
          BY <4>1
        <5>3. \E j \in DOMAIN wire'[s] : Carries(wire'[s][j], k)
          BY <5>1, <5>2
        <5>4. OnWire(sock[i], k)'
          BY <1>1, <5>3 DEF OnWire, Carries
        <5> QED BY <5>4 DEF Reached
      <4>4. CASE k \notin Had(i) /\ k > task[s].end
        <5>1. Coming(s, k)'
          BY <1>7, <2>4, <4>4
        <5>2. Coming(sock[i], k)'
          BY <1>1, <5>1 DEF Coming
        <5> QED BY <5>2 DEF Reached
      <4>5. k \in DOMAIN log
        BY <1>2 DEF MeantFor
      <4> QED BY <1>5, <4>2, <4>3, <4>4, <4>5
    <3>3. Kept(i)'
      BY <1>1, <1>7 DEF Kept
    <3> QED BY <3>1, <3>2, <3>3 DEF Served
<1> QED BY <1>9, <1>10

LEMMA EnterCalm ==
    ASSUME Calm, SessionsInv, ListenersInv, CalmInv, NEW s \in Sockets, Enter(s), UNCHANGED clients
    PROVE  CalmInv'
<1>1. /\ Shape /\ Referring /\ Atomic /\ Batched /\ Fresh /\ SendsYield = FALSE
      /\ sock' = sock /\ cursor' = cursor /\ emitted' = emitted
      /\ \A n \in Nicks : conns[n] \subseteq Sockets
  BY DEF SessionsInv, Shape, CalmInv, Calm, clients
<1>2. /\ task[s].pc = "entering" /\ \A x \in Sockets \ {s} : task'[x] = task[x]
      /\ task'[s].pc = "replying" /\ task'[s].nick = task[s].nick /\ task[s].nick \in Nicks
      /\ task'[s].batch = task[s].batch /\ task'[s].end = task[s].end
      /\ conns'[task[s].nick] = conns[task[s].nick] \cup {s}
      /\ \A n \in Nicks \ {task[s].nick} : conns'[n] = conns[n]
      /\ log' = log /\ open' = open /\ Turn(s)
      /\ \A x \in Sockets \ {s} : wire'[x] = wire[x]
  BY EnterMoves
<1>3. running' = s
  BY <1>1 DEF Enter, AwaitSend
<1>4. \A x \in Sockets \ {s} : task[x].pc \in Resting /\ task[x].batch = {}
  BY <1>1, <1>2, Alone
<1>5. task[s].batch = {}
  BY <1>1, <1>2 DEF Batched, Spreads
<1>6. boundary' = boundary \/ \A x \in Sockets \ {s} : ~Entering(x)
  BY CalmSnapshot DEF Enter
<1>7. Atomic'
  BY <1>2, <1>3, <1>4 DEF Atomic
<1>8. Batched'
  <2>1. ASSUME NEW n \in Nicks, NEW x \in conns'[n] PROVE task'[x].nick = n /\ task'[x].pc # "done"
    <3>1. CASE x = s /\ n = task[s].nick
      BY <1>2, <3>1
    <3>2. CASE ~(x = s /\ n = task[s].nick)
      <4>1. x \in conns[n]
        BY <1>2, <2>1, <3>2
      <4>2. task[x].nick = n /\ task[x].pc # "done" /\ x \in Sockets /\ x # s
        BY <1>1, <3>2, <4>1 DEF Batched
      <4> QED BY <1>2, <4>2
    <3> QED BY <3>1, <3>2
  <2>2. \A x \in Sockets : task'[x].pc \in {"replying", "catching"} => x = s
    BY <1>2, <1>4 DEF Resting
  <2>3. \A h \in Sockets : task'[h].batch = {}
    BY <1>2, <1>4, <1>5
  <2>4. s \in conns'[task'[s].nick]
    BY <1>2
  <2> QED BY <2>1, <2>2, <2>3, <2>4 DEF Batched
<1>9. Fresh'
  <2> SUFFICES ASSUME NEW x \in Sockets, task'[x].pc \in Before \ {"new"}
               PROVE  /\ task'[x].resync \/ boundary' <= task'[x].end
                      /\ log'[task'[x].end].type = "hello"
    BY DEF Fresh
  <2>1. x # s
    BY <1>2 DEF Before
  <2>2. task'[x] = task[x]
    BY <1>2, <2>1
  <2>3. boundary' = boundary
    BY <1>6, <2>1, <2>2 DEF Entering, Before
  <2> QED BY <1>1, <1>2, <2>2, <2>3 DEF Fresh
<1>10. ASSUME NEW i \in Instances PROVE Served(i)'
  <2>0. Served(i) /\ (sock[i] # None => sock[i] \in Sockets)
    BY DEF CalmInv, ListenersInv, Listening
  <2>1. CASE sock[i] = s
    BY <1>1, <2>0, <2>1, EntryServes DEF Served
  <2>2. CASE sock[i] # s
    <3>1. sock'[i] = sock[i] /\ cursor'[i] = cursor[i] /\ emitted'[i] = emitted[i]
      BY <1>1
    <3>2. Extends /\ Routes(s)
      BY <1>2 DEF Extends, Routes
    <3>3. sock[i] # None => FlowAt(s, sock[i])
      BY <1>2, <2>0, <2>2, <3>2 DEF FlowAt
    <3>4. sock[i] # None => SentAt(s, sock[i])
      BY <1>2, <2>0, <2>2 DEF SentAt
    <3>5. KeepsFor(s, i)
      BY <1>2, EmptyHanded
    <3> QED BY <1>1, <1>2, <2>0, <3>1, <3>2, <3>3, <3>4, <3>5, Serves
  <2> QED BY <2>1, <2>2
<1> QED BY <1>7, <1>8, <1>9, <1>10 DEF CalmInv

\* Nothing but what listeners have changes.
LEMMA HubStays ==
    ASSUME UNCHANGED <<registry, conns, groups, log, boundary, task, open, running>>
    PROVE  /\ Atomic => Atomic'
           /\ Batched => Batched'
           /\ Fresh => Fresh'
           /\ \A i \in Instances : MeantFor(i)' = MeantFor(i)
           /\ \A x \in Sockets : \A k : Coming(x, k)' <=> Coming(x, k)
<1>1. \A x \in Sockets : Missed(task[x])' = Missed(task[x])
  BY DEF Missed, Human, Hears
<1>2. \A x \in Sockets : \A k : Coming(x, k)' <=> Coming(x, k)
  BY <1>1 DEF Coming
<1> QED BY <1>2 DEF Atomic, Batched, Fresh, MeantFor

LEMMA StillServed ==
    ASSUME UNCHANGED <<registry, conns, groups, log, boundary, task, open, running>>,
           NEW i \in Instances, sock[i] \in Sockets \cup {None}, Served(i),
           sock'[i] = sock[i], cursor'[i] = cursor[i], emitted'[i] = emitted[i],
           sock[i] # None => wire'[sock[i]] = wire[sock[i]]
    PROVE  Served(i)'
<1>1. MeantFor(i)' = MeantFor(i) /\ Had(i)' = Had(i)
  BY HubStays DEF Had
<1>2. Kept(i)'
  BY <1>1 DEF Served, Kept
<1>3. Ordered(i)'
  BY <1>1 DEF Served, Ordered, Carries, Reach
<1>4. UpToDate(i)'
  <2> SUFFICES ASSUME Hearing(i)', NEW k \in MeantFor(i)' PROVE Reached(i, k)'
    BY DEF UpToDate
  <2>1. Hearing(i) /\ sock[i] \in Sockets /\ sock[i] # None
    BY DEF Hearing
  <2>2. Reached(i, k)
    BY <1>1, <2>1 DEF Served, UpToDate
  <2>3. OnWire(sock[i], k) => OnWire(sock[i], k)'
    BY <2>1 DEF OnWire, Carries
  <2>4. Coming(sock[i], k) => Coming(sock[i], k)'
    <3>1. \A x \in Sockets : Coming(x, k) => (Coming(x, k))'
      BY HubStays
    <3>2. PICK x \in Sockets : x = sock[i]
      BY <2>1
    <3>3. Coming(x, k) => (Coming(x, k))'
      BY <3>1
    <3>4. sock'[i] = x
      BY <3>2
    <3> QED BY <3>2, <3>3, <3>4 DEF Coming
  <2>5. \A h \in Sockets : Pending(i, h, k) => Pending(i, h, k)'
    BY DEF Pending
  <2> QED BY <1>1, <2>2, <2>3, <2>4, <2>5 DEF Reached
<1> QED BY <1>2, <1>3, <1>4 DEF Served

LEMMA TailAt ==
    ASSUME NEW S, NEW q \in Seq(S), q # <<>>
    PROVE  /\ Len(q) \in Nat /\ DOMAIN q = 1..Len(q) /\ 1 \in DOMAIN q /\ Head(q) = q[1]
           /\ DOMAIN Tail(q) = 1..(Len(q) - 1)
           /\ \A j \in 1..(Len(q) - 1) : Tail(q)[j] = q[j + 1]
OBVIOUS

LEMMA ReadCalm ==
    ASSUME SessionsInv, ListenersInv, CalmInv, NEW i \in Instances, Read(i)
    PROVE  CalmInv'
<1> DEFINE x == sock[i]
           m == Head(wire[sock[i]])
<1>1. /\ x \in Sockets /\ wire[x] \in Seq(FrameType) /\ wire[x] # <<>>
      /\ wire' = [wire EXCEPT ![x] = Tail(@)]
      /\ cursor' = [cursor EXCEPT ![i] = AtLeast(@, Reach(m))]
      /\ \A j \in Instances \ {i} : emitted'[j] = emitted[j]
      /\ \A k : k \in Had(i)' <=> k \in Had(i) \/ k \in News(m, cursor[i])
  BY Reads
<1>2. UNCHANGED <<registry, conns, groups, log, boundary, task, open, running, sock>>
  BY DEF Read
<1>3. /\ Shape /\ Len(log) \in Nat /\ DOMAIN log = 1..Len(log)
      /\ cursor \in [Instances -> 0..Len(log)] /\ wire \in [Sockets -> Seq(FrameType)]
      /\ Atomic /\ Batched /\ Fresh /\ Served(i)
      /\ \A j \in Instances : sock[j] \in Sockets \cup {None}
  BY DEF SessionsInv, Shape, ListenersInv, Listening, CalmInv
<1>4. Atomic' /\ Batched' /\ Fresh' /\ MeantFor(i)' = MeantFor(i)
  BY <1>2, <1>3, HubStays
<1>5. x # None
  BY <1>1, SessionsAssumption DEF Sockets
<1>6. ASSUME NEW j \in Instances, j # i PROVE Served(j)'
  <2>1. sock[j] # x \/ sock[j] = None
    BY <1>5, <1>6 DEF ListenersInv, Dialled
  <2>2. sock[j] # None => wire'[sock[j]] = wire[sock[j]]
    BY <1>1, <1>3, <2>1
  <2>3. sock'[j] = sock[j] /\ cursor'[j] = cursor[j] /\ emitted'[j] = emitted[j]
    BY <1>1, <1>2, <1>3, <1>6
  <2>4. Served(j)
    BY DEF CalmInv
  <2> QED BY <1>2, <1>3, <2>2, <2>3, <2>4, StillServed
<1>7. /\ Len(wire[x]) \in Nat /\ 1 \in DOMAIN wire[x] /\ m = wire[x][1]
      /\ DOMAIN wire[x] = 1..Len(wire[x])
  BY <1>1, TailAt
<1>8. wire'[x] = Tail(wire[x])
  BY <1>1, <1>3
<1>9. /\ DOMAIN wire'[x] = 1..(Len(wire[x]) - 1)
      /\ \A j \in 1..(Len(wire[x]) - 1) : wire'[x][j] = wire[x][j + 1]
  <2>1. /\ DOMAIN Tail(wire[x]) = 1..(Len(wire[x]) - 1)
        /\ \A j \in 1..(Len(wire[x]) - 1) : Tail(wire[x])[j] = wire[x][j + 1]
    BY <1>1, TailAt
  <2> QED BY <1>8, <2>1
<1> HIDE DEF m
<1>10. cursor'[i] = cursor[i] \/ cursor'[i] = Reach(m)
  BY <1>1, <1>3 DEF AtLeast
<1>11. ASSUME NEW k \in MeantFor(i), Carries(m, k) PROVE k \in Had(i)'
  <2>1. k \in DOMAIN log /\ k \in Nat /\ cursor[i] \in Nat
    BY <1>3 DEF MeantFor
  <2>2. CASE k <= cursor[i]
    BY <1>1, <1>3, <2>2 DEF Served, Kept
  <2>3. CASE k > cursor[i]
    BY <1>1, <1>11, <2>1, <2>3 DEF News
  <2> QED BY <2>1, <2>2, <2>3
<1>12. Kept(i)'
  <2> SUFFICES ASSUME NEW k \in MeantFor(i), k <= cursor'[i], k \notin Had(i) PROVE k \in Had(i)'
    BY <1>1, <1>4 DEF Kept
  <2>1. CASE k <= cursor[i]
    BY <1>3, <2>1 DEF Served, Kept
  <2>2. CASE k <= Reach(m)
    <3>1. \E q \in 1..1 : Carries(wire[x][q], k)
      BY <1>3, <1>5, <1>7, <2>2 DEF Served, Ordered
    <3>2. Carries(m, k)
      BY <1>7, <3>1
    <3> QED BY <1>11, <3>2
  <2> QED BY <1>10, <2>1, <2>2
<1>13. Ordered(i)'
  <2>1. ASSUME NEW j \in DOMAIN wire'[x], NEW k \in MeantFor(i), k \notin Had(i)', k <= Reach(wire'[x][j])
        PROVE  \E q \in 1..j : Carries(wire'[x][q], k)
    <3>1. j + 1 \in DOMAIN wire[x] /\ wire'[x][j] = wire[x][j + 1] /\ j \in Nat
      BY <1>7, <1>9
    <3>2. PICK q \in 1..(j + 1) : Carries(wire[x][q], k)
      BY <1>1, <1>3, <1>5, <2>1, <3>1 DEF Served, Ordered
    <3>3. q # 1
      BY <1>7, <1>11, <2>1, <3>2
    <3>4. q - 1 \in 1..j /\ q - 1 \in 1..(Len(wire[x]) - 1) /\ (q - 1) + 1 = q
      BY <1>7, <3>1, <3>3
    <3>5. Carries(wire'[x][q - 1], k)
      BY <1>9, <3>2, <3>4
    <3> QED BY <3>4, <3>5
  <2>2. sock'[i] = x
    BY <1>2
  <2> QED BY <1>4, <2>1, <2>2 DEF Ordered, Carries, Reach
<1>14. UpToDate(i)'
  <2> SUFFICES ASSUME Hearing(i)', NEW k \in MeantFor(i)' PROVE Reached(i, k)'
    BY DEF UpToDate
  <2>1. Hearing(i)
    BY <1>2 DEF Hearing
  <2>2. k \in MeantFor(i) /\ Reached(i, k)
    BY <1>3, <1>4, <2>1 DEF Served, UpToDate
  <2>3. k \in Had(i) => k \in Had(i)'
    BY <1>1
  <2>4. ASSUME OnWire(x, k) PROVE k \in Had(i)' \/ OnWire(sock[i], k)'
    <3>1. PICK q \in DOMAIN wire[x] : Carries(wire[x][q], k)
      BY <2>4 DEF OnWire
    <3>2. CASE q = 1
      BY <1>7, <1>11, <2>2, <3>1, <3>2
    <3>3. CASE q # 1
      <4>1. q - 1 \in 1..(Len(wire[x]) - 1) /\ (q - 1) + 1 = q
        BY <1>7, <3>3
      <4>2. Carries(wire'[x][q - 1], k) /\ q - 1 \in DOMAIN wire'[x]
        BY <1>9, <3>1, <4>1
      <4>3. \E p \in DOMAIN wire'[x] : Carries(wire'[x][p], k)
        BY <4>2
      <4> QED BY <1>2, <4>3 DEF OnWire, Carries
    <3> QED BY <3>2, <3>3
  <2>5. Coming(x, k) => Coming(sock[i], k)'
    <3>1. PICK y \in Sockets : y = x
      BY <1>1
    <3>2. Coming(y, k) => (Coming(y, k))'
      BY <1>2, HubStays
    <3>3. sock'[i] = y
      BY <1>2, <3>1
    <3> QED BY <3>1, <3>2, <3>3 DEF Coming
  <2>6. \A h \in Sockets : Pending(i, h, k) => Pending(i, h, k)'
    BY <1>2 DEF Pending
  <2> QED BY <2>2, <2>3, <2>4, <2>5, <2>6 DEF Reached
<1>15. \A j \in Instances : Served(j)'
  BY <1>6, <1>12, <1>13, <1>14 DEF Served
<1> QED BY <1>4, <1>15 DEF CalmInv

LEMMA ReconnectCalm ==
    ASSUME SessionsInv, ListenersInv, CalmInv, NEW i \in Instances, Reconnect(i)
    PROVE  CalmInv'
<1>1. /\ UNCHANGED <<registry, conns, groups, log, boundary, task, open, running>>
      /\ wire' = wire /\ cursor' = cursor /\ emitted' = emitted /\ sock' = [sock EXCEPT ![i] = None]
  BY DEF Reconnect, vars
<1>2. sock \in [Instances -> Sockets \cup {None}] /\ Atomic /\ Batched /\ Fresh
  BY DEF ListenersInv, Listening, CalmInv
<1>3. ASSUME NEW j \in Instances PROVE Served(j)'
  <2>1. Served(j)
    BY DEF CalmInv
  <2>2. CASE j # i
    BY <1>1, <1>2, <2>1, <2>2, StillServed
  <2>3. CASE j = i
    <3>1. sock'[j] = None
      BY <1>1, <1>2, <2>3
    <3>2. MeantFor(j)' = MeantFor(j) /\ Had(j)' = Had(j)
      BY <1>1 DEF MeantFor, Had
    <3>3. Kept(j)'
      BY <1>1, <2>1, <3>2 DEF Served, Kept
    <3> QED BY <3>1, <3>3 DEF Served, Ordered, UpToDate, Hearing
  <2> QED BY <2>2, <2>3
<1>4. Atomic' /\ Batched' /\ Fresh'
  BY <1>1, <1>2, HubStays
<1> QED BY <1>3, <1>4 DEF CalmInv

LEMMA CalmInit == ASSUME DInit PROVE CalmInv
<1>1. /\ sock = [i \in Instances |-> None] /\ log = <<>> /\ conns = [n \in Nicks |-> {}]
      /\ \A s \in Sockets : task[s] = NoTask
  BY DEF DInit, Init
<1>2. NoTask.batch = {} /\ NoTask.pc = "new"
  BY DEF NoTask
<1>3. Atomic /\ Batched /\ Fresh
  BY <1>1, <1>2 DEF Atomic, Resting, Batched, Fresh, Before
<1>4. \A i \in Instances : MeantFor(i) = {}
  BY <1>1 DEF MeantFor
<1>5. \A i \in Instances : Served(i)
  BY <1>1, <1>4 DEF Served, Ordered, UpToDate, Hearing, Kept
<1> QED BY <1>3, <1>5 DEF CalmInv

LEMMA CalmStep ==
    ASSUME Calm, SessionsInv, ListenersInv, CalmInv, [DNext]_allvars
    PROVE  CalmInv'
<1>1. CASE UNCHANGED allvars
  <2>1. /\ UNCHANGED <<registry, conns, groups, log, boundary, task, open, running>>
        /\ UNCHANGED <<wire, sock, cursor, emitted>>
    BY <1>1 DEF allvars, vars, clients
  <2>2. \A i \in Instances : sock[i] \in Sockets \cup {None} /\ Served(i)
    BY DEF ListenersInv, Listening, CalmInv
  <2>3. \A i \in Instances : Served(i)'
    BY <2>1, <2>2, StillServed
  <2>4. Atomic' /\ Batched' /\ Fresh'
    BY <2>1, HubStays DEF CalmInv
  <2> QED BY <2>3, <2>4 DEF CalmInv
<1>2. ASSUME NEW i \in Instances, NEW s \in Sockets, Dial(i, s) PROVE CalmInv'
  BY <1>2, DialCalm
<1>3. ASSUME NEW i \in Instances, Read(i) PROVE CalmInv'
  BY <1>3, ReadCalm
<1>4. ASSUME NEW i \in Instances, Reconnect(i) PROVE CalmInv'
  BY <1>4, ReconnectCalm
<1>5. ASSUME NEW s \in Sockets, Frame(s), UNCHANGED clients PROVE CalmInv'
  BY <1>5, FrameServes, HubCalmKeeps
<1>6. ASSUME NEW s \in Sockets, Handler(s), UNCHANGED clients PROVE CalmInv'
  <2>1. CASE Enter(s)
    BY <1>6, <2>1, EnterCalm
  <2>2. CASE ~Enter(s)
    <3>1. sock' = sock
      BY <1>6 DEF clients
    <3>2. HubServes(s)
      BY <1>6, <2>2, <3>1, HandlerServes
    <3> QED BY <1>6, <3>2, HubCalmKeeps
  <2> QED BY <2>1, <2>2
<1>7. ASSUME NEW s \in Sockets, Disconnect(s), UNCHANGED clients PROVE CalmInv'
  BY <1>7, DisconnectServes, HubCalmKeeps
<1> QED BY <1>1, <1>2, <1>3, <1>4, <1>5, <1>6, <1>7 DEF DNext

\* The inductive invariant of a calm hub: what a connected listener has not had is
\* on its wire, in the order of the log, or in the hand of the one handler that
\* runs.
THEOREM CalmInvariant == ASSUME Calm PROVE DSpec => []CalmInv
<1>1. DInit => CalmInv
  BY CalmInit
<1>2. SessionsInv /\ ListenersInv /\ CalmInv /\ [DNext]_allvars => CalmInv'
  BY CalmStep
<1> QED BY <1>1, <1>2, ListenersInvariant, PTL DEF DSpec

\* While the hub is calm, a listener's cursor moves past a frame that is meant for
\* it only by showing it: _on_hello, _dispatch and _broadcast send in the order of
\* the log as long as no send suspends.  Each part of Calm is needed: with sends
\* that suspend, a live frame overtakes a catch-up (DeliveryOvertaken.cfg); a snapshot
\* between a hello and its catch-up takes the missed frames away; and a chat whose
\* recipient is misspelt is logged and published to nobody when its sender is gone.
THEOREM MentionsKept == ASSUME Calm PROVE DSpec => []NothingSkipped
<1>1. CalmInv => NothingSkipped
  BY DEF CalmInv, Served, Kept, NothingSkipped
<1> QED BY <1>1, CalmInvariant, PTL
=============================================================================
