------------------------ MODULE ListenerSessionProofs ------------------------
(***************************************************************************)
(* What client_session.py and listen promise about the files of one        *)
(* machine, for any number of processes, nicks, starts, frames and         *)
(* activations.                                                            *)
(*                                                                         *)
(* A nick has one listener: a lock is only ever held on the inode that its *)
(* path names.  The cursors rest on it: who holds the lock of a nick has   *)
(* in memory what the nick's file says, since nobody else changes that     *)
(* file, and everything before the frame it is handling was given to the   *)
(* agent. The identities rest on what can be drawn at most once: a new one *)
(* is in no file, no memory and not with the hub, and the shared one of    *)
(* old goes to the first session that takes it.                            *)
(*                                                                         *)
(* The theorems have two hypotheses, which the README says more about:     *)
(* Raced = FALSE, no purge unlinks the lock's file between the open and    *)
(* the flock of a listener; and, but for the lock, LiveReset = FALSE,      *)
(* nobody resets the cursor of a connected listener.  Without them the     *)
(* properties do not hold.                                                 *)
(***************************************************************************)
EXTENDS ListenerSession, TLAPS

\* Every process is a record of Idle's fields, every lock has its fields.
Shape ==
    /\ me = [p \in Procs |-> me[p]]
    /\ \A p \in Procs : DOMAIN me[p] = DOMAIN Idle
    /\ lock \in [Nicks -> [path : 0..2, made : 0..2, held : [Inodes -> Procs \cup {None}]]]

\* A lock is held on the inode that its path names, and whoever is about to lock
\* has opened that one.
HeldAtPath ==
    \A n \in Nicks : \A i \in Inodes : lock[n].held[i] # None => i = lock[n].path
OpenedAtPath ==
    \A p \in Procs :
        /\ me[p].pc \in {"open", "assigned", "flock"} => me[p].nick \in Nicks
        /\ me[p].pc = "flock" => me[p].fd \in Inodes /\ me[p].fd = lock[me[p].nick].path
LockInv == Shape /\ HeldAtPath /\ OpenedAtPath

\* A step that takes no lock and unlinks none: it leaves the locks alone or gives
\* up those of one process, and nobody comes to the point of locking in it.
NoLocking ==
    /\ Shape'
    /\ lock' = lock \/ \E p \in Procs : lock' = Released(p)
    /\ \A q \in Procs :
         /\ me'[q].pc = "flock" => me[q].pc = "flock" /\ me'[q].nick = me[q].nick
                                   /\ me'[q].fd = me[q].fd
         /\ me'[q].pc \in {"open", "assigned"} => me'[q].nick \in Nicks

LEMMA NoLockingKeeps ==
    ASSUME LockInv, NoLocking
    PROVE  LockInv'
<1>1. \A n \in Nicks : /\ lock'[n].path = lock[n].path
                       /\ \A i \in Inodes : lock'[n].held[i] # None => lock[n].held[i] # None
  <2>1. CASE lock' = lock
    BY <2>1
  <2>2. ASSUME NEW p \in Procs, lock' = Released(p)
        PROVE  \A n \in Nicks : /\ lock'[n].path = lock[n].path
                       /\ \A i \in Inodes : lock'[n].held[i] # None => lock[n].held[i] # None
    BY <2>2 DEF Released, LockInv, Shape
  <2> QED BY <2>1, <2>2 DEF NoLocking
<1>2. HeldAtPath'
  BY <1>1 DEF LockInv, HeldAtPath, Inodes
<1>3. OpenedAtPath'
  BY <1>1 DEF LockInv, OpenedAtPath, NoLocking, Inodes
<1> QED BY <1>2, <1>3 DEF LockInv, NoLocking

LEMMA ReleasedShape ==
    ASSUME LockInv, NEW p \in Procs
    PROVE  Released(p) \in [Nicks -> [path : 0..2, made : 0..2, held : [Inodes -> Procs \cup {None}]]]
BY DEF Released, LockInv, Shape

\* A process that changes only itself, and does not come to the point of locking.
LEMMA OneMoves ==
    ASSUME LockInv, NEW p \in Procs, NEW r,
           me' = [me EXCEPT ![p] = r],
           DOMAIN r = DOMAIN Idle,
           \/ /\ r.pc # "flock"
              /\ r.pc \in {"open", "assigned"} => r.nick \in Nicks
           \/ r.pc = me[p].pc /\ r.nick = me[p].nick /\ r.fd = me[p].fd,
           lock' = lock \/ lock' = Released(p)
    PROVE  LockInv'
<1>1. me' = [q \in Procs |-> IF q = p THEN r ELSE me[q]]
  BY DEF LockInv, Shape
<1>2. Shape'
  BY <1>1, ReleasedShape DEF LockInv, Shape
<1>3. NoLocking
  BY <1>1, <1>2 DEF NoLocking, LockInv, OpenedAtPath
<1> QED BY <1>3, NoLockingKeeps

LEMMA Initially == Init => LockInv
<1> SUFFICES ASSUME Init PROVE LockInv
  OBVIOUS
<1>1. Shape
  BY ListenerAssumption DEF Init, Shape, Idle, NoLock, Inodes
<1>2. HeldAtPath /\ OpenedAtPath
  BY DEF Init, HeldAtPath, OpenedAtPath, NoLock, Idle, Inodes
<1> QED BY <1>1, <1>2 DEF LockInv

LEMMA EndsKeeps ==
    ASSUME LockInv, NEW p \in Procs, Ends(p)
    PROVE  LockInv'
<1>1. DOMAIN Idle = DOMAIN Idle /\ Idle.pc = "down"
  BY DEF Idle
<1> QED BY <1>1, OneMoves DEF Ends

LEMMA ReconnectsKeeps ==
    ASSUME LockInv, NEW p \in Procs, Reconnects(p), lock' = lock
    PROVE  LockInv'
<1> DEFINE r == [Idle EXCEPT !.pc = "dial", !.nick = me[p].nick, !.mem = me[p].mem,
                             !.once = me[p].once, !.fresh = me[p].fresh]
<1>1. DOMAIN r = DOMAIN Idle /\ r.pc = "dial"
  BY DEF Idle
<1>2. me' = [me EXCEPT ![p] = r]
  BY DEF Reconnects
<1> HIDE DEF r
<1> QED BY <1>1, <1>2, OneMoves

\* The steps with a frame: what is saved, the place stays in reply or live.
LEMMA SavesAsKeeps ==
    ASSUME LockInv, NEW p \in Procs, NEW s, NEW then, SavesAs(p, s, then),
           DOMAIN then = DOMAIN Idle, lock' = lock,
           \/ then.pc \notin {"open", "assigned", "flock"}
           \/ then.pc = me[p].pc /\ then.nick = me[p].nick /\ then.fd = me[p].fd
    PROVE  LockInv'
<1> DEFINE r == [then EXCEPT !.mem = s]
<1>1. DOMAIN r = DOMAIN Idle /\ r.pc = then.pc /\ r.nick = then.nick /\ r.fd = then.fd
  BY DEF Idle
<1>2. me' = [me EXCEPT ![p] = r]
  BY DEF SavesAs
<1> HIDE DEF r
<1> QED BY <1>1, <1>2, OneMoves

\* acquire_listener_lock, first half: a new file is made where there was none, so
\* that nobody has it locked.
LEMMA OpenLockKeeps ==
    ASSUME LockInv, NEW p \in Procs, OpenLock(p)
    PROVE  LockInv'
<1> DEFINE n == me[p].nick
           i == IF lock[n].path # 0 THEN lock[n].path ELSE lock[n].made + 1
           l == [lock[n] EXCEPT !.path = i, !.made = IF i > @ THEN i ELSE @]
           r == [me[p] EXCEPT !.pc = "flock", !.fd = i]
<1>1. n \in Nicks /\ i \in Inodes
  BY DEF OpenLock, LockInv, OpenedAtPath
<1>2. /\ l \in [path : 0..2, made : 0..2, held : [Inodes -> Procs \cup {None}]]
      /\ l.path = i /\ l.held = lock[n].held
  <2>1. lock[n] \in [path : 0..2, made : 0..2, held : [Inodes -> Procs \cup {None}]]
    BY <1>1 DEF LockInv, Shape
  <2>2. i \in 0..2
    BY <1>1 DEF Inodes
  <2> HIDE DEF n, i
  <2> QED BY <2>1, <2>2
<1>3. DOMAIN r = DOMAIN Idle /\ r.pc = "flock" /\ r.fd = i /\ r.nick = n
  BY DEF LockInv, Shape, Idle
<1>4. lock' = [lock EXCEPT ![n] = l] /\ me' = [me EXCEPT ![p] = r]
  BY DEF OpenLock, LockInv, Shape
<1>5. lock[n].path = 0 \/ i = lock[n].path
  OBVIOUS
<1> HIDE DEF n, i, l, r
<1>6. me' = [q \in Procs |-> IF q = p THEN r ELSE me[q]]
  BY <1>4 DEF LockInv, Shape
<1>7. Shape'
  BY <1>1, <1>2, <1>3, <1>4, <1>6 DEF LockInv, Shape
<1>8. HeldAtPath'
  BY <1>1, <1>2, <1>4, <1>5 DEF LockInv, HeldAtPath, Shape, Inodes
<1>9. OpenedAtPath'
  BY <1>1, <1>2, <1>3, <1>4, <1>5, <1>6 DEF LockInv, OpenedAtPath, Shape, Inodes
<1> QED BY <1>7, <1>8, <1>9 DEF LockInv

\* Second half: what is locked is what was opened, which is still at the path.
LEMMA FlockKeeps ==
    ASSUME LockInv, NEW p \in Procs, Flock(p)
    PROVE  LockInv'
<1> DEFINE n == me[p].nick
           l == [lock[n] EXCEPT !.held = [@ EXCEPT ![me[p].fd] = p]]
           r == [me[p] EXCEPT !.pc = IF me[p].boot = None THEN "dial" ELSE "adopt", !.fd = 0]
<1>1. n \in Nicks /\ me[p].fd \in Inodes /\ me[p].fd = lock[n].path
  BY DEF Flock, LockInv, OpenedAtPath
<1>2. CASE lock[n].held[me[p].fd] # None
  BY <1>2, EndsKeeps DEF Flock
<1>3. CASE lock[n].held[me[p].fd] = None
  <2>1. lock' = [lock EXCEPT ![n] = l] /\ me' = [me EXCEPT ![p] = r]
    BY <1>3 DEF Flock
  <2>2. /\ l \in [path : 0..2, made : 0..2, held : [Inodes -> Procs \cup {None}]]
        /\ l.path = lock[n].path
        /\ \A i \in Inodes : i # me[p].fd => l.held[i] = lock[n].held[i]
    BY <1>1 DEF LockInv, Shape, Inodes
  <2>3. DOMAIN r = DOMAIN Idle /\ r.pc \in {"dial", "adopt"}
    BY DEF LockInv, Shape, Idle
  <2> HIDE DEF l, r
  <2>4. me' = [q \in Procs |-> IF q = p THEN r ELSE me[q]]
    BY <2>1 DEF LockInv, Shape
  <2>5. Shape'
    BY <1>1, <2>1, <2>2, <2>3, <2>4 DEF LockInv, Shape
  <2>6. HeldAtPath'
    BY <1>1, <2>1, <2>2 DEF LockInv, HeldAtPath, Shape
  <2>7. OpenedAtPath'
    BY <1>1, <2>1, <2>2, <2>3, <2>4 DEF LockInv, OpenedAtPath, Shape
  <2> QED BY <2>5, <2>6, <2>7 DEF LockInv
<1> QED BY <1>2, <1>3

\* A purge that finds the lock free, and nobody on the way to locking it.
LEMMA PurgeLockKeeps ==
    ASSUME LockInv, Raced = FALSE, NEW n \in Nicks, PurgeLock(n)
    PROVE  LockInv'
<1> DEFINE l == [lock[n] EXCEPT !.path = 0]
<1>1. lock' = [lock EXCEPT ![n] = l] /\ me' = me
  BY DEF PurgeLock
<1>2. /\ l \in [path : 0..2, made : 0..2, held : [Inodes -> Procs \cup {None}]]
      /\ l.held = lock[n].held
  BY DEF LockInv, Shape
<1>3. \A i \in Inodes : lock[n].held[i] = None
  BY DEF PurgeLock, LockInv, HeldAtPath
<1>4. \A p \in Procs : ~(me[p].nick = n /\ me[p].pc = "flock")
  BY DEF PurgeLock, Opening
<1> HIDE DEF l
<1>5. Shape'
  BY <1>1, <1>2 DEF LockInv, Shape
<1>6. HeldAtPath'
  BY <1>1, <1>2, <1>3 DEF LockInv, HeldAtPath, Shape
<1>7. OpenedAtPath'
  BY <1>1, <1>4 DEF LockInv, OpenedAtPath, Shape
<1> QED BY <1>5, <1>6, <1>7 DEF LockInv

\* The hub pushes a frame to those who are connected.
LEMMA SayKeeps ==
    ASSUME LockInv, Say
    PROVE  LockInv'
<1> DEFINE r(p) == IF \E n \in Nicks : p \in conns[n]
                   THEN [me[p] EXCEPT !.sent = Len(log')] ELSE me[p]
<1>1. me' = [p \in Procs |-> r(p)] /\ lock' = lock
  BY DEF Say, disk
<1>2. \A p \in Procs : /\ DOMAIN r(p) = DOMAIN Idle /\ r(p).pc = me[p].pc
                       /\ r(p).nick = me[p].nick /\ r(p).fd = me[p].fd
  BY DEF LockInv, Shape, Idle
<1> HIDE DEF r
<1>3. Shape'
  BY <1>1, <1>2 DEF LockInv, Shape
<1>4. NoLocking
  BY <1>1, <1>2, <1>3 DEF NoLocking, LockInv, OpenedAtPath
<1> QED BY <1>4, NoLockingKeeps

\* The steps of a listener that are not its lock's.
LEMMA StartKeeps ==
    ASSUME LockInv, NEW p \in Procs, Start(p)
    PROVE  LockInv'
<1>1. PICK mode \in Modes :
        LET new == [Idle EXCEPT !.once = mode.once, !.fresh = mode.fresh] IN
        \/ me' = [me EXCEPT ![p] = [new EXCEPT !.pc = "dial"]]
        \/ \E n \in Named :
             me' = [me EXCEPT ![p] = [new EXCEPT !.pc = "open", !.nick = n, !.mem = Loaded(n)]]
  BY DEF Start
<1>2. lock' = lock
  BY DEF Start
<1> DEFINE new == [Idle EXCEPT !.once = mode.once, !.fresh = mode.fresh]
           dialing == [new EXCEPT !.pc = "dial"]
           opening(n) == [new EXCEPT !.pc = "open", !.nick = n, !.mem = Loaded(n)]
<1>3. /\ DOMAIN dialing = DOMAIN Idle /\ dialing.pc = "dial"
      /\ \A n \in Named : /\ DOMAIN opening(n) = DOMAIN Idle
                          /\ opening(n).pc = "open" /\ opening(n).nick = n
  BY DEF Idle
<1>4. CASE me' = [me EXCEPT ![p] = dialing]
  <2> HIDE DEF dialing
  <2> QED BY <1>2, <1>3, <1>4, OneMoves
<1>5. ASSUME NEW n \in Named, me' = [me EXCEPT ![p] = opening(n)]
      PROVE  LockInv'
  <2>1. n \in Nicks
    BY ListenerAssumption
  <2> HIDE DEF opening
  <2> QED BY <1>2, <1>3, <1>5, <2>1, OneMoves
<1> QED BY <1>1, <1>4, <1>5

LEMMA OpenAssignedKeeps ==
    ASSUME LockInv, NEW p \in Procs, OpenAssigned(p)
    PROVE  LockInv'
<1> DEFINE r == [me[p] EXCEPT !.pc = "open", !.mem = Loaded(me[p].nick)]
<1>1. me' = [me EXCEPT ![p] = r] /\ lock' = lock
  BY DEF OpenAssigned
<1>2. DOMAIN r = DOMAIN Idle /\ r.pc = "open" /\ r.nick = me[p].nick
  BY DEF LockInv, Shape, Idle
<1>3. me[p].nick \in Nicks
  BY DEF OpenAssigned, LockInv, OpenedAtPath
<1> HIDE DEF r
<1> QED BY <1>1, <1>2, <1>3, OneMoves

LEMMA RefusedKeeps ==
    ASSUME LockInv, NEW p \in Procs, Refused(p)
    PROVE  LockInv'
<1> DEFINE r(m) == [me[p] EXCEPT !.pc = "open", !.nick = m, !.mem = Loaded(m)]
<1>1. PICK m \in Nicks : me' = [me EXCEPT ![p] = r(m)]
  BY DEF Refused
<1>2. lock' = Released(p)
  BY DEF Refused
<1>3. DOMAIN r(m) = DOMAIN Idle /\ r(m).pc = "open" /\ r(m).nick = m
  BY DEF LockInv, Shape, Idle
<1> HIDE DEF r
<1> QED BY <1>1, <1>2, <1>3, OneMoves

LEMMA WelcomeKeeps ==
    ASSUME LockInv, NEW p \in Procs, NEW n, NEW i, NEW c, NEW pc,
           Welcome(p, n, i, c, pc),
           pc = "reply" \/ (pc = "assigned" /\ n \in Nicks)
    PROVE  LockInv'
<1>1. PICK from : me' = [me EXCEPT ![p] = [@ EXCEPT
                !.pc = pc, !.nick = n, !.boot = IF pc = "assigned" THEN i ELSE None,
                !.resync = from < Boundary, !.next = from + 1,
                !.end = Len(log), !.sent = Len(log), !.gave = FALSE]]
  BY DEF Welcome
<1> DEFINE r == [me[p] EXCEPT
                !.pc = pc, !.nick = n, !.boot = IF pc = "assigned" THEN i ELSE None,
                !.resync = from < Boundary, !.next = from + 1,
                !.end = Len(log), !.sent = Len(log), !.gave = FALSE]
<1>2. me' = [me EXCEPT ![p] = r] /\ lock' = lock
  BY <1>1 DEF Welcome, disk
<1>3. DOMAIN r = DOMAIN Idle /\ r.pc = pc /\ r.nick = n
  BY DEF LockInv, Shape, Idle
<1> HIDE DEF r
<1> QED BY <1>2, <1>3, OneMoves

LEMMA HelloKeeps ==
    ASSUME LockInv, NEW p \in Procs, Welcomed(p) \/ Assigned(p)
    PROVE  LockInv'
BY WelcomeKeeps DEF Welcomed, Assigned

\* What a listener does with a frame, or with a whole reply: it stays where it
\* is, saves its session, or is done.
LEMMA FrameKeeps ==
    ASSUME LockInv, NEW p \in Procs,
           Passes(p) \/ Suppress(p) \/ Emit(p) \/ HearConversation(p)
    PROVE  LockInv'
<1>1. PICK r : /\ me' = [me EXCEPT ![p] = r]
               /\ DOMAIN r = DOMAIN Idle
               /\ r.pc = me[p].pc /\ r.nick = me[p].nick /\ r.fd = me[p].fd
  <2>1. DOMAIN me[p] = DOMAIN Idle
    BY DEF LockInv, Shape
  <2>2. CASE Passes(p)
    <3> DEFINE r == [me[p] EXCEPT !.next = @ + 1]
    <3>1. me' = [me EXCEPT ![p] = r]
      BY <2>2 DEF Passes
    <3>2. DOMAIN r = DOMAIN Idle /\ r.pc = me[p].pc /\ r.nick = me[p].nick /\ r.fd = me[p].fd
      BY <2>1 DEF Idle
    <3> QED BY <3>1, <3>2
  <2>3. CASE Suppress(p)
    <3> DEFINE r == [me[p] EXCEPT !.mem = file[me[p].nick], !.step = "advance"]
    <3>1. me' = [me EXCEPT ![p] = r]
      BY <2>3 DEF Suppress
    <3>2. DOMAIN r = DOMAIN Idle /\ r.pc = me[p].pc /\ r.nick = me[p].nick /\ r.fd = me[p].fd
      BY <2>1 DEF Idle
    <3> QED BY <3>1, <3>2
  <2>4. CASE Emit(p)
    <3> DEFINE r == [me[p] EXCEPT !.gave = TRUE,
                        !.step = IF log[me[p].next] \in Acts THEN "mark" ELSE "advance"]
    <3>1. me' = [me EXCEPT ![p] = r]
      BY <2>4 DEF Emit
    <3>2. DOMAIN r = DOMAIN Idle /\ r.pc = me[p].pc /\ r.nick = me[p].nick /\ r.fd = me[p].fd
      BY <2>1 DEF Idle
    <3> QED BY <3>1, <3>2
  <2>5. CASE HearConversation(p)
    <3> DEFINE r == [me[p] EXCEPT !.resync = FALSE, !.next = me[p].end + 1, !.gave = TRUE]
    <3>1. me' = [me EXCEPT ![p] = r]
      BY <2>5 DEF HearConversation
    <3>2. DOMAIN r = DOMAIN Idle /\ r.pc = me[p].pc /\ r.nick = me[p].nick /\ r.fd = me[p].fd
      BY <2>1 DEF Idle
    <3> QED BY <3>1, <3>2
  <2> QED BY <2>2, <2>3, <2>4, <2>5
<1>2. lock' = lock
  BY DEF Passes, Suppress, Emit, HearConversation, disk
<1> QED BY <1>1, <1>2, OneMoves

LEMMA MarkKeeps ==
    ASSUME LockInv, NEW p \in Procs, Mark(p)
    PROVE  LockInv'
<1> DEFINE s == [file[me[p].nick] EXCEPT !.acts = Newest(Append(@, log[me[p].next]))]
           then == [me[p] EXCEPT !.step = "advance"]
<1>1. SavesAs(p, s, then) /\ lock' = lock
  BY DEF Mark
<1>2. /\ DOMAIN then = DOMAIN Idle
      /\ then.pc = me[p].pc /\ then.nick = me[p].nick /\ then.fd = me[p].fd
  BY DEF LockInv, Shape, Idle
<1> HIDE DEF s, then
<1> QED BY <1>1, <1>2, SavesAsKeeps

LEMMA SavesKeeps ==
    ASSUME LockInv, NEW p \in Procs, NEW s, NEW then,
           Saves(p, s, then) \/ (SavesAs(p, s, then) /\ lock' = lock),
           DOMAIN then = DOMAIN Idle,
           \/ then.pc \notin {"open", "assigned", "flock"}
           \/ then.pc = me[p].pc /\ then.nick = me[p].nick /\ then.fd = me[p].fd
    PROVE  LockInv'
<1>1. CASE SavesAs(p, s, then) /\ lock' = lock
  BY <1>1, SavesAsKeeps
<1>2. CASE Ends(p)
  BY <1>2, EndsKeeps
<1> QED BY <1>1, <1>2 DEF Saves

LEMMA AdvanceKeeps ==
    ASSUME LockInv, NEW p \in Procs, Advance(p)
    PROVE  LockInv'
<1> DEFINE s == Advanced(me[p].nick, me[p].next)
           then == [me[p] EXCEPT !.step = "next", !.next = @ + 1]
<1>1. Saves(p, s, then) \/ (SavesAs(p, s, then) /\ lock' = lock)
  BY DEF Advance
<1>2. /\ DOMAIN then = DOMAIN Idle
      /\ then.pc = me[p].pc /\ then.nick = me[p].nick /\ then.fd = me[p].fd
  BY DEF LockInv, Shape, Idle
<1> HIDE DEF s, then
<1> QED BY <1>1, <1>2, SavesKeeps

LEMMA EndReplyKeeps ==
    ASSUME LockInv, NEW p \in Procs, EndReply(p)
    PROVE  LockInv'
<1> DEFINE s == IF me[p].end = 0 THEN file[me[p].nick] ELSE Advanced(me[p].nick, me[p].end)
           then == [me[p] EXCEPT !.pc = "live", !.fresh = FALSE, !.gave = FALSE]
<1>1. Saves(p, s, then)
  BY DEF EndReply
<1>2. DOMAIN then = DOMAIN Idle /\ then.pc = "live"
  BY DEF LockInv, Shape, Idle
<1> HIDE DEF s, then
<1> QED BY <1>1, <1>2, SavesKeeps

LEMMA AdoptKeeps ==
    ASSUME LockInv, NEW p \in Procs, Adopt(p)
    PROVE  LockInv'
<1> DEFINE s == [inst |-> me[p].boot, cursor |-> 0, acts |-> <<>>]
           then == [me[p] EXCEPT !.pc = "reply", !.boot = None]
<1>1. SavesAs(p, s, then) /\ lock' = lock
  BY DEF Adopt, AdoptTo
<1>2. DOMAIN then = DOMAIN Idle /\ then.pc = "reply"
  BY DEF LockInv, Shape, Idle
<1> HIDE DEF s, then
<1> QED BY <1>1, <1>2, SavesKeeps

LEMMA ResetKeeps ==
    ASSUME LockInv, NEW p \in Procs, Reset(p)
    PROVE  LockInv'
<1> DEFINE s == [file[me[p].nick] EXCEPT !.cursor = 0, !.acts = <<>>]
           then == me[p]
<1>1. SavesAs(p, s, then) /\ lock' = lock
  BY DEF Reset
<1>2. DOMAIN then = DOMAIN Idle
  BY DEF LockInv, Shape
<1> HIDE DEF s
<1> QED BY <1>1, <1>2, SavesKeeps

LEMMA ListensKeeps ==
    ASSUME LockInv, NEW p \in Procs, Listens(p)
    PROVE  LockInv'
<1>1. CASE Start(p) \/ OpenAssigned(p) \/ OpenLock(p) \/ Flock(p) \/ Refused(p)
  BY <1>1, StartKeeps, OpenAssignedKeeps, OpenLockKeeps, FlockKeeps, RefusedKeeps
<1>2. CASE Welcomed(p) \/ Assigned(p) \/ Adopt(p) \/ Reset(p)
  BY <1>2, HelloKeeps, AdoptKeeps, ResetKeeps
<1>3. CASE Passes(p) \/ Suppress(p) \/ Emit(p) \/ HearConversation(p)
  BY <1>3, FrameKeeps
<1>4. CASE Mark(p) \/ Advance(p) \/ EndReply(p)
  BY <1>4, MarkKeeps, AdvanceKeeps, EndReplyKeeps
<1>5. CASE HangUp(p)
  BY <1>5, ReconnectsKeeps DEF HangUp, disk
<1>6. CASE Rejected(p) \/ End(p)
  BY <1>6, EndsKeeps DEF Rejected, End
<1> QED BY <1>1, <1>2, <1>3, <1>4, <1>5, <1>6 DEF Listens

\* The other steps move no listener and no lock, but for PurgeLock.
LEMMA StepKeeps ==
    ASSUME LockInv, Raced = FALSE, [Next]_vars
    PROVE  LockInv'
<1>1. ASSUME me' = me, lock' = lock PROVE LockInv'
  BY <1>1 DEF LockInv, Shape, HeldAtPath, OpenedAtPath
<1>2. ASSUME NEW p \in Procs, Listens(p) PROVE LockInv'
  BY <1>2, ListensKeeps
<1>3. ASSUME NEW p \in Procs, Lose(p) PROVE LockInv'
  BY <1>3, <1>1 DEF Lose, disk
<1>4. ASSUME NEW n \in Named, Send(n) PROVE LockInv'
  BY <1>4, <1>1 DEF Send
<1>5. ASSUME NEW n \in Nicks, PurgeCursor(n) PROVE LockInv'
  BY <1>5, <1>1 DEF PurgeCursor
<1>6. ASSUME NEW n \in Nicks, PurgeLock(n) PROVE LockInv'
  BY <1>6, PurgeLockKeeps
<1>7. CASE Say
  BY <1>7, SayKeeps
<1>8. CASE DeleteRoom
  BY <1>8, <1>1 DEF DeleteRoom, disk
<1>9. CASE UNCHANGED vars
  BY <1>9, <1>1 DEF vars, disk
<1> QED BY <1>2, <1>3, <1>4, <1>5, <1>6, <1>7, <1>8, <1>9 DEF Next

\* The lock is exclusive: as long as nobody unlinks the lock's file between a
\* listener's open and its flock, a nick has one listener, whatever else happens.
THEOREM ExclusiveListener == Raced = FALSE => (Spec => []OneListener)
<1> SUFFICES ASSUME Raced = FALSE PROVE Spec => []OneListener
  OBVIOUS
<1>1. LockInv => OneListener
  BY ListenerAssumption DEF LockInv, HeldAtPath, OneListener, Holds
<1>2. LockInv /\ [Next]_vars => LockInv'
  BY StepKeeps
<1> QED BY Initially, <1>1, <1>2, PTL DEF Spec

-----------------------------------------------------------------------------
(* What a cursor is worth.  The argument follows the holder of a lock: what  *)
(* it has in memory is what is on disk, because nobody else writes the file  *)
(* of its nick, and whatever lies before the frame that it is at was given.  *)

Records ==
    [pc : Points, nick : Nicks \cup {None}, mem : Sessions \cup {None},
     boot : Ids \cup {None}, fd : 0..2, step : Steps, next : Nat, end : Nat, sent : Nat,
     resync : BOOLEAN, gave : BOOLEAN, once : BOOLEAN, fresh : BOOLEAN]

Typed ==
    /\ log \in Seq({"hidden", "talk"} \cup Acts)
    /\ room \in {"up", "gone"} /\ legacy \in BOOLEAN
    /\ inst \in [Nicks -> Ids \cup {None}] /\ conns \in [Nicks -> SUBSET Procs]
    /\ file \in [Nicks -> Sessions \cup {None}]
    /\ me \in [Procs -> Records]
    /\ had \in [Nicks -> SUBSET Nat]

\* Frame k of the log l needs no giving to an agent that was given h.
Given(h, l, k) ==
    \/ k \in h
    \/ /\ k \in DOMAIN l
       /\ \/ l[k] = "hidden"
          \/ l[k] \in Acts /\ \E j \in h \cap DOMAIN l : l[j] = l[k]
Covered(h, l, c) == \A k \in 1..c : Given(h, l, k)
Remembered(h, l, acts) == \A i \in DOMAIN acts : \E j \in h \cap DOMAIN l : l[j] = acts[i]

\* A session file f of a nick that was given h.
Honest(f, h, l) ==
    /\ f # None => Covered(h, l, f.cursor) /\ Remembered(h, l, f.acts)
    /\ \A k \in h : k <= Len(l) \/ (f # None /\ k <= f.cursor)

\* Where the record t of a process can stand; l is the log.
Owns(t) == t.nick # None /\ t.pc \in {"dial", "adopt", "reply", "live"}
Hearing(t) == t.pc \in {"reply", "live"}
Present(t) == Hearing(t) \/ t.boot # None
Sitting(t) ==
    /\ t.pc \notin {"down", "dial"} => t.nick \in Nicks
    /\ t.pc \in {"open", "flock"} \/ Owns(t) => t.mem # None
    /\ t.step # "next" => Hearing(t)
    /\ t.step # "next" \/ t.pc = "live" => ~t.resync
    /\ t.boot # None => t.pc \in {"assigned", "open", "flock", "adopt"}
    /\ t.pc \in {"assigned", "adopt"} => t.boot # None
Reading(t, l) ==
    Present(t) =>
        /\ t.end <= Len(l) /\ t.sent <= Len(l) /\ t.next >= 1
        /\ t.fresh => t.pc # "live" /\ t.next = t.end + 1
        /\ t.boot # None /\ ~t.fresh => t.next = 1
        /\ t.pc = "reply" /\ t.step # "next" => t.next <= t.end
        /\ t.pc = "live" /\ t.step # "next" => t.next <= t.sent

\* What the agent behind t was given, h, is enough for where t is, and no more
\* than that.
Earning(t, h, l) ==
    /\ ~t.fresh => Covered(h, l, t.next - 1)
    /\ t.step = "mark" => t.next \in h /\ l[t.next] \in Acts
    /\ t.step = "advance" => Given(h, l, t.next)
    /\ \A k \in h : \/ k <= t.mem.cursor
                    \/ t.pc = "reply" /\ k <= t.end
                    \/ t.step # "next" /\ k <= t.next

\* What a listener has in memory is on disk, unless its room is gone.
Blank(f) == f.cursor = 0 /\ f.acts = <<>>
Matches(m, f, up) == m = f \/ (~up /\ (f = None \/ Blank(f)))

ProcInv(p) ==
    /\ Sitting(me[p]) /\ Reading(me[p], log)
    /\ Owns(me[p]) => /\ Holds(p, me[p].nick)
                      /\ Matches(me[p].mem, file[me[p].nick], room = "up")
    /\ Hearing(me[p]) => Earning(me[p], had[me[p].nick], log)
Routed ==
    \A p \in Procs : \A n \in Nicks : p \in conns[n] => me[p].nick = n /\ Present(me[p])
Deserted == log = <<>> /\ \A p \in Procs : Noticed(p)
FilesHonest == \A n \in Nicks : Honest(file[n], had[n], log)

CursorInv ==
    /\ LockInv /\ Typed /\ Routed
    /\ \A p \in Procs : ProcInv(p)
    /\ room = "gone" => Deserted
    /\ room = "up" => FilesHonest

\* Identities: no two files have the same, the legacy one is in none while it
\* can still be taken, and one that only the hub knows is in no file.
FilesDiffer ==
    \A n, m \in Nicks : n # m /\ file[n] # None /\ file[m] # None => file[n].inst # file[m].inst
LegacyOnce == legacy => \A n \in Nicks : file[n] # None => file[n].inst # LegacyId
BootsDiffer ==
    \A p \in Procs : me[p].boot # None =>
        /\ me[p].boot # LegacyId
        /\ \A n \in Nicks : file[n] # None => file[n].inst # me[p].boot
        /\ \A q \in Procs : me[q].boot = me[p].boot => q = p
HubKnows ==
    \A p \in Procs : \A n \in Nicks : p \in conns[n] =>
        /\ Hearing(me[p]) => file[n] # None /\ file[n].inst = inst[n]
        /\ ~Hearing(me[p]) => inst[n] = me[p].boot
IdentityInv == FilesDiffer /\ LegacyOnce /\ BootsDiffer /\ HubKnows

-----------------------------------------------------------------------------
(* The log and what was given only grow. *)

LEMMA GivenGrows ==
    ASSUME NEW h, NEW g, h \subseteq g, NEW l, NEW m, NEW k,
           \A j \in DOMAIN l : j \in DOMAIN m /\ m[j] = l[j],
           Given(h, l, k)
    PROVE  Given(g, m, k)
BY DEF Given

LEMMA HonestGrows ==
    ASSUME NEW f, NEW h, NEW l, NEW m, Len(l) \in Nat, Len(m) \in Nat, Len(l) <= Len(m),
           h \in SUBSET Nat,
           \A j \in DOMAIN l : j \in DOMAIN m /\ m[j] = l[j],
           Honest(f, h, l)
    PROVE  Honest(f, h, m)
<1>1. ASSUME NEW c, Covered(h, l, c) PROVE Covered(h, m, c)
  BY <1>1, GivenGrows DEF Covered
<1>2. ASSUME NEW acts, Remembered(h, l, acts) PROVE Remembered(h, m, acts)
  BY <1>2 DEF Remembered
<1>3. ASSUME NEW k \in h, k <= Len(l) PROVE k <= Len(m)
  <2>1. k \in Nat
    OBVIOUS
  <2> QED BY <1>3, <2>1
<1> QED BY <1>1, <1>2, <1>3 DEF Honest

\* A session that is just made promises nothing.
LEMMA BlankHonest ==
    ASSUME NEW f, NEW h, NEW l, Honest(None, h, l), f # None, Blank(f)
    PROVE  Honest(f, h, l)
<1>1. Covered(h, l, 0) /\ Remembered(h, l, <<>>)
  BY DEF Covered, Remembered
<1> QED BY <1>1 DEF Honest, Blank

-----------------------------------------------------------------------------
(* One process moves: its record becomes r. *)

LEMMA TwoHolders ==
    ASSUME LockInv, NEW p \in Procs, NEW q \in Procs, NEW n \in Nicks, Holds(p, n), Holds(q, n)
    PROVE  p = q
BY ListenerAssumption DEF LockInv, HeldAtPath, Holds

LEMMA HoldsKept ==
    ASSUME LockInv, NEW p \in Procs, lock' = lock \/ lock' = Released(p)
    PROVE  \A q \in Procs \ {p} : \A n \in Nicks :
             (\E i \in Inodes : lock[n].held[i] = q) => \E i \in Inodes : lock'[n].held[i] = q
BY DEF LockInv, Shape, Released

\* What a step of p leaves alone, the files that it may change, and where it
\* then stands.
Leaves(p) ==
    /\ room' = room /\ log' = log
    /\ legacy' \in BOOLEAN /\ inst' \in [Nicks -> Ids \cup {None}]
    /\ conns' \in [Nicks -> SUBSET Procs]
    /\ \A q \in Procs \ {p} : \A n \in Nicks :
         (\E i \in Inodes : lock[n].held[i] = q) => \E i \in Inodes : lock'[n].held[i] = q
    /\ \A n \in Nicks : \A q \in conns'[n] : q \in conns[n] \/ q = p
Writes(p) ==
    /\ file' \in [Nicks -> Sessions \cup {None}]
    /\ had' \in [Nicks -> SUBSET Nat]
    /\ \A n \in Nicks :
         \/ /\ had'[n] = had[n]
            /\ \/ file'[n] = file[n]
               \/ file[n] = None /\ file'[n] # None /\ Blank(file'[n])
         \/ /\ Owns(me[p]) /\ n = me[p].nick
            /\ room = "up" => Honest(file'[n], had'[n], log)
Stands(p, r) ==
    /\ r \in Records
    /\ Sitting(r) /\ Reading(r, log)
    /\ room = "gone" => r.pc \in {"down", "dial", "open", "flock"} /\ r.boot = None
    /\ \A n \in Nicks : p \in conns'[n] => r.nick = n /\ Present(r)
    /\ Owns(r) => /\ \E i \in Inodes : lock'[r.nick].held[i] = p
                  /\ Matches(r.mem, file'[r.nick], room = "up")
    /\ Hearing(r) => Earning(r, had'[r.nick], log)

LEMMA ProcStep ==
    ASSUME CursorInv, LockInv', NEW p \in Procs, NEW r,
           me' = [me EXCEPT ![p] = r], Leaves(p), Writes(p), Stands(p, r)
    PROVE  CursorInv'
<1> USE DEF Leaves, Writes, Stands
<1>1. Typed /\ LockInv /\ Routed /\ \A q \in Procs : ProcInv(q)
  BY DEF CursorInv
<1>2. me'[p] = r /\ \A q \in Procs \ {p} : me'[q] = me[q]
  BY <1>1 DEF Typed
<1>3. Typed'
  <2>1. me' \in [Procs -> Records]
    BY <1>1 DEF Typed
  <2> QED BY <1>1, <2>1 DEF Typed
<1>4. Routed'
  BY <1>1, <1>2 DEF Routed
<1>5. room' = "gone" => Deserted'
  BY <1>2 DEF CursorInv, Deserted, Noticed
<1>6. room' = "up" => FilesHonest'
  <2> SUFFICES ASSUME room = "up", NEW n \in Nicks PROVE Honest(file'[n], had'[n], log)
    BY DEF FilesHonest
  <2>1. Honest(file[n], had[n], log)
    BY DEF CursorInv, FilesHonest
  <2> QED BY <2>1, BlankHonest
<1>7. ASSUME NEW q \in Procs PROVE ProcInv(q)'
  <2>1. CASE q = p
    BY <1>2, <2>1 DEF ProcInv, Holds
  <2>2. CASE q # p
    <3>1. ProcInv(q) /\ me'[q] = me[q] /\ me[q] \in Records
      BY <1>1, <1>2, <2>2 DEF Typed
    <3>2. CASE ~Owns(me[q])
      <4>1. ~Hearing(me[q])
        BY <3>1, <3>2, ListenerAssumption DEF Owns, Hearing, ProcInv, Sitting
      <4> QED BY <3>1, <3>2, <4>1 DEF ProcInv
    <3>3. CASE Owns(me[q])
      <4> DEFINE n == me[q].nick
      <4>1. n \in Nicks /\ Holds(q, n) /\ Matches(me[q].mem, file[n], room = "up")
            /\ me[q].mem # None
        BY <3>1, <3>3 DEF Owns, ProcInv, Records, Sitting
      <4>2. ~(Owns(me[p]) /\ n = me[p].nick)
        BY <1>1, <2>2, <4>1, TwoHolders DEF ProcInv
      <4>3. had'[n] = had[n]
        BY <4>1, <4>2
      <4>4. Matches(me[q].mem, file'[n], room = "up")
        <5>1. \/ file'[n] = file[n]
              \/ file[n] = None /\ file'[n] # None /\ Blank(file'[n])
          BY <4>1, <4>2
        <5> QED BY <4>1, <5>1 DEF Matches
      <4>5. Holds(q, n)'
        BY <2>2, <4>1 DEF Holds
      <4> QED BY <3>1, <3>3, <4>1, <4>3, <4>4, <4>5 DEF ProcInv, Holds
    <3> QED BY <3>2, <3>3
  <2> QED BY <2>1, <2>2
<1> QED BY <1>3, <1>4, <1>5, <1>6, <1>7 DEF CursorInv

\* What is known of a listener between its frames, and of the file it writes.
LEMMA AtWork ==
    ASSUME CursorInv, NEW p \in Procs, Hearing(me[p])
    PROVE  /\ room = "up" /\ me[p] \in Records /\ me[p].boot = None
           /\ me[p].nick \in Nicks /\ Owns(me[p])
           /\ me[p].mem = file[me[p].nick] /\ file[me[p].nick] \in Sessions
           /\ \E i \in Inodes : lock[me[p].nick].held[i] = p
           /\ Honest(file[me[p].nick], had[me[p].nick], log)
           /\ had[me[p].nick] \in SUBSET Nat
           /\ Earning(me[p], had[me[p].nick], log)
<1>1. Typed /\ ProcInv(p) /\ me[p] \in Records
  BY DEF CursorInv, Typed
<1>2. room = "up"
  BY <1>1 DEF CursorInv, Deserted, Noticed, Hearing, Typed
<1>3. me[p].nick \in Nicks /\ me[p].nick # None /\ me[p].mem # None /\ me[p].boot = None
      /\ Owns(me[p])
  BY <1>1, ListenerAssumption DEF ProcInv, Sitting, Hearing, Owns
<1>4. me[p].mem = file[me[p].nick] /\ \E i \in Inodes : lock[me[p].nick].held[i] = p
  BY <1>1, <1>2, <1>3 DEF ProcInv, Matches, Holds
<1>5. Honest(file[me[p].nick], had[me[p].nick], log)
  BY <1>2, <1>3 DEF CursorInv, FilesHonest
<1> QED BY <1>1, <1>2, <1>3, <1>4, <1>5 DEF ProcInv, Typed, Records

\* It goes on with its frames: r is where it then is, s what is on disk.
LEMMA WorkStep ==
    ASSUME CursorInv, LockInv', NEW p \in Procs, NEW r \in Records, NEW s \in Sessions,
           Hearing(me[p]), Hearing(r), r.nick = me[p].nick, r.boot = None, r.mem = s,
           me' = [me EXCEPT ![p] = r], file' = [file EXCEPT ![me[p].nick] = s],
           UNCHANGED <<server, lock>>, legacy' = legacy,
           had' \in [Nicks -> SUBSET Nat],
           \A n \in Nicks : n # me[p].nick => had'[n] = had[n],
           Honest(s, had'[me[p].nick], log),
           r.step # "next" \/ r.pc = "live" => ~r.resync,
           Reading(r, log),
           Earning(r, had'[me[p].nick], log)
    PROVE  CursorInv'
<1>1. /\ room = "up" /\ me[p].nick \in Nicks /\ Owns(me[p]) /\ me[p].nick # None
      /\ \E i \in Inodes : lock[me[p].nick].held[i] = p
  BY AtWork, ListenerAssumption
<1>2. Typed /\ Routed /\ LockInv
  BY DEF CursorInv
<1>3. Leaves(p)
  BY <1>2 DEF Leaves, server, Typed
<1>4. Writes(p)
  BY <1>1, <1>2 DEF Writes, Typed
<1>5. s # None
  BY ListenerAssumption
<1>6. Sitting(r)
  BY <1>1, <1>5 DEF Sitting, Hearing
<1>7. Stands(p, r)
  <2>1. Matches(r.mem, file'[r.nick], room = "up")
    BY <1>1, <1>2 DEF Matches, Typed
  <2>2. \A n \in Nicks : p \in conns'[n] => r.nick = n /\ Present(r)
    BY <1>2 DEF Routed, Present, server
  <2>3. \E i \in Inodes : lock'[r.nick].held[i] = p
    BY <1>1
  <2> QED BY <1>1, <1>6, <2>1, <2>2, <2>3 DEF Stands
<1> QED BY <1>3, <1>4, <1>7, ProcStep

\* Its process ends, with the file s behind it.
LEMMA EndStep ==
    ASSUME CursorInv, LockInv', NEW p \in Procs, Ends(p),
           room' = room, log' = log, legacy' = legacy, inst' = inst,
           file' \in [Nicks -> Sessions \cup {None}], had' \in [Nicks -> SUBSET Nat],
           \A n \in Nicks :
              \/ file'[n] = file[n] /\ had'[n] = had[n]
              \/ Owns(me[p]) /\ n = me[p].nick /\ Honest(file'[n], had'[n], log)
    PROVE  CursorInv'
<1>1. Typed /\ LockInv
  BY DEF CursorInv
<1>2. me' = [me EXCEPT ![p] = Idle]
  BY DEF Ends
<1>3. Leaves(p)
  <2>1. conns' \in [Nicks -> SUBSET Procs]
        /\ \A n \in Nicks : \A q \in conns'[n] : q \in conns[n]
    BY <1>1 DEF Ends, Unrouted, Typed
  <2>2. lock' = Released(p)
    BY DEF Ends
  <2>3. \A q \in Procs \ {p} : \A n \in Nicks :
             (\E i \in Inodes : lock[n].held[i] = q) => \E i \in Inodes : lock'[n].held[i] = q
    BY <1>1, <2>2, HoldsKept
  <2> QED BY <1>1, <2>1, <2>3 DEF Leaves, Typed
<1>4. Writes(p)
  BY DEF Writes
<1>5. Stands(p, Idle)
  <2>1. Idle \in Records
    BY DEF Idle, Records, Points, Steps
  <2>2. Sitting(Idle) /\ Reading(Idle, log) /\ ~Owns(Idle) /\ ~Hearing(Idle)
    BY DEF Idle, Sitting, Reading, Owns, Hearing, Present
  <2>3. \A n \in Nicks : p \notin conns'[n]
    BY DEF Ends, Unrouted
  <2> QED BY <2>1, <2>2, <2>3 DEF Stands, Idle
<1> QED BY <1>2, <1>3, <1>4, <1>5, ProcStep

LEMMA OverStep ==
    ASSUME CursorInv, LockInv', NEW p \in Procs, Rejected(p) \/ End(p)
    PROVE  CursorInv'
<1>1. Ends(p) /\ file' = file /\ had' = had /\ legacy' = legacy /\ inst' = inst
      /\ room' = room /\ log' = log
  BY DEF Rejected, End
<1>2. Typed
  BY DEF CursorInv
<1> QED BY <1>1, <1>2, EndStep DEF Typed

-----------------------------------------------------------------------------
(* A listener at its frames. *)

\* One more frame is behind it.
LEMMA CoveredNext ==
    ASSUME NEW h, NEW l, NEW k \in Nat, k >= 1, Covered(h, l, k - 1), Given(h, l, k)
    PROVE  Covered(h, l, k)
BY DEF Covered

\* The frame that is read is on the log, and the entry was not a fresh one.
LEMMA AtFrame ==
    ASSUME CursorInv, NEW p \in Procs, Reads(p) \/ me[p].step # "next"
    PROVE  /\ Hearing(me[p]) /\ ~me[p].fresh /\ ~me[p].resync
           /\ me[p].next \in Nat /\ me[p].next \in DOMAIN log
           /\ me[p].pc = "reply" => me[p].next <= me[p].end
           /\ me[p].pc = "live" => me[p].next <= me[p].sent
<1>1. Typed /\ Sitting(me[p]) /\ Reading(me[p], log) /\ me[p] \in Records
  BY DEF CursorInv, ProcInv, Typed
<1>2. Hearing(me[p]) /\ (me[p].pc = "reply" => ~me[p].resync)
  BY <1>1 DEF Reads, Hearing, Sitting
<1>3. ~me[p].resync
  BY <1>1, <1>2 DEF Hearing, Sitting
<1>4. /\ me[p].end <= Len(log) /\ me[p].sent <= Len(log) /\ me[p].next >= 1
      /\ me[p].fresh => me[p].pc # "live" /\ me[p].next = me[p].end + 1
      /\ me[p].pc = "reply" => me[p].next <= me[p].end
      /\ me[p].pc = "live" => me[p].next <= me[p].sent
  BY <1>1, <1>2 DEF Reading, Present, Reads
<1>5. /\ Len(log) \in Nat /\ DOMAIN log = 1..Len(log)
      /\ me[p].next \in Nat /\ me[p].end \in Nat /\ me[p].sent \in Nat /\ me[p].fresh \in BOOLEAN
  BY <1>1 DEF Typed, Records
<1>6. me[p].pc \in {"reply", "live"}
  BY <1>2 DEF Hearing
<1>7. ~me[p].fresh
  BY <1>4, <1>5, <1>6
<1>8. me[p].next \in DOMAIN log
  BY <1>4, <1>5, <1>6
<1> QED BY <1>2, <1>3, <1>4, <1>5, <1>7, <1>8

LEMMA PassesStep ==
    ASSUME CursorInv, LockInv', NEW p \in Procs, Passes(p)
    PROVE  CursorInv'
<1> DEFINE n == me[p].nick
           r == [me[p] EXCEPT !.next = @ + 1]
<1>1. Reads(p) /\ me' = [me EXCEPT ![p] = r] /\ file' = file /\ had' = had
      /\ UNCHANGED <<server, lock>> /\ legacy' = legacy
  BY DEF Passes, disk
<1>2. Hearing(me[p]) /\ ~me[p].fresh /\ ~me[p].resync /\ me[p].next \in Nat
      /\ me[p].next \in DOMAIN log /\ me[p].step = "next"
  BY <1>1, AtFrame DEF Reads
<1>3. /\ me[p] \in Records /\ me[p].boot = None /\ n \in Nicks
      /\ me[p].mem = file[n] /\ file[n] \in Sessions
      /\ Honest(file[n], had[n], log) /\ Earning(me[p], had[n], log)
  BY <1>2, AtWork
<1>4. Typed /\ Sitting(me[p]) /\ Reading(me[p], log) /\ me[p].next >= 1
  BY <1>2 DEF CursorInv, ProcInv, Reading, Present
<1>5. r \in Records /\ Hearing(r) /\ r.nick = n /\ r.boot = None /\ r.mem = file[n]
      /\ r.step = "next" /\ ~r.resync /\ r.next = me[p].next + 1 /\ ~r.fresh
      /\ r.end = me[p].end /\ r.sent = me[p].sent /\ r.pc = me[p].pc
  BY <1>2, <1>3 DEF Records, Hearing
<1>6. Given(had[n], log, me[p].next)
  <2>1. CASE log[me[p].next] = "hidden"
    BY <1>2, <2>1 DEF Given
  <2>2. CASE me[p].next <= me[p].mem.cursor
    <3>1. file[n] # None /\ me[p].next \in 1..file[n].cursor
      BY <1>2, <1>3, <1>4, <2>2, ListenerAssumption DEF Sessions
    <3> QED BY <1>3, <3>1 DEF Honest, Covered
  <2> QED BY <2>1, <2>2 DEF Passes
<1>7. Covered(had[n], log, me[p].next)
  BY <1>2, <1>3, <1>4, <1>6, CoveredNext DEF Earning
<1>8. Earning(r, had[n], log)
  BY <1>2, <1>3, <1>5, <1>7 DEF Earning, Records
<1>9. Reading(r, log)
  BY <1>2, <1>3, <1>4, <1>5 DEF Reading, Present, Hearing
<1>10. file' = [file EXCEPT ![n] = file[n]]
  BY <1>1, <1>4 DEF Typed
<1>11. had' \in [Nicks -> SUBSET Nat]
  BY <1>1, <1>4 DEF Typed
<1> HIDE DEF r
<1> QED BY <1>1, <1>2, <1>3, <1>5, <1>8, <1>9, <1>10, <1>11, WorkStep

LEMMA SuppressStep ==
    ASSUME CursorInv, LockInv', NEW p \in Procs, Suppress(p)
    PROVE  CursorInv'
<1> DEFINE n == me[p].nick
           r == [me[p] EXCEPT !.mem = file[n], !.step = "advance"]
<1>1. Reads(p) /\ me' = [me EXCEPT ![p] = r] /\ file' = file /\ had' = had
      /\ UNCHANGED <<server, lock>> /\ legacy' = legacy
  BY DEF Suppress, disk
<1>2. Hearing(me[p]) /\ ~me[p].fresh /\ ~me[p].resync /\ me[p].next \in Nat
      /\ me[p].next \in DOMAIN log /\ me[p].step = "next"
      /\ (me[p].pc = "reply" => me[p].next <= me[p].end)
      /\ (me[p].pc = "live" => me[p].next <= me[p].sent)
  BY <1>1, AtFrame DEF Reads
<1>3. /\ me[p] \in Records /\ me[p].boot = None /\ n \in Nicks
      /\ me[p].mem = file[n] /\ file[n] \in Sessions
      /\ Honest(file[n], had[n], log) /\ Earning(me[p], had[n], log)
  BY <1>2, AtWork
<1>4. Typed /\ Reading(me[p], log)
  BY DEF CursorInv, ProcInv
<1>5. r \in Records /\ Hearing(r) /\ r.nick = n /\ r.boot = None /\ r.mem = file[n]
      /\ r.step = "advance" /\ ~r.resync /\ r.next = me[p].next /\ ~r.fresh
      /\ r.end = me[p].end /\ r.sent = me[p].sent /\ r.pc = me[p].pc
  BY <1>2, <1>3 DEF Records, Hearing, Steps
<1>6. Given(had[n], log, me[p].next)
  <2>1. Remembered(had[n], log, file[n].acts) /\ file[n].acts \in Seq(Acts)
    BY <1>3, ListenerAssumption DEF Honest, Sessions
  <2>2. log[me[p].next] \in Acts /\ InRange(file[n].acts, log[me[p].next])
    BY DEF Suppress
  <2> QED BY <1>2, <2>1, <2>2 DEF Given, Remembered, InRange
<1>8. Earning(r, had[n], log)
  BY <1>2, <1>3, <1>5, <1>6 DEF Earning, Records
<1>9. Reading(r, log)
  BY <1>2, <1>3, <1>4, <1>5 DEF Reading, Present, Hearing
<1>10. file' = [file EXCEPT ![n] = file[n]]
  BY <1>1, <1>4 DEF Typed
<1>11. had' \in [Nicks -> SUBSET Nat]
  BY <1>1, <1>4 DEF Typed
<1> HIDE DEF r
<1> QED BY <1>1, <1>2, <1>3, <1>5, <1>8, <1>9, <1>10, <1>11, WorkStep

LEMMA EmitStep ==
    ASSUME CursorInv, LockInv', NEW p \in Procs, Emit(p)
    PROVE  CursorInv'
<1> DEFINE n == me[p].nick
           k == me[p].next
           r == [me[p] EXCEPT !.gave = TRUE, !.step = IF log[k] \in Acts THEN "mark" ELSE "advance"]
           h == had[n] \cup {k}
<1>1. Reads(p) /\ me' = [me EXCEPT ![p] = r] /\ file' = file
      /\ had' = [had EXCEPT ![n] = h]
      /\ UNCHANGED <<server, lock>> /\ legacy' = legacy
  BY DEF Emit, Emits, disk
<1>2. Hearing(me[p]) /\ ~me[p].fresh /\ ~me[p].resync /\ me[p].next \in Nat
      /\ me[p].next \in DOMAIN log
      /\ (me[p].pc = "reply" => me[p].next <= me[p].end)
      /\ (me[p].pc = "live" => me[p].next <= me[p].sent)
  BY <1>1, AtFrame
<1>3. /\ me[p] \in Records /\ me[p].boot = None /\ n \in Nicks
      /\ me[p].mem = file[n] /\ file[n] \in Sessions
      /\ Honest(file[n], had[n], log) /\ Earning(me[p], had[n], log)
      /\ had[n] \in SUBSET Nat /\ room = "up" /\ Owns(me[p])
  BY <1>2, AtWork
<1>4. Typed /\ Reading(me[p], log) /\ me[p].next >= 1
  BY <1>2 DEF CursorInv, ProcInv, Reading, Present
<1>5. r \in Records /\ Hearing(r) /\ r.nick = n /\ r.boot = None /\ r.mem = file[n]
      /\ r.step = (IF log[k] \in Acts THEN "mark" ELSE "advance")
      /\ ~r.resync /\ r.next = k /\ ~r.fresh
      /\ r.end = me[p].end /\ r.sent = me[p].sent /\ r.pc = me[p].pc
  BY <1>2, <1>3 DEF Records, Hearing, Steps
<1>6. had' \in [Nicks -> SUBSET Nat] /\ had'[n] = h
      /\ \A m \in Nicks : m # n => had'[m] = had[m]
  BY <1>1, <1>2, <1>3, <1>4 DEF Typed
<1>7. \A j : Given(had[n], log, j) => Given(h, log, j)
  BY DEF Given
<1>8. Earning(r, h, log)
  <2>1. Covered(h, log, r.next - 1)
    BY <1>2, <1>3, <1>5, <1>7 DEF Earning, Covered
  <2>2. Given(h, log, k)
    BY DEF Given
  <2>3. me[p].step = "next"
    BY <1>1 DEF Reads
  <2> QED BY <1>2, <1>3, <1>5, <2>1, <2>2, <2>3 DEF Earning, Records
<1>9. Reading(r, log)
  BY <1>2, <1>3, <1>4, <1>5 DEF Reading, Present, Hearing
<1>10. file' = [file EXCEPT ![n] = file[n]]
  BY <1>1, <1>4 DEF Typed
<1>11. Honest(file[n], h, log)
  <2>1. k <= Len(log)
    BY <1>2, <1>4 DEF Typed
  <2>2. file[n] # None => Covered(h, log, file[n].cursor) /\ Remembered(h, log, file[n].acts)
    BY <1>3, <1>7 DEF Honest, Covered, Remembered
  <2> QED BY <1>3, <2>1, <2>2 DEF Honest
<1> HIDE DEF r, h
<1> QED BY <1>1, <1>2, <1>3, <1>5, <1>6, <1>8, <1>9, <1>10, <1>11, WorkStep

\* mark_activation_applied: what is appended is the activation just emitted.
LEMMA MarkStep ==
    ASSUME CursorInv, LockInv', NEW p \in Procs, Mark(p)
    PROVE  CursorInv'
<1> DEFINE n == me[p].nick
           k == me[p].next
           longer == Append(file[n].acts, log[k])
           s == [file[n] EXCEPT !.acts = Newest(longer)]
           r == [[me[p] EXCEPT !.step = "advance"] EXCEPT !.mem = s]
<1>1. me[p].step = "mark" /\ me' = [me EXCEPT ![p] = r] /\ file' = [file EXCEPT ![n] = s]
      /\ had' = had /\ UNCHANGED <<server, lock>> /\ legacy' = legacy
  BY DEF Mark, SavesAs
<1>2. Hearing(me[p]) /\ ~me[p].fresh /\ ~me[p].resync /\ me[p].next \in Nat
      /\ me[p].next \in DOMAIN log
      /\ (me[p].pc = "reply" => me[p].next <= me[p].end)
      /\ (me[p].pc = "live" => me[p].next <= me[p].sent)
  BY <1>1, AtFrame
<1>3. /\ me[p] \in Records /\ me[p].boot = None /\ n \in Nicks
      /\ me[p].mem = file[n] /\ file[n] \in Sessions
      /\ Honest(file[n], had[n], log) /\ Earning(me[p], had[n], log)
      /\ had[n] \in SUBSET Nat /\ room = "up" /\ Owns(me[p])
  BY <1>2, AtWork
<1>4. Typed /\ Reading(me[p], log) /\ me[p].next >= 1
  BY <1>2 DEF CursorInv, ProcInv, Reading, Present
<1>5. k \in had[n] /\ log[k] \in Acts /\ file[n] # None
  BY <1>1, <1>3, ListenerAssumption DEF Earning
<1>6. /\ longer \in Seq(Acts) /\ Newest(longer) \in Seq(Acts)
      /\ \A i \in DOMAIN Newest(longer) : \E j \in DOMAIN longer : Newest(longer)[i] = longer[j]
  <2>1. longer \in Seq(Acts) /\ Len(longer) >= 1
    BY <1>3, <1>5 DEF Sessions
  <2> HIDE DEF longer
  <2>2. Tail(longer) \in Seq(Acts) /\ Len(Tail(longer)) = Len(longer) - 1
        /\ \A i \in 1..(Len(longer) - 1) : Tail(longer)[i] = longer[i + 1]
    BY <2>1
  <2>3. \A i \in DOMAIN Tail(longer) : \E j \in DOMAIN longer : Tail(longer)[i] = longer[j]
    <3> SUFFICES ASSUME NEW i \in DOMAIN Tail(longer)
                 PROVE  \E j \in DOMAIN longer : Tail(longer)[i] = longer[j]
      OBVIOUS
    <3>1. i \in 1..(Len(longer) - 1) /\ i + 1 \in DOMAIN longer
      BY <2>1, <2>2
    <3> QED BY <2>2, <3>1
  <2> QED BY <2>1, <2>2, <2>3 DEF Newest
<1>7. s \in Sessions /\ s.cursor = file[n].cursor /\ s.acts = Newest(longer)
  <2> HIDE DEF longer
  <2> QED BY <1>3, <1>6 DEF Sessions
<1>8. Remembered(had[n], log, longer)
  <2>1. Remembered(had[n], log, file[n].acts) /\ file[n].acts \in Seq(Acts)
    BY <1>3, <1>5 DEF Honest, Sessions
  <2>2. \A i \in DOMAIN longer : longer[i] = log[k] \/ (i \in DOMAIN file[n].acts
                                                      /\ longer[i] = file[n].acts[i])
    BY <1>5, <2>1
  <2> HIDE DEF longer
  <2> QED BY <1>2, <1>5, <2>1, <2>2 DEF Remembered
<1>9. Honest(s, had[n], log)
  <2>1. Remembered(had[n], log, s.acts)
    <3> HIDE DEF longer, s
    <3> QED BY <1>6, <1>7, <1>8 DEF Remembered
  <2>2. s # None
    BY <1>7, ListenerAssumption
  <2> HIDE DEF s
  <2> QED BY <1>3, <1>5, <1>7, <2>1, <2>2 DEF Honest
<1>10. r \in Records /\ Hearing(r) /\ r.nick = n /\ r.boot = None /\ r.mem = s
      /\ r.step = "advance" /\ ~r.resync /\ r.next = k /\ ~r.fresh
      /\ r.end = me[p].end /\ r.sent = me[p].sent /\ r.pc = me[p].pc
  <2> HIDE DEF s
  <2> QED BY <1>2, <1>3, <1>7 DEF Records, Hearing, Steps
<1>11. Given(had[n], log, k)
  BY <1>5 DEF Given
<1> HIDE DEF longer, s
<1>12. Earning(r, had[n], log)
  <2> HIDE DEF r
  <2> QED BY <1>1, <1>2, <1>3, <1>7, <1>10, <1>11 DEF Earning
<1>13. Reading(r, log)
  <2> HIDE DEF r
  <2> QED BY <1>2, <1>3, <1>4, <1>10 DEF Reading, Present, Hearing
<1>14. had' \in [Nicks -> SUBSET Nat]
  BY <1>1, <1>4 DEF Typed
<1> HIDE DEF r
<1> QED BY <1>1, <1>2, <1>3, <1>7, <1>9, <1>10, <1>12, <1>13, <1>14, WorkStep

\* Session.advance to a frame that everything before is given of.
LEMMA AdvancedHonest ==
    ASSUME NEW n, NEW h \in SUBSET Nat, NEW l, NEW k \in Nat,
           file[n] \in Sessions, Honest(file[n], h, l), Covered(h, l, k)
    PROVE  /\ Advanced(n, k) \in Sessions /\ Honest(Advanced(n, k), h, l)
           /\ Advanced(n, k).cursor >= k /\ Advanced(n, k).cursor >= file[n].cursor
           /\ Advanced(n, k).inst = file[n].inst
<1> DEFINE s == Advanced(n, k)
<1>1. /\ s \in Sessions /\ s.cursor = (IF k > file[n].cursor THEN k ELSE file[n].cursor)
      /\ s.acts = file[n].acts /\ s.inst = file[n].inst
      /\ file[n].cursor \in Nat /\ file[n] # None /\ s # None
  BY ListenerAssumption DEF Advanced, Sessions
<1> HIDE DEF s
<1>2. Covered(h, l, s.cursor) /\ Remembered(h, l, s.acts)
  BY <1>1 DEF Honest
<1>3. \A j \in h : j <= Len(l) \/ j <= s.cursor
  <2> SUFFICES ASSUME NEW j \in h PROVE j <= Len(l) \/ j <= s.cursor
    OBVIOUS
  <2>1. j \in Nat /\ (j <= Len(l) \/ j <= file[n].cursor)
    BY DEF Honest
  <2> QED BY <1>1, <2>1
<1>4. s.cursor >= k /\ s.cursor >= file[n].cursor
  BY <1>1
<1>5. Honest(s, h, l)
  BY <1>1, <1>2, <1>3 DEF Honest
<1> QED BY <1>1, <1>4, <1>5 DEF s

LEMMA AdvanceStep ==
    ASSUME CursorInv, LockInv', NEW p \in Procs, Advance(p)
    PROVE  CursorInv'
<1> DEFINE n == me[p].nick
           k == me[p].next
           s == Advanced(n, k)
           then == [me[p] EXCEPT !.step = "next", !.next = @ + 1]
           r == [then EXCEPT !.mem = s]
<1>1. /\ me[p].step = "advance" /\ file' = [file EXCEPT ![n] = s]
      /\ \/ me' = [me EXCEPT ![p] = r] /\ UNCHANGED <<conns, lock>>
         \/ Ends(p)
      /\ had' = had /\ UNCHANGED <<log, room, inst, legacy>>
  BY DEF Advance, Saves, SavesAs
<1>2. Hearing(me[p]) /\ ~me[p].fresh /\ ~me[p].resync /\ k \in Nat /\ k \in DOMAIN log
  BY <1>1, AtFrame
<1>3. /\ me[p] \in Records /\ me[p].boot = None /\ n \in Nicks
      /\ me[p].mem = file[n] /\ file[n] \in Sessions
      /\ Honest(file[n], had[n], log) /\ Earning(me[p], had[n], log)
      /\ had[n] \in SUBSET Nat /\ Owns(me[p])
  BY <1>2, AtWork
<1>4. Typed /\ Reading(me[p], log) /\ k >= 1
  BY <1>2 DEF CursorInv, ProcInv, Reading, Present
<1>5. Covered(had[n], log, k)
  BY <1>1, <1>2, <1>3, <1>4, CoveredNext DEF Earning
<1>6. /\ s \in Sessions /\ Honest(s, had[n], log)
      /\ s.cursor >= k /\ s.cursor >= file[n].cursor
  BY <1>2, <1>3, <1>5, AdvancedHonest
<1>7. had' \in [Nicks -> SUBSET Nat] /\ file' \in [Nicks -> Sessions \cup {None}]
      /\ file'[n] = s /\ \A m \in Nicks : m # n => file'[m] = file[m]
  <2> HIDE DEF s
  <2> QED BY <1>1, <1>3, <1>4, <1>6 DEF Typed
<1>8. CASE Ends(p)
  <2> HIDE DEF n, s, r
  <2>1. \A m \in Nicks :
              \/ file'[m] = file[m] /\ had'[m] = had[m]
              \/ Owns(me[p]) /\ m = me[p].nick /\ Honest(file'[m], had'[m], log)
    BY <1>1, <1>3, <1>6, <1>7 DEF n
  <2> QED BY <1>1, <1>7, <1>8, <2>1, EndStep
<1>9. CASE me' = [me EXCEPT ![p] = r] /\ UNCHANGED <<conns, lock>>
  <2>1. r \in Records /\ Hearing(r) /\ r.nick = n /\ r.boot = None /\ r.mem = s
        /\ r.step = "next" /\ ~r.resync /\ r.next = k + 1 /\ ~r.fresh
        /\ r.end = me[p].end /\ r.sent = me[p].sent /\ r.pc = me[p].pc
    <3>1. then \in Records /\ then.step = "next" /\ then.next = k + 1
          /\ then.nick = n /\ then.boot = None /\ then.pc = me[p].pc /\ then.fresh = me[p].fresh
          /\ then.end = me[p].end /\ then.sent = me[p].sent /\ then.resync = me[p].resync
      <4>1. k + 1 \in Nat /\ "next" \in Steps
        BY <1>2 DEF Steps
      <4> QED BY <1>3, <4>1 DEF Records
    <3> HIDE DEF s, then
    <3>2. r \in Records /\ r.mem = s /\ r.pc = then.pc /\ r.step = then.step
          /\ r.next = then.next /\ r.nick = then.nick /\ r.boot = then.boot
          /\ r.fresh = then.fresh /\ r.end = then.end /\ r.sent = then.sent
          /\ r.resync = then.resync
      BY <1>6, <3>1 DEF Records
    <3> QED BY <1>2, <3>1, <3>2 DEF Hearing
  <2> HIDE DEF r, s
  <2>2. Earning(r, had[n], log)
    <3>1. \A j \in had[n] : j <= r.mem.cursor \/ (r.pc = "reply" /\ j <= r.end)
      <4> SUFFICES ASSUME NEW j \in had[n]
                   PROVE  j <= r.mem.cursor \/ (r.pc = "reply" /\ j <= r.end)
        OBVIOUS
      <4>1. j \in Nat /\ s.cursor \in Nat /\ file[n].cursor \in Nat
        BY <1>3, <1>6 DEF Sessions
      <4>2. \/ j <= me[p].mem.cursor \/ (me[p].pc = "reply" /\ j <= me[p].end) \/ j <= k
        BY <1>3 DEF Earning
      <4> QED BY <1>2, <1>3, <1>6, <2>1, <4>1, <4>2
    <3>2. Covered(had[n], log, r.next - 1)
      BY <1>2, <1>5, <2>1
    <3> QED BY <2>1, <3>1, <3>2 DEF Earning
  <2>3. Reading(r, log)
    BY <1>2, <1>3, <1>4, <2>1 DEF Reading, Present, Hearing
  <2>4. UNCHANGED <<server, lock>> /\ legacy' = legacy
    BY <1>1, <1>9 DEF server
  <2> QED BY <1>1, <1>2, <1>3, <1>6, <1>7, <1>9, <2>1, <2>2, <2>3, <2>4, WorkStep
<1> QED BY <1>1, <1>8, <1>9

LEMMA HearConversationStep ==
    ASSUME CursorInv, LockInv', NEW p \in Procs, HearConversation(p)
    PROVE  CursorInv'
<1> DEFINE n == me[p].nick
           heard == OnWire(me[p].next..me[p].end)
           h == had[n] \cup heard
           r == [me[p] EXCEPT !.resync = FALSE, !.next = me[p].end + 1, !.gave = TRUE]
<1>1. me[p].pc = "reply" /\ me[p].resync /\ me' = [me EXCEPT ![p] = r] /\ file' = file
      /\ had' = [had EXCEPT ![n] = h]
      /\ UNCHANGED <<server, lock>> /\ legacy' = legacy
  BY DEF HearConversation, Emits, disk
<1>2. Hearing(me[p])
  BY <1>1 DEF Hearing
<1>3. /\ me[p] \in Records /\ me[p].boot = None /\ n \in Nicks
      /\ me[p].mem = file[n] /\ file[n] \in Sessions
      /\ Honest(file[n], had[n], log) /\ Earning(me[p], had[n], log)
      /\ had[n] \in SUBSET Nat
  BY <1>2, AtWork
<1>4. Typed /\ Sitting(me[p]) /\ Reading(me[p], log) /\ me[p].next >= 1
      /\ me[p].end <= Len(log) /\ Len(log) \in Nat /\ DOMAIN log = 1..Len(log)
  BY <1>2 DEF CursorInv, ProcInv, Reading, Present, Typed
<1>5. r \in Records /\ Hearing(r) /\ r.nick = n /\ r.boot = None /\ r.mem = file[n]
      /\ r.step = "next" /\ ~r.resync /\ r.next = me[p].end + 1 /\ r.fresh = me[p].fresh
      /\ r.end = me[p].end /\ r.sent = me[p].sent /\ r.pc = "reply"
  <2>1. me[p].step = "next"
    BY <1>1, <1>4 DEF Sitting
  <2>2. me[p].end + 1 \in Nat
    BY <1>3 DEF Records
  <2>3. r \in Records /\ r.nick = n /\ r.boot = None /\ r.mem = file[n]
        /\ r.step = "next" /\ ~r.resync /\ r.next = me[p].end + 1 /\ r.fresh = me[p].fresh
        /\ r.end = me[p].end /\ r.sent = me[p].sent /\ r.pc = "reply"
    BY <1>1, <1>3, <2>1, <2>2 DEF Records
  <2> QED BY <2>3 DEF Hearing
<1>6. had' \in [Nicks -> SUBSET Nat] /\ had'[n] = h
      /\ \A m \in Nicks : m # n => had'[m] = had[m]
  <2>1. heard \in SUBSET Nat
    BY <1>3 DEF OnWire, Records
  <2> HIDE DEF heard
  <2> QED BY <1>1, <1>3, <1>4, <2>1 DEF Typed
<1>7. \A j : Given(had[n], log, j) => Given(h, log, j)
  BY DEF Given
<1>8. \A j \in me[p].next..me[p].end : Given(h, log, j)
  BY <1>3, <1>4 DEF Given, OnWire, Records
<1>9. \A j \in heard : j \in Nat /\ j <= me[p].end
  BY <1>3 DEF OnWire, Records
<1> HIDE DEF heard
<1>10. Earning(r, h, log)
  <2>1. ~r.fresh => Covered(h, log, r.next - 1)
    <3> SUFFICES ASSUME ~r.fresh, NEW j \in 1..(r.next - 1) PROVE Given(h, log, j)
      BY DEF Covered
    <3>1. me[p].end \in Nat /\ me[p].next \in Nat /\ j \in 1..me[p].end
      BY <1>3, <1>5 DEF Records
    <3>2. CASE j >= me[p].next
      <4>1. j \in me[p].next..me[p].end
        BY <3>1, <3>2
      <4> QED BY <1>8, <4>1
    <3>3. CASE j < me[p].next
      <4>1. j \in 1..(me[p].next - 1) /\ Covered(had[n], log, me[p].next - 1)
        BY <1>3, <1>5, <3>1, <3>3 DEF Earning
      <4> QED BY <1>7, <4>1 DEF Covered
    <3> QED BY <3>1, <3>2, <3>3
  <2>2. \A j \in h : j <= r.mem.cursor \/ j <= r.end
    <3> SUFFICES ASSUME NEW j \in h PROVE j <= r.mem.cursor \/ j <= r.end
      OBVIOUS
    <3>1. me[p].step = "next"
      BY <1>1, <1>4 DEF Sitting
    <3> QED BY <1>3, <1>5, <1>9, <3>1 DEF Earning
  <2> HIDE DEF r, h
  <2> QED BY <1>5, <2>1, <2>2 DEF Earning
<1>11. Reading(r, log)
  <2> HIDE DEF r
  <2>1. me[p].end \in Nat
    BY <1>3 DEF Records
  <2> QED BY <1>1, <1>2, <1>3, <1>4, <1>5, <2>1 DEF Reading, Present, Hearing
<1>12. file' = [file EXCEPT ![n] = file[n]]
  BY <1>1, <1>4 DEF Typed
<1>13. Honest(file[n], h, log)
  <2>1. \A j \in h : j <= Len(log) \/ (file[n] # None /\ j <= file[n].cursor)
    <3> SUFFICES ASSUME NEW j \in h
                 PROVE  j <= Len(log) \/ (file[n] # None /\ j <= file[n].cursor)
      OBVIOUS
    <3>1. CASE j \in had[n]
      BY <1>3, <3>1 DEF Honest
    <3>2. CASE j \in heard
      <4>1. me[p].end \in Nat /\ j \in Nat /\ j <= me[p].end
        BY <1>3, <1>9, <3>2 DEF Records
      <4> QED BY <1>4, <4>1
    <3> QED BY <3>1, <3>2
  <2>2. file[n] # None => Covered(h, log, file[n].cursor) /\ Remembered(h, log, file[n].acts)
    BY <1>3, <1>7 DEF Honest, Covered, Remembered
  <2> QED BY <2>1, <2>2 DEF Honest
<1> HIDE DEF r, h
<1> QED BY <1>1, <1>2, <1>3, <1>5, <1>6, <1>10, <1>11, <1>12, <1>13, WorkStep

\* The reply is applied, to the end that the hub named; a fresh entry is over
\* with what it did without.
LEMMA EndReplyStep ==
    ASSUME CursorInv, LockInv', NEW p \in Procs, EndReply(p)
    PROVE  CursorInv'
<1> DEFINE n == me[p].nick
           e == me[p].end
           s == IF e = 0 THEN file[n] ELSE Advanced(n, e)
           skipped == IF me[p].fresh THEN (me[p].mem.cursor + 1)..e ELSE {}
           h == had[n] \cup skipped
           then == [me[p] EXCEPT !.pc = "live", !.fresh = FALSE, !.gave = FALSE]
           r == [then EXCEPT !.mem = s]
<1>1. /\ me[p].pc = "reply" /\ me[p].step = "next" /\ ~me[p].resync /\ me[p].next > e
      /\ file' = [file EXCEPT ![n] = s]
      /\ \/ me' = [me EXCEPT ![p] = r] /\ UNCHANGED <<conns, lock>>
         \/ Ends(p)
      /\ had' = [had EXCEPT ![n] = h] /\ UNCHANGED <<log, room, inst, legacy>>
  BY DEF EndReply, Emits, Saves, SavesAs
<1>2. Hearing(me[p])
  BY <1>1 DEF Hearing
<1>3. /\ me[p] \in Records /\ me[p].boot = None /\ n \in Nicks
      /\ me[p].mem = file[n] /\ file[n] \in Sessions
      /\ Honest(file[n], had[n], log) /\ Earning(me[p], had[n], log)
      /\ had[n] \in SUBSET Nat /\ Owns(me[p])
  BY <1>2, AtWork
<1>4. Typed /\ Reading(me[p], log) /\ me[p].next >= 1 /\ e <= Len(log) /\ me[p].sent <= Len(log)
      /\ (me[p].fresh => me[p].next = e + 1)
  BY <1>2 DEF CursorInv, ProcInv, Reading, Present
<1>5. /\ e \in Nat /\ me[p].next \in Nat /\ file[n].cursor \in Nat /\ Len(log) \in Nat
      /\ me[p].fresh \in BOOLEAN /\ file[n] # None
  BY <1>3, <1>4, ListenerAssumption DEF Records, Sessions, Typed
<1>6. /\ \A j : Given(had[n], log, j) => Given(h, log, j)
      /\ h \in SUBSET Nat /\ skipped \in SUBSET Nat /\ \A j \in skipped : j <= e
  BY <1>3, <1>5 DEF Given
<1>7. Honest(file[n], h, log)
  <2>1. \A j \in h : j <= Len(log) \/ (file[n] # None /\ j <= file[n].cursor)
    <3> SUFFICES ASSUME NEW j \in h
                 PROVE  j <= Len(log) \/ (file[n] # None /\ j <= file[n].cursor)
      OBVIOUS
    <3>1. CASE j \in had[n]
      BY <1>3, <3>1 DEF Honest
    <3>2. CASE j \in skipped
      <4>1. j \in Nat /\ j <= e
        BY <1>6, <3>2
      <4> QED BY <1>4, <1>5, <4>1
    <3> QED BY <3>1, <3>2
  <2>2. file[n] # None => Covered(h, log, file[n].cursor) /\ Remembered(h, log, file[n].acts)
    BY <1>3, <1>6 DEF Honest, Covered, Remembered
  <2> QED BY <2>1, <2>2 DEF Honest
<1>8. Covered(h, log, me[p].next - 1)
  <2>1. CASE ~me[p].fresh
    BY <1>3, <1>6, <2>1 DEF Earning, Covered
  <2>2. CASE me[p].fresh
    <3> SUFFICES ASSUME NEW j \in 1..(me[p].next - 1) PROVE Given(h, log, j)
      BY DEF Covered
    <3>1. j \in 1..e
      BY <1>4, <1>5, <2>2
    <3>2. CASE j <= file[n].cursor
      <4>1. j \in 1..file[n].cursor
        BY <1>5, <3>1, <3>2
      <4> QED BY <1>5, <1>7, <4>1 DEF Honest, Covered
    <3>3. CASE ~(j <= file[n].cursor)
      <4>1. j \in skipped
        BY <1>3, <1>5, <2>2, <3>1, <3>3
      <4> QED BY <4>1 DEF Given
    <3> QED BY <3>2, <3>3
  <2> QED BY <1>5, <2>1, <2>2
<1>9. Covered(h, log, e)
  <2>1. \A j \in 1..e : j \in 1..(me[p].next - 1)
    BY <1>1, <1>5
  <2> QED BY <1>8, <2>1 DEF Covered
<1>10. /\ s \in Sessions /\ Honest(s, h, log)
       /\ s.cursor \in Nat /\ s.cursor >= e /\ s.cursor >= file[n].cursor
  <2> HIDE DEF h
  <2>1. Advanced(n, e) \in Sessions /\ Honest(Advanced(n, e), h, log)
        /\ Advanced(n, e).cursor >= e /\ Advanced(n, e).cursor >= file[n].cursor
    BY <1>3, <1>5, <1>6, <1>7, <1>9, AdvancedHonest
  <2>2. CASE e = 0
    BY <1>3, <1>5, <1>7, <2>2
  <2>3. CASE e # 0
    BY <2>1, <2>3 DEF Sessions
  <2> QED BY <2>2, <2>3
<1> HIDE DEF s, h
<1>11. /\ had' \in [Nicks -> SUBSET Nat] /\ file' \in [Nicks -> Sessions \cup {None}]
       /\ file'[n] = s /\ \A m \in Nicks : m # n => file'[m] = file[m] /\ had'[m] = had[m]
       /\ had'[n] = h
  BY <1>1, <1>3, <1>4, <1>6, <1>10 DEF Typed
<1>12. CASE Ends(p)
  <2>1. \A m \in Nicks :
              \/ file'[m] = file[m] /\ had'[m] = had[m]
              \/ Owns(me[p]) /\ m = me[p].nick /\ Honest(file'[m], had'[m], log)
    BY <1>3, <1>10, <1>11
  <2> QED BY <1>1, <1>11, <1>12, <2>1, EndStep
<1>13. CASE me' = [me EXCEPT ![p] = r] /\ UNCHANGED <<conns, lock>>
  <2>1. r \in Records /\ Hearing(r) /\ r.nick = n /\ r.boot = None /\ r.mem = s
        /\ r.step = "next" /\ ~r.resync /\ r.next = me[p].next /\ ~r.fresh
        /\ r.end = e /\ r.sent = me[p].sent /\ r.pc = "live"
    <3>1. then \in Records /\ then.step = "next" /\ then.next = me[p].next
          /\ then.nick = n /\ then.boot = None /\ then.pc = "live" /\ ~then.fresh
          /\ then.end = e /\ then.sent = me[p].sent /\ ~then.resync
      BY <1>1, <1>3 DEF Records, Points
    <3> HIDE DEF then
    <3>2. r \in Records /\ r.mem = s /\ r.pc = then.pc /\ r.step = then.step
          /\ r.next = then.next /\ r.nick = then.nick /\ r.boot = then.boot
          /\ r.fresh = then.fresh /\ r.end = then.end /\ r.sent = then.sent
          /\ r.resync = then.resync
      BY <1>10, <3>1 DEF Records
    <3> QED BY <3>1, <3>2 DEF Hearing
  <2> HIDE DEF r
  <2>2. Earning(r, h, log)
    <3>1. \A j \in h : j <= r.mem.cursor
      <4> SUFFICES ASSUME NEW j \in h PROVE j <= s.cursor
        BY <2>1
      <4>1. j \in Nat
        BY <1>6
      <4>2. j <= file[n].cursor \/ j <= e
        BY <1>1, <1>3, <1>6 DEF Earning, h
      <4> QED BY <1>5, <1>10, <4>1, <4>2
    <3>2. Covered(h, log, r.next - 1)
      BY <1>8, <2>1
    <3> QED BY <2>1, <3>1, <3>2 DEF Earning
  <2>3. Reading(r, log)
    BY <1>3, <1>4, <2>1 DEF Reading
  <2>4. UNCHANGED <<server, lock>> /\ legacy' = legacy
    BY <1>1, <1>13 DEF server
  <2> QED BY <1>1, <1>2, <1>3, <1>10, <1>11, <1>13, <2>1, <2>2, <2>3, <2>4, WorkStep
<1> QED BY <1>1, <1>12, <1>13

-----------------------------------------------------------------------------
(* A listener on its way to the hub. *)

\* A session is found, or made with nothing in it.
LEMMA Opened ==
    ASSUME Typed, NEW m \in Nicks, OpensSession(m)
    PROVE  /\ Loaded(m) \in Sessions /\ Loaded(m) # None /\ file'[m] = Loaded(m)
           /\ file' \in [Nicks -> Sessions \cup {None}] /\ legacy' \in BOOLEAN
           /\ \A n \in Nicks : \/ file'[n] = file[n]
                               \/ file[n] = None /\ file'[n] # None /\ Blank(file'[n])
<1>1. file[m] = None => Loaded(m).inst \in Ids
  <2>1. CASE legacy
    BY <2>1, ListenerAssumption DEF Loaded
  <2>2. CASE file[m] = None /\ ~legacy
    <3>1. FreshId \in Ids
      BY <2>2 DEF OpensSession, FreshIdLeft, FreshId
    <3> QED BY <2>2, <3>1 DEF Loaded
  <2> QED BY <2>1, <2>2
<1>2. Loaded(m) \in Sessions /\ (file[m] = None => Blank(Loaded(m)))
      /\ (file[m] # None => Loaded(m) = file[m])
  BY <1>1 DEF Typed, Loaded, Sessions, Blank
<1>3. file' = [file EXCEPT ![m] = Loaded(m)] /\ legacy' \in BOOLEAN
  BY DEF OpensSession, LegacyTaken, Typed
<1>4. Loaded(m) # None
  BY <1>2, ListenerAssumption
<1> HIDE DEF Loaded
<1> QED BY <1>2, <1>3, <1>4 DEF Typed

\* Who is not yet connected stands in no connection of the hub.
LEMMA NotRouted ==
    ASSUME CursorInv, NEW p \in Procs, ~Hearing(me[p]), me[p].boot = None
    PROVE  \A n \in Nicks : p \notin conns[n]
BY DEF CursorInv, Routed, Present

\* A process that opens a session, or starts without one.
LEMMA ComesUp ==
    ASSUME CursorInv, LockInv', NEW p \in Procs, NEW r \in Records,
           me' = [me EXCEPT ![p] = r], lock' = lock \/ lock' = Released(p),
           UNCHANGED <<server, had>>,
           \/ UNCHANGED <<legacy, file>> /\ r.nick = None /\ r.pc = "dial"
           \/ /\ \E m \in Nicks : OpensSession(m) /\ r.nick = m
              /\ r.pc = "open" /\ r.mem # None,
           r.step = "next",
           \/ r.boot = None /\ me[p].boot = None /\ ~Hearing(me[p])
           \/ /\ r.boot # None /\ r.pc = "open" /\ room = "up" /\ Reading(r, log)
              /\ \A n \in Nicks : p \in conns[n] => r.nick = n
    PROVE  CursorInv'
<1>1. Typed /\ LockInv /\ Routed
  BY DEF CursorInv
<1>2. /\ file' \in [Nicks -> Sessions \cup {None}] /\ legacy' \in BOOLEAN
      /\ \A n \in Nicks : \/ file'[n] = file[n]
                          \/ file[n] = None /\ file'[n] # None /\ Blank(file'[n])
  BY <1>1, Opened DEF Typed
<1>3. Leaves(p)
  BY <1>1, <1>2, HoldsKept DEF Leaves, server, Typed
<1>4. Writes(p)
  BY <1>1, <1>2 DEF Writes, Typed
<1>5. ~Owns(r) /\ ~Hearing(r) /\ Sitting(r)
  BY DEF Owns, Hearing, Sitting
<1>6. Reading(r, log)
  BY <1>5 DEF Reading, Present
<1>7. \A n \in Nicks : p \in conns'[n] => r.nick = n /\ Present(r)
  BY NotRouted DEF server, Present
<1>8. room = "gone" => r.pc \in {"down", "dial", "open", "flock"} /\ r.boot = None
  OBVIOUS
<1>9. Stands(p, r)
  BY <1>5, <1>6, <1>7, <1>8 DEF Stands
<1> QED BY <1>3, <1>4, <1>9, ProcStep

LEMMA StartStep ==
    ASSUME CursorInv, LockInv', NEW p \in Procs, Start(p)
    PROVE  CursorInv'
<1>1. Typed /\ Sitting(me[p]) /\ me[p].pc = "down" /\ me[p].boot = None /\ ~Hearing(me[p])
  BY DEF CursorInv, ProcInv, Start, Sitting, Hearing
<1>2. PICK mode \in Modes :
        LET new == [Idle EXCEPT !.once = mode.once, !.fresh = mode.fresh] IN
        \/ me' = [me EXCEPT ![p] = [new EXCEPT !.pc = "dial"]] /\ UNCHANGED <<legacy, file>>
        \/ \E n \in Named :
             /\ OpensSession(n)
             /\ me' = [me EXCEPT ![p] = [new EXCEPT !.pc = "open", !.nick = n, !.mem = Loaded(n)]]
  BY DEF Start
<1>3. UNCHANGED <<server, lock, had>>
  BY DEF Start
<1> DEFINE new == [Idle EXCEPT !.once = mode.once, !.fresh = mode.fresh]
           dialing == [new EXCEPT !.pc = "dial"]
           opening(n) == [new EXCEPT !.pc = "open", !.nick = n, !.mem = Loaded(n)]
<1>4. mode.once \in BOOLEAN /\ mode.fresh \in BOOLEAN
  BY ListenerAssumption
<1>7. new \in Records /\ new.nick = None /\ new.step = "next" /\ new.boot = None
  <2>1. Idle \in Records /\ Idle.nick = None /\ Idle.step = "next" /\ Idle.boot = None
    BY DEF Idle, Records, Points, Steps
  <2> QED BY <1>4, <2>1 DEF Records
<1> HIDE DEF new
<1>5. CASE me' = [me EXCEPT ![p] = dialing] /\ UNCHANGED <<legacy, file>>
  <2>1. dialing \in Records /\ dialing.nick = None /\ dialing.pc = "dial" /\ dialing.step = "next"
        /\ dialing.boot = None
    BY <1>7 DEF Records, Points
  <2> HIDE DEF dialing
  <2> QED BY <1>1, <1>3, <1>5, <2>1, ComesUp
<1>6. ASSUME NEW n \in Named, OpensSession(n), me' = [me EXCEPT ![p] = opening(n)]
      PROVE  CursorInv'
  <2>1. n \in Nicks
    BY ListenerAssumption
  <2>2. Loaded(n) \in Sessions /\ Loaded(n) # None
    BY <1>1, <1>6, <2>1, Opened
  <2>3. opening(n) \in Records /\ opening(n).nick = n /\ opening(n).pc = "open"
        /\ opening(n).step = "next" /\ opening(n).boot = None /\ opening(n).mem # None
    BY <1>7, <2>1, <2>2 DEF Records, Points
  <2> HIDE DEF opening
  <2> QED BY <1>1, <1>3, <1>6, <2>1, <2>3, ComesUp
<1> QED BY <1>2, <1>5, <1>6 DEF new

LEMMA OpenAssignedStep ==
    ASSUME CursorInv, LockInv', NEW p \in Procs, OpenAssigned(p)
    PROVE  CursorInv'
<1> DEFINE n == me[p].nick
           r == [me[p] EXCEPT !.pc = "open", !.mem = Loaded(n)]
<1>1. /\ me[p].pc = "assigned" /\ me' = [me EXCEPT ![p] = r] /\ OpensSession(n)
      /\ UNCHANGED <<server, had>> /\ lock' = lock
  BY DEF OpenAssigned
<1>2. Typed /\ Routed /\ Sitting(me[p]) /\ Reading(me[p], log) /\ me[p] \in Records
  BY DEF CursorInv, ProcInv, Typed
<1>3. n \in Nicks /\ me[p].boot # None /\ me[p].step = "next"
  BY <1>1, <1>2 DEF Sitting, Hearing
<1>4. room = "up"
  BY <1>1, <1>2 DEF CursorInv, Deserted, Noticed, Typed
<1>5. Loaded(n) \in Sessions /\ Loaded(n) # None
  BY <1>1, <1>2, <1>3, Opened
<1>6. /\ r \in Records /\ r.nick = n /\ r.pc = "open" /\ r.mem # None
      /\ r.step = "next" /\ r.boot = me[p].boot /\ r.end = me[p].end /\ r.sent = me[p].sent
      /\ r.next = me[p].next /\ r.fresh = me[p].fresh
  BY <1>2, <1>3, <1>5 DEF Records, Points
<1> HIDE DEF r
<1>7. Reading(r, log)
  BY <1>1, <1>2, <1>3, <1>6 DEF Reading, Present
<1>8. \A m \in Nicks : p \in conns[m] => r.nick = m
  BY <1>2, <1>6 DEF Routed
<1> QED BY <1>1, <1>3, <1>4, <1>6, <1>7, <1>8, ComesUp

LEMMA RefusedStep ==
    ASSUME CursorInv, LockInv', NEW p \in Procs, Refused(p)
    PROVE  CursorInv'
<1> DEFINE r(m) == [me[p] EXCEPT !.pc = "open", !.nick = m, !.mem = Loaded(m)]
<1>1. PICK m \in Nicks : OpensSession(m) /\ me' = [me EXCEPT ![p] = r(m)]
  BY DEF Refused
<1>2. me[p].pc = "dial" /\ lock' = Released(p) /\ UNCHANGED <<server, had>>
  BY DEF Refused
<1>3. Typed /\ Sitting(me[p]) /\ me[p] \in Records
  BY DEF CursorInv, ProcInv, Typed
<1>4. me[p].boot = None /\ ~Hearing(me[p]) /\ me[p].step = "next"
  BY <1>2, <1>3 DEF Sitting, Hearing
<1>5. Loaded(m) \in Sessions /\ Loaded(m) # None
  BY <1>1, <1>3, Opened
<1>6. /\ r(m) \in Records /\ r(m).nick = m /\ r(m).pc = "open" /\ r(m).mem # None
      /\ r(m).step = "next" /\ r(m).boot = None
  BY <1>3, <1>4, <1>5 DEF Records, Points
<1> HIDE DEF r
<1> QED BY <1>1, <1>2, <1>4, <1>6, ComesUp

\* The file of the lock is open; whoever has it locked still has.
LEMMA OpenLockStep ==
    ASSUME CursorInv, LockInv', NEW p \in Procs, OpenLock(p)
    PROVE  CursorInv'
<1> DEFINE n == me[p].nick
           i == IF lock[n].path # 0 THEN lock[n].path ELSE lock[n].made + 1
           r == [me[p] EXCEPT !.pc = "flock", !.fd = i]
<1>1. /\ me[p].pc = "open" /\ i \in Inodes /\ me' = [me EXCEPT ![p] = r]
      /\ lock' = [lock EXCEPT ![n].path = i, ![n].made = IF i > @ THEN i ELSE @]
      /\ UNCHANGED <<server, legacy, file, had>>
  BY DEF OpenLock
<1>2. Typed /\ LockInv /\ Routed /\ Sitting(me[p]) /\ Reading(me[p], log) /\ me[p] \in Records
  BY DEF CursorInv, ProcInv, Typed
<1>3. n \in Nicks /\ me[p].mem # None /\ me[p].step = "next"
  BY <1>1, <1>2 DEF Sitting, Hearing
<1>4. \A m \in Nicks : lock'[m].held = lock[m].held
  <2> HIDE DEF i
  <2> QED BY <1>1, <1>2, <1>3 DEF LockInv, Shape
<1>5. /\ r \in Records /\ r.nick = n /\ r.pc = "flock" /\ r.mem # None
      /\ r.step = "next" /\ r.boot = me[p].boot /\ r.end = me[p].end /\ r.sent = me[p].sent
      /\ r.next = me[p].next /\ r.fresh = me[p].fresh
  <2>1. i \in 0..2
    BY <1>1 DEF Inodes
  <2> HIDE DEF i
  <2> QED BY <1>2, <1>3, <2>1 DEF Records, Points
<1> HIDE DEF r, i
<1>6. Leaves(p)
  BY <1>1, <1>2, <1>4 DEF Leaves, server, Typed
<1>7. Writes(p)
  BY <1>1, <1>2 DEF Writes, Typed
<1>8. ~Owns(r) /\ ~Hearing(r) /\ Sitting(r)
  BY <1>3, <1>5 DEF Owns, Hearing, Sitting
<1>9. Reading(r, log)
  BY <1>1, <1>2, <1>5 DEF Reading, Present, Hearing
<1>10. \A m \in Nicks : p \in conns'[m] => r.nick = m /\ Present(r)
  BY <1>1, <1>2, <1>5 DEF Routed, Present, Hearing, server
<1>11. room = "gone" => r.boot = None
  BY <1>5 DEF CursorInv, Deserted, Noticed
<1>12. Stands(p, r)
  BY <1>5, <1>8, <1>9, <1>10, <1>11 DEF Stands
<1> QED BY <1>1, <1>6, <1>7, <1>12, ProcStep

\* The lock is taken, with the session that is on disk, or the process gives up.
LEMMA FlockStep ==
    ASSUME Raced = FALSE, CursorInv, LockInv', NEW p \in Procs, Flock(p)
    PROVE  CursorInv'
<1> DEFINE n == me[p].nick
           i == me[p].fd
           place == IF me[p].boot = None THEN "dial" ELSE "adopt"
           r == [me[p] EXCEPT !.pc = place, !.fd = 0]
<1>1. /\ me[p].pc = "flock" /\ UNCHANGED <<log, room, inst, legacy, file, had>>
      /\ \/ Ends(p)
         \/ /\ lock[n].held[i] = None /\ me[p].mem = file[n]
            /\ lock' = [lock EXCEPT ![n].held[i] = p]
            /\ me' = [me EXCEPT ![p] = r] /\ conns' = conns
  BY DEF Flock
<1>2. Typed /\ LockInv /\ Routed /\ Sitting(me[p]) /\ Reading(me[p], log) /\ me[p] \in Records
  BY DEF CursorInv, ProcInv, Typed
<1>3. n \in Nicks /\ me[p].mem # None /\ me[p].step = "next" /\ i \in Inodes
  BY <1>1, <1>2 DEF Sitting, Hearing, LockInv, OpenedAtPath
<1>4. CASE Ends(p)
  BY <1>1, <1>2, <1>4, EndStep DEF Typed
<1>5. CASE /\ lock[n].held[i] = None /\ me[p].mem = file[n]
           /\ lock' = [lock EXCEPT ![n].held[i] = p]
           /\ me' = [me EXCEPT ![p] = r] /\ conns' = conns
  <2>1. /\ lock'[n].held[i] = p
        /\ \A q \in Procs \ {p} : \A m \in Nicks :
             (\E j \in Inodes : lock[m].held[j] = q) => \E j \in Inodes : lock'[m].held[j] = q
    <3>1. \A m \in Nicks : lock[m].held \in [Inodes -> Procs \cup {None}]
      BY <1>2 DEF LockInv, Shape
    <3>2. lock'[n].held = [lock[n].held EXCEPT ![i] = p]
          /\ \A m \in Nicks : m # n => lock'[m] = lock[m]
      BY <1>2, <1>3, <1>5 DEF LockInv, Shape
    <3> HIDE DEF n, i
    <3>3. \A j \in Inodes : lock'[n].held[j] = IF j = i THEN p ELSE lock[n].held[j]
      BY <1>3, <3>1, <3>2
    <3>4. ASSUME NEW q \in Procs \ {p}, NEW m \in Nicks, NEW j \in Inodes, lock[m].held[j] = q
          PROVE  lock'[m].held[j] = q
      <4>1. CASE m = n
        BY <1>5, <3>3, <3>4, <4>1, ListenerAssumption
      <4>2. CASE m # n
        BY <3>2, <3>4, <4>2
      <4> QED BY <4>1, <4>2
    <3> QED BY <1>3, <3>3, <3>4
  <2>2. /\ r \in Records /\ r.nick = n /\ r.mem = file[n] /\ r.mem # None
        /\ r.pc = (IF me[p].boot = None THEN "dial" ELSE "adopt")
        /\ r.step = "next" /\ r.boot = me[p].boot /\ r.end = me[p].end /\ r.sent = me[p].sent
        /\ r.next = me[p].next /\ r.fresh = me[p].fresh
    <3>1. place \in Points /\ 0 \in 0..2 /\ file[n] # None
      BY <1>3, <1>5 DEF Points
    <3> HIDE DEF place
    <3>2. r \in Records /\ r.pc = place
      BY <1>2, <3>1 DEF Records
    <3> QED BY <1>3, <1>5, <3>1, <3>2 DEF Records, place
  <2> HIDE DEF r
  <2>3. Leaves(p)
    BY <1>1, <1>2, <1>5, <2>1 DEF Leaves, Typed
  <2>4. Writes(p)
    BY <1>1, <1>2 DEF Writes, Typed
  <2>5. ~Hearing(r) /\ Sitting(r)
    BY <1>3, <2>2 DEF Hearing, Sitting
  <2>6. Reading(r, log)
    BY <1>1, <1>2, <2>2, <2>5 DEF Reading, Present, Hearing
  <2>7. \A m \in Nicks : p \in conns'[m] => r.nick = m /\ Present(r)
    BY <1>1, <1>2, <1>5, <2>2 DEF Routed, Present, Hearing
  <2>8. room = "gone" => r.pc = "dial" /\ r.boot = None
    BY <2>2 DEF CursorInv, Deserted, Noticed
  <2>9. \E j \in Inodes : lock'[r.nick].held[j] = p
    BY <1>3, <2>1, <2>2
  <2>10. Matches(r.mem, file'[r.nick], room = "up")
    BY <1>1, <2>2 DEF Matches
  <2>11. Stands(p, r)
    BY <2>2, <2>5, <2>6, <2>7, <2>8, <2>9, <2>10 DEF Stands
  <2> QED BY <1>5, <2>3, <2>4, <2>11, ProcStep
<1> QED BY <1>1, <1>4, <1>5

\* The file of the assigned nick starts from nothing, and so does the agent.
LEMMA AdoptStep ==
    ASSUME CursorInv, LockInv', NEW p \in Procs, Adopt(p)
    PROVE  CursorInv'
<1> DEFINE n == me[p].nick
           s == [inst |-> me[p].boot, cursor |-> 0, acts |-> <<>>]
           then == [me[p] EXCEPT !.pc = "reply", !.boot = None]
           r == [then EXCEPT !.mem = s]
<1>1. /\ me[p].pc = "adopt" /\ me' = [me EXCEPT ![p] = r] /\ file' = [file EXCEPT ![n] = s]
      /\ had' = [had EXCEPT ![n] = {}] /\ UNCHANGED <<server, legacy, lock>>
  BY DEF Adopt, AdoptTo, SavesAs
<1>2. Typed /\ LockInv /\ Routed /\ Sitting(me[p]) /\ Reading(me[p], log) /\ me[p] \in Records
      /\ ProcInv(p)
  BY DEF CursorInv, ProcInv, Typed
<1>3. n \in Nicks /\ n # None /\ me[p].step = "next" /\ me[p].boot # None /\ me[p].boot \in Ids
      /\ Owns(me[p])
  BY <1>1, <1>2, ListenerAssumption DEF Sitting, Hearing, Owns, Records
<1>4. room = "up"
  BY <1>1, <1>2 DEF CursorInv, Deserted, Noticed, Typed
<1>5. s \in Sessions /\ s # None /\ s.cursor = 0 /\ s.acts = <<>>
  <2>1. s \in Sessions
    BY <1>3 DEF Sessions
  <2> QED BY <2>1, ListenerAssumption
<1>6. Honest(s, {}, log)
  BY <1>5 DEF Honest, Covered, Remembered
<1>7. /\ r \in Records /\ r.nick = n /\ r.mem = s /\ r.pc = "reply" /\ r.boot = None
      /\ r.step = "next" /\ r.end = me[p].end /\ r.sent = me[p].sent
      /\ r.next = me[p].next /\ r.fresh = me[p].fresh
  <2>1. /\ then \in Records /\ then.nick = n /\ then.pc = "reply" /\ then.boot = None
        /\ then.step = "next" /\ then.end = me[p].end /\ then.sent = me[p].sent
        /\ then.next = me[p].next /\ then.fresh = me[p].fresh
    BY <1>2, <1>3 DEF Records, Points
  <2> HIDE DEF s, then
  <2> QED BY <1>5, <2>1 DEF Records
<1> HIDE DEF r, s
<1>8. Leaves(p)
  BY <1>1, <1>2 DEF Leaves, server, Typed
<1>9. /\ file' \in [Nicks -> Sessions \cup {None}] /\ had' \in [Nicks -> SUBSET Nat]
      /\ file'[n] = s /\ had'[n] = {}
      /\ \A m \in Nicks : m # n => file'[m] = file[m] /\ had'[m] = had[m]
  BY <1>1, <1>2, <1>3, <1>5 DEF Typed
<1>10. Writes(p)
  BY <1>3, <1>6, <1>9 DEF Writes
<1>11. Reading(r, log) /\ (~r.fresh => r.next = 1)
  BY <1>1, <1>2, <1>3, <1>7 DEF Reading, Present, Hearing
<1>12. Sitting(r)
  BY <1>3, <1>5, <1>7 DEF Sitting, Hearing
<1>13. Earning(r, {}, log)
  BY <1>7, <1>11 DEF Earning, Covered
<1>14. \A m \in Nicks : p \in conns'[m] => r.nick = m /\ Present(r)
  BY <1>1, <1>2, <1>7 DEF Routed, Present, Hearing, server
<1>15. \E j \in Inodes : lock'[r.nick].held[j] = p
  BY <1>1, <1>2, <1>3, <1>7 DEF ProcInv, Holds
<1>16. Matches(r.mem, file'[r.nick], room = "up")
  BY <1>7, <1>9 DEF Matches
<1>17. Stands(p, r)
  BY <1>4, <1>7, <1>9, <1>11, <1>12, <1>13, <1>14, <1>15, <1>16 DEF Stands
<1> QED BY <1>1, <1>8, <1>10, <1>17, ProcStep

\* Not connected yet, it has its lock, its session, and no frame to go on with.
LEMMA AtDial ==
    ASSUME CursorInv, NEW p \in Procs, me[p].pc = "dial"
    PROVE  /\ me[p] \in Records /\ me[p].boot = None /\ me[p].step = "next" /\ ~Hearing(me[p])
           /\ \A n \in Nicks : p \notin conns[n]
           /\ me[p].nick # None =>
                /\ me[p].nick \in Nicks /\ Owns(me[p]) /\ me[p].mem \in Sessions
                /\ \E i \in Inodes : lock[me[p].nick].held[i] = p
                /\ Matches(me[p].mem, file[me[p].nick], room = "up")
<1>1. Typed /\ Sitting(me[p]) /\ ProcInv(p) /\ me[p] \in Records
  BY DEF CursorInv, ProcInv, Typed
<1>2. me[p].boot = None /\ me[p].step = "next" /\ ~Hearing(me[p])
  BY <1>1 DEF Sitting, Hearing
<1>3. ASSUME me[p].nick # None
      PROVE  me[p].nick \in Nicks /\ Owns(me[p]) /\ me[p].mem \in Sessions
  BY <1>1, <1>3 DEF Owns, Records, Sitting
<1>4. \A n \in Nicks : p \notin conns[n]
  BY <1>2, NotRouted
<1> QED BY <1>1, <1>2, <1>3, <1>4 DEF ProcInv, Holds

LEMMA HangUpStep ==
    ASSUME CursorInv, LockInv', NEW p \in Procs, HangUp(p)
    PROVE  CursorInv'
<1> DEFINE n == me[p].nick
           r == [Idle EXCEPT !.pc = "dial", !.nick = n, !.mem = me[p].mem,
                             !.once = me[p].once, !.fresh = me[p].fresh]
<1>1. /\ me[p].pc = "live" /\ p \notin conns[n] /\ me' = [me EXCEPT ![p] = r]
      /\ UNCHANGED <<server, disk, had>>
  BY DEF HangUp, ReadOut, Reconnects
<1>2. Typed /\ Routed /\ ProcInv(p) /\ Hearing(me[p])
  BY <1>1 DEF CursorInv, Hearing
<1>3. /\ room = "up" /\ me[p] \in Records /\ n \in Nicks
      /\ me[p].mem = file[n] /\ file[n] \in Sessions
      /\ \E i \in Inodes : lock[n].held[i] = p
  BY <1>2, AtWork
<1>4. Idle \in Records /\ Idle.boot = None /\ Idle.step = "next"
  BY DEF Idle, Records, Points, Steps
<1>5. /\ r \in Records /\ r.nick = n /\ r.mem = file[n] /\ r.mem # None /\ r.pc = "dial"
      /\ r.boot = None /\ r.step = "next"
  <2>1. file[n] # None
    BY <1>3, ListenerAssumption
  <2> QED BY <1>3, <1>4, <2>1 DEF Records, Points
<1> HIDE DEF r
<1>6. Leaves(p) /\ Writes(p)
  BY <1>1, <1>2 DEF Leaves, Writes, server, disk, Typed
<1>7. ~Hearing(r) /\ Sitting(r) /\ Reading(r, log)
  BY <1>5 DEF Hearing, Sitting, Reading, Present
<1>8. \A m \in Nicks : p \notin conns'[m]
  BY <1>1, <1>2 DEF Routed, server
<1>9. Matches(r.mem, file'[r.nick], room = "up")
  BY <1>1, <1>5 DEF Matches, disk
<1>10. \E j \in Inodes : lock'[r.nick].held[j] = p
  BY <1>1, <1>3, <1>5 DEF disk
<1>11. Stands(p, r)
  BY <1>3, <1>5, <1>7, <1>8, <1>9, <1>10 DEF Stands
<1> QED BY <1>1, <1>6, <1>11, ProcStep

\* A cursor reset before the listener connects; what was given counts no more.
LEMMA ResetStep ==
    ASSUME LiveReset = FALSE, CursorInv, LockInv', NEW p \in Procs, Reset(p)
    PROVE  CursorInv'
<1> DEFINE n == me[p].nick
           s == [file[n] EXCEPT !.cursor = 0, !.acts = <<>>]
           r == [me[p] EXCEPT !.mem = s]
<1>1. /\ n # None /\ me[p].pc = "dial" /\ file[n] # None
      /\ me' = [me EXCEPT ![p] = r] /\ file' = [file EXCEPT ![n] = s]
      /\ had' = [had EXCEPT ![n] = {}] /\ UNCHANGED <<server, legacy, lock>>
  BY DEF Reset, SavesAs
<1>2. Typed /\ LockInv
  BY DEF CursorInv
<1>3. /\ me[p] \in Records /\ me[p].boot = None /\ me[p].step = "next"
      /\ \A m \in Nicks : p \notin conns[m]
      /\ n \in Nicks /\ Owns(me[p])
      /\ \E i \in Inodes : lock[n].held[i] = p
  BY <1>1, AtDial
<1>4. s \in Sessions /\ s # None /\ s.cursor = 0 /\ s.acts = <<>>
  <2>1. file[n] \in Sessions
    BY <1>1, <1>2, <1>3 DEF Typed
  <2>2. s \in Sessions /\ s.cursor = 0 /\ s.acts = <<>>
    <3>1. <<>> \in Seq(Acts) /\ 0 \in Nat
      OBVIOUS
    <3>2. file[n] \in [inst : Ids, cursor : Nat, acts : Seq(Acts)]
      BY <2>1 DEF Sessions
    <3> QED BY <3>1, <3>2 DEF Sessions
  <2> QED BY <2>2, ListenerAssumption
<1> HIDE DEF s
<1>5. Honest(s, {}, log)
  BY <1>4 DEF Honest, Covered, Remembered
<1>6. /\ r \in Records /\ r.nick = n /\ r.mem = s /\ r.pc = "dial" /\ r.boot = None
      /\ r.step = "next"
  BY <1>1, <1>3, <1>4 DEF Records
<1> HIDE DEF r
<1>7. Leaves(p)
  BY <1>1, <1>2 DEF Leaves, server, Typed
<1>8. /\ file' \in [Nicks -> Sessions \cup {None}] /\ had' \in [Nicks -> SUBSET Nat]
      /\ file'[n] = s /\ had'[n] = {}
      /\ \A m \in Nicks : m # n => file'[m] = file[m] /\ had'[m] = had[m]
  BY <1>1, <1>2, <1>3, <1>4 DEF Typed
<1>9. Writes(p)
  BY <1>3, <1>5, <1>8 DEF Writes
<1>10. ~Hearing(r) /\ Sitting(r) /\ Reading(r, log)
  BY <1>3, <1>4, <1>6 DEF Hearing, Sitting, Reading, Present
<1>11. Stands(p, r)
  BY <1>1, <1>3, <1>6, <1>8, <1>10 DEF Stands, Matches, server
<1> QED BY <1>1, <1>7, <1>9, <1>11, ProcStep

\* The hub lets it in, and names the end of its reply.
LEMMA WelcomedStep ==
    ASSUME CursorInv, LockInv', NEW p \in Procs, Welcomed(p)
    PROVE  CursorInv'
<1> DEFINE n == me[p].nick
           from == IF me[p].fresh THEN Len(log) ELSE me[p].mem.cursor
           r == [me[p] EXCEPT
                !.pc = "reply", !.nick = n, !.boot = None,
                !.resync = from < Boundary, !.next = from + 1,
                !.end = Len(log), !.sent = Len(log), !.gave = FALSE]
<1>1. /\ me[p].pc = "dial" /\ room = "up" /\ n # None
      /\ me[p].mem.cursor <= Len(log)
      /\ inst' = [inst EXCEPT ![n] = me[p].mem.inst]
      /\ conns' = [conns EXCEPT ![n] = @ \cup {p}]
      /\ me' = [me EXCEPT ![p] = r]
      /\ UNCHANGED <<log, room, disk, had>>
  BY DEF Welcomed, Welcome
<1>2. Typed /\ LockInv
  BY DEF CursorInv
<1>3. /\ me[p] \in Records /\ me[p].boot = None /\ me[p].step = "next"
      /\ \A m \in Nicks : p \notin conns[m]
      /\ n \in Nicks /\ Owns(me[p]) /\ me[p].mem \in Sessions
      /\ \E i \in Inodes : lock[n].held[i] = p
      /\ me[p].mem = file[n]
  BY <1>1, AtDial DEF Matches
<1>4. Honest(file[n], had[n], log) /\ file[n] # None /\ had[n] \in SUBSET Nat
  BY <1>1, <1>2, <1>3, ListenerAssumption DEF CursorInv, FilesHonest, Typed
<1>5. Len(log) \in Nat /\ from \in Nat /\ me[p].mem.cursor \in Nat /\ (from < Boundary) \in BOOLEAN
  BY <1>2, <1>3 DEF Typed, Sessions
<1>6. /\ r \in Records /\ r.nick = n /\ r.mem = file[n] /\ r.pc = "reply" /\ r.boot = None
      /\ r.step = "next" /\ r.next = from + 1 /\ r.end = Len(log) /\ r.sent = Len(log)
      /\ r.fresh = me[p].fresh
  <2> HIDE DEF from
  <2>1. from + 1 \in Nat
    BY <1>5
  <2> QED BY <1>3, <1>5, <2>1 DEF Records, Points
<1> HIDE DEF r
<1>7. Leaves(p)
  <2>1. inst' \in [Nicks -> Ids \cup {None}]
    BY <1>1, <1>2, <1>3 DEF Typed, Sessions
  <2>2. conns' \in [Nicks -> SUBSET Procs]
        /\ \A m \in Nicks : \A q \in conns'[m] : q \in conns[m] \/ q = p
    BY <1>1, <1>2, <1>3 DEF Typed
  <2> QED BY <1>1, <1>2, <2>1, <2>2 DEF Leaves, disk, Typed
<1>8. Writes(p)
  BY <1>1, <1>2 DEF Writes, disk, Typed
<1>9. Reading(r, log)
  BY <1>5, <1>6 DEF Reading, Present
<1>10. Sitting(r) /\ Hearing(r) /\ Present(r)
  BY <1>3, <1>4, <1>6 DEF Sitting, Hearing, Present
<1>11. Earning(r, had[n], log)
  <2>1. ~r.fresh => Covered(had[n], log, r.next - 1)
    BY <1>3, <1>4, <1>5, <1>6 DEF Honest
  <2>2. \A k \in had[n] : k <= r.end \/ k <= r.mem.cursor
    BY <1>4, <1>6 DEF Honest
  <2> QED BY <1>6, <2>1, <2>2 DEF Earning
<1>12. \A m \in Nicks : p \in conns'[m] => r.nick = m
  BY <1>1, <1>2, <1>3, <1>6 DEF Typed
<1>13. Matches(r.mem, file'[r.nick], room = "up") /\ \E i \in Inodes : lock'[r.nick].held[i] = p
  BY <1>1, <1>3, <1>6 DEF Matches, disk
<1>14. had'[r.nick] = had[n]
  BY <1>1, <1>6
<1>15. Stands(p, r)
  BY <1>1, <1>6, <1>9, <1>10, <1>11, <1>12, <1>13, <1>14 DEF Stands
<1> QED BY <1>1, <1>7, <1>8, <1>15, ProcStep

\* The hub gives it a name; nothing of that name's file is its own yet.
LEMMA AssignedStep ==
    ASSUME CursorInv, LockInv', NEW p \in Procs, Assigned(p)
    PROVE  CursorInv'
<1> DEFINE from == IF me[p].fresh THEN Len(log) ELSE 0
           r(n) == [me[p] EXCEPT
                !.pc = "assigned", !.nick = n, !.boot = FreshId,
                !.resync = from < Boundary, !.next = from + 1,
                !.end = Len(log), !.sent = Len(log), !.gave = FALSE]
<1>1. PICK n \in Nicks :
      /\ inst[n] = None
      /\ inst' = [inst EXCEPT ![n] = FreshId]
      /\ conns' = [conns EXCEPT ![n] = @ \cup {p}]
      /\ me' = [me EXCEPT ![p] = r(n)]
  BY DEF Assigned, Welcome
<1>2. me[p].pc = "dial" /\ room = "up" /\ FreshIdLeft /\ UNCHANGED <<log, room, disk, had>>
  BY DEF Assigned, Welcome
<1>3. Typed /\ LockInv
  BY DEF CursorInv
<1>4. /\ me[p] \in Records /\ me[p].step = "next" /\ \A m \in Nicks : p \notin conns[m]
  BY <1>2, AtDial
<1>5. FreshId \in Ids /\ FreshId # None
  BY <1>2, ListenerAssumption DEF FreshIdLeft, FreshId
<1>6. Len(log) \in Nat /\ from \in Nat /\ (from < Boundary) \in BOOLEAN
  BY <1>3 DEF Typed
<1>7. /\ r(n) \in Records /\ r(n).nick = n /\ r(n).pc = "assigned" /\ r(n).boot = FreshId
      /\ r(n).step = "next" /\ r(n).next = from + 1 /\ r(n).end = Len(log)
      /\ r(n).sent = Len(log) /\ r(n).fresh = me[p].fresh
  <2> HIDE DEF from
  <2>1. from + 1 \in Nat
    BY <1>6
  <2> QED BY <1>4, <1>5, <1>6, <2>1 DEF Records, Points
<1> HIDE DEF r
<1>8. Leaves(p)
  <2>1. inst' \in [Nicks -> Ids \cup {None}]
    BY <1>1, <1>3, <1>5 DEF Typed
  <2>2. conns' \in [Nicks -> SUBSET Procs]
        /\ \A m \in Nicks : \A q \in conns'[m] : q \in conns[m] \/ q = p
    BY <1>1, <1>3 DEF Typed
  <2> QED BY <1>2, <1>3, <2>1, <2>2 DEF Leaves, disk, Typed
<1>9. Writes(p)
  BY <1>2, <1>3 DEF Writes, disk, Typed
<1>10. Reading(r(n), log)
  BY <1>6, <1>7 DEF Reading, Present
<1>11. Sitting(r(n)) /\ ~Hearing(r(n)) /\ ~Owns(r(n)) /\ Present(r(n))
  BY <1>5, <1>7 DEF Sitting, Hearing, Present, Owns
<1>12. \A m \in Nicks : p \in conns'[m] => r(n).nick = m
  BY <1>1, <1>3, <1>4, <1>7 DEF Typed
<1>13. Stands(p, r(n))
  BY <1>2, <1>7, <1>10, <1>11, <1>12 DEF Stands
<1> QED BY <1>1, <1>8, <1>9, <1>13, ProcStep

LEMMA ListensStep ==
    ASSUME Raced = FALSE, LiveReset = FALSE, CursorInv, LockInv', NEW p \in Procs, Listens(p)
    PROVE  CursorInv'
<1>1. CASE Start(p) \/ OpenAssigned(p) \/ OpenLock(p) \/ Flock(p) \/ Adopt(p)
  BY <1>1, StartStep, OpenAssignedStep, OpenLockStep, FlockStep, AdoptStep
<1>2. CASE Refused(p) \/ Rejected(p) \/ Welcomed(p) \/ Assigned(p)
  BY <1>2, RefusedStep, OverStep, WelcomedStep, AssignedStep
<1>3. CASE Passes(p) \/ Suppress(p) \/ Emit(p) \/ Mark(p) \/ Advance(p)
  BY <1>3, PassesStep, SuppressStep, EmitStep, MarkStep, AdvanceStep
<1>4. CASE HearConversation(p) \/ EndReply(p) \/ HangUp(p) \/ End(p) \/ Reset(p)
  BY <1>4, HearConversationStep, EndReplyStep, HangUpStep, OverStep, ResetStep
<1> QED BY <1>1, <1>2, <1>3, <1>4 DEF Listens

-----------------------------------------------------------------------------
(* The others. *)

\* Nobody moves: what was in order is, if files, locks and connections are.
LEMMA NobodyMoves ==
    ASSUME CursorInv, LockInv', Typed', me' = me, log' = log, had' = had,
           \A n \in Nicks : conns'[n] \subseteq conns[n],
           \A n \in Nicks : lock'[n].held = lock[n].held,
           \/ room' = room /\ room = "up"
              /\ \A n \in Nicks : \/ file'[n] = file[n]
                                  \/ file[n] = None /\ file'[n] # None /\ Blank(file'[n])
           \/ room' = "gone" /\ room = "gone"
              /\ \A n \in Nicks : file'[n] = file[n] \/ file'[n] = None
    PROVE  CursorInv'
<1>1. Typed /\ LockInv /\ Routed /\ \A q \in Procs : ProcInv(q)
  BY DEF CursorInv
<1>2. Routed'
  BY <1>1 DEF Routed
<1>3. room' = "gone" => Deserted'
  BY DEF CursorInv, Deserted, Noticed
<1>4. room' = "up" => FilesHonest'
  <2> SUFFICES ASSUME room = "up", room' = room, NEW n \in Nicks
               PROVE  Honest(file'[n], had[n], log)
    BY DEF FilesHonest
  <2>1. Honest(file[n], had[n], log)
    BY DEF CursorInv, FilesHonest
  <2> QED BY <2>1, BlankHonest
<1>5. ASSUME NEW q \in Procs PROVE ProcInv(q)'
  <2>1. ProcInv(q) /\ me[q] \in Records
    BY <1>1 DEF Typed
  <2>2. ASSUME Owns(me[q])
        PROVE  (\E i \in Inodes : lock'[me[q].nick].held[i] = q)
               /\ Matches(me[q].mem, file'[me[q].nick], room' = "up")
    <3>1. me[q].nick \in Nicks /\ me[q].mem # None
      BY <2>1, <2>2 DEF Owns, ProcInv, Sitting, Records
    <3>2. \E i \in Inodes : lock[me[q].nick].held[i] = q
      BY <2>1, <2>2 DEF ProcInv, Holds
    <3>3. Matches(me[q].mem, file[me[q].nick], room = "up")
      BY <2>1, <2>2 DEF ProcInv
    <3>4. lock'[me[q].nick].held = lock[me[q].nick].held
      BY <3>1
    <3> QED BY <3>1, <3>2, <3>3, <3>4 DEF Matches
  <2>3. Hearing(me[q]) => room = "up" /\ me[q].nick \in Nicks /\ Earning(me[q], had[me[q].nick], log)
    BY AtWork
  <2> QED BY <2>1, <2>2, <2>3 DEF ProcInv, Holds
<1> QED BY <1>2, <1>3, <1>4, <1>5 DEF CursorInv

LEMMA SendStep ==
    ASSUME CursorInv, LockInv', NEW n \in Named, Send(n)
    PROVE  CursorInv'
<1>1. Typed /\ n \in Nicks
  BY ListenerAssumption DEF CursorInv
<1>2. OpensSession(n) /\ UNCHANGED <<log, room, conns, lock, me, starts, had>> /\ room = "up"
      /\ inst' = IF conns[n] = {} /\ Loaded(n).cursor <= Len(log)
                  THEN [inst EXCEPT ![n] = Loaded(n).inst] ELSE inst
  BY DEF Send
<1>3. /\ Loaded(n) \in Sessions
      /\ file' \in [Nicks -> Sessions \cup {None}] /\ legacy' \in BOOLEAN
      /\ \A m \in Nicks : \/ file'[m] = file[m]
                          \/ file[m] = None /\ file'[m] # None /\ Blank(file'[m])
  BY <1>1, <1>2, Opened
<1>4. Loaded(n).inst \in Ids
  BY <1>3 DEF Sessions
<1>5. inst' \in [Nicks -> Ids \cup {None}]
  BY <1>1, <1>2, <1>4 DEF Typed
<1>6. Typed'
  BY <1>1, <1>2, <1>3, <1>5 DEF Typed
<1> QED BY <1>2, <1>3, <1>6, NobodyMoves

LEMMA PurgeStep ==
    ASSUME CursorInv, LockInv', NEW n \in Nicks, PurgeCursor(n) \/ PurgeLock(n)
    PROVE  CursorInv'
<1>1. Typed /\ LockInv
  BY DEF CursorInv
<1>2. room = "gone" /\ UNCHANGED <<server, legacy, me, starts, had>>
  BY DEF PurgeCursor, PurgeLock
<1>3. \/ file' = [file EXCEPT ![n] = None] /\ lock' = lock
      \/ lock' = [lock EXCEPT ![n].path = 0] /\ file' = file
  BY DEF PurgeCursor, PurgeLock
<1>4. \A m \in Nicks : lock'[m].held = lock[m].held
  <2>1. CASE lock' = lock
    BY <2>1
  <2>2. CASE lock' = [lock EXCEPT ![n].path = 0]
    <3>1. \A m \in Nicks : lock[m].held = [lock[m] EXCEPT !.path = 0].held
      BY <1>1 DEF LockInv, Shape
    <3>2. \A m \in Nicks : lock'[m] = lock[m] \/ lock'[m] = [lock[m] EXCEPT !.path = 0]
      BY <1>1, <2>2 DEF LockInv, Shape
    <3> QED BY <3>1, <3>2
  <2> QED BY <1>3, <2>1, <2>2
<1>5. \A m \in Nicks : file'[m] = file[m] \/ file'[m] = None
  BY <1>1, <1>3 DEF Typed
<1>6. Typed'
  BY <1>1, <1>2, <1>3 DEF Typed, server
<1> QED BY <1>2, <1>4, <1>5, <1>6, NobodyMoves DEF server

LEMMA LoseStep ==
    ASSUME CursorInv, LockInv', NEW p \in Procs, Lose(p)
    PROVE  CursorInv'
<1>1. Typed /\ LockInv
  BY DEF CursorInv
<1>2. UNCHANGED <<log, room, inst, disk, me, starts, had>> /\ conns' = Unrouted(p)
  BY DEF Lose
<1>3. Typed' /\ \A n \in Nicks : conns'[n] \subseteq conns[n]
  BY <1>1, <1>2 DEF Typed, Unrouted, disk
<1>4. room = "up" \/ room = "gone"
  BY <1>1 DEF Typed
<1> QED BY <1>2, <1>3, <1>4, NobodyMoves DEF disk

\* A frame more on the log; those who are connected will be sent it.
LEMMA SayStep ==
    ASSUME CursorInv, LockInv', Say
    PROVE  CursorInv'
<1> DEFINE r(p) == IF \E n \in Nicks : p \in conns[n]
                   THEN [me[p] EXCEPT !.sent = Len(log')] ELSE me[p]
<1>1. /\ room = "up" /\ Len(log) < Len(Script) /\ log' = Append(log, Script[Len(log) + 1])
      /\ me' = [p \in Procs |-> r(p)]
      /\ UNCHANGED <<room, inst, conns, disk, starts, had>>
  BY DEF Say
<1>2. Typed /\ LockInv /\ Routed /\ \A q \in Procs : ProcInv(q)
  BY DEF CursorInv
<1>3. /\ log' \in Seq({"hidden", "talk"} \cup Acts) /\ Len(log) \in Nat /\ Len(log') = Len(log) + 1
      /\ \A j \in DOMAIN log : j \in DOMAIN log' /\ log'[j] = log[j]
  <2>1. Len(log) + 1 \in DOMAIN Script /\ log \in Seq({"hidden", "talk"} \cup Acts)
        /\ Script \in Seq({"hidden", "talk"} \cup Acts)
    BY <1>1, <1>2, ListenerAssumption DEF Typed
  <2>2. Script[Len(log) + 1] \in {"hidden", "talk"} \cup Acts
    BY <2>1
  <2> QED BY <1>1, <2>1, <2>2
<1>4. \A p \in Procs :
        /\ r(p) \in Records /\ (r(p).sent = me[p].sent \/ r(p).sent = Len(log'))
        /\ r(p).pc = me[p].pc /\ r(p).nick = me[p].nick /\ r(p).mem = me[p].mem
        /\ r(p).boot = me[p].boot /\ r(p).step = me[p].step /\ r(p).next = me[p].next
        /\ r(p).end = me[p].end /\ r(p).resync = me[p].resync /\ r(p).fresh = me[p].fresh
        /\ me'[p] = r(p)
  <2> SUFFICES ASSUME NEW p \in Procs
               PROVE  /\ r(p) \in Records /\ (r(p).sent = me[p].sent \/ r(p).sent = Len(log'))
                      /\ r(p).pc = me[p].pc /\ r(p).nick = me[p].nick /\ r(p).mem = me[p].mem
                      /\ r(p).boot = me[p].boot /\ r(p).step = me[p].step /\ r(p).next = me[p].next
                      /\ r(p).end = me[p].end /\ r(p).resync = me[p].resync
                      /\ r(p).fresh = me[p].fresh
                      /\ me'[p] = r(p)
    OBVIOUS
  <2>1. me[p] \in Records /\ Len(log') \in Nat /\ me'[p] = r(p)
    BY <1>1, <1>2, <1>3 DEF Typed
  <2> QED BY <2>1 DEF Records
<1> HIDE DEF r
<1>5. Typed'
  BY <1>1, <1>2, <1>3, <1>4 DEF Typed, disk
<1>6. Routed'
  BY <1>1, <1>2, <1>4 DEF Routed, Present, Hearing
<1>7. FilesHonest'
  <2> SUFFICES ASSUME NEW n \in Nicks PROVE Honest(file[n], had[n], log')
    BY <1>1 DEF FilesHonest, disk
  <2>1. Honest(file[n], had[n], log) /\ had[n] \in SUBSET Nat
    BY <1>1, <1>2 DEF CursorInv, FilesHonest, Typed
  <2>2. Len(log') \in Nat /\ Len(log) <= Len(log')
    BY <1>3
  <2> QED BY <1>3, <2>1, <2>2, HonestGrows
<1>8. ASSUME NEW p \in Procs PROVE ProcInv(p)'
  <2>1. /\ r(p) \in Records /\ (r(p).sent = me[p].sent \/ r(p).sent = Len(log'))
        /\ r(p).pc = me[p].pc /\ r(p).nick = me[p].nick /\ r(p).mem = me[p].mem
        /\ r(p).boot = me[p].boot /\ r(p).step = me[p].step /\ r(p).next = me[p].next
        /\ r(p).end = me[p].end /\ r(p).resync = me[p].resync /\ r(p).fresh = me[p].fresh
        /\ me'[p] = r(p) /\ me[p] \in Records
    BY <1>2, <1>4 DEF Typed
  <2>2. Sitting(r(p))
    BY <1>2, <2>1 DEF ProcInv, Sitting, Owns, Hearing
  <2>3. Reading(r(p), log')
    <3>1. Reading(me[p], log)
      BY <1>2 DEF ProcInv
    <3>2. /\ me[p].sent \in Nat /\ me[p].end \in Nat /\ me[p].next \in Nat
          /\ Len(log') \in Nat /\ Len(log) <= Len(log')
      BY <1>3, <2>1 DEF Records
    <3>3. Present(r(p)) = Present(me[p])
      BY <2>1 DEF Present, Hearing
    <3> QED BY <1>3, <2>1, <3>1, <3>2, <3>3 DEF Reading
  <2>4. Owns(r(p)) => Owns(me[p]) /\ Holds(p, me[p].nick)
                      /\ Matches(me[p].mem, file[me[p].nick], room = "up")
    BY <1>2, <2>1 DEF ProcInv, Owns
  <2>5. ASSUME Hearing(r(p)) PROVE Earning(r(p), had[me[p].nick], log')
    <3> DEFINE h == had[me[p].nick]
    <3>1. Hearing(me[p])
      BY <2>1, <2>5 DEF Hearing
    <3>2. Earning(me[p], h, log)
      BY <3>1, AtWork
    <3>3. me[p].step # "next" => me[p].next \in DOMAIN log
      BY AtFrame
    <3> HIDE DEF h
    <3>4. ~me[p].fresh => Covered(h, log', me[p].next - 1)
      BY <1>3, <3>2, GivenGrows DEF Earning, Covered
    <3>5. Given(h, log, me[p].next) => Given(h, log', me[p].next)
      BY <1>3, GivenGrows
    <3>6. me[p].step \in Steps
      BY <2>1 DEF Records
    <3>7. me[p].step = "mark" => me[p].next \in h /\ log'[me[p].next] \in Acts
      BY <1>3, <3>2, <3>3 DEF Earning
    <3>8. Earning(r(p), h, log')
      BY <2>1, <3>2, <3>4, <3>5, <3>7 DEF Earning
    <3> QED BY <3>8 DEF h
  <2> QED BY <1>1, <2>1, <2>2, <2>3, <2>4, <2>5 DEF ProcInv, disk, Holds
<1> QED BY <1>1, <1>5, <1>6, <1>7, <1>8 DEF CursorInv

\* The room is gone with its log; nobody is in the middle of it.
LEMMA DeleteRoomStep ==
    ASSUME CursorInv, LockInv', DeleteRoom
    PROVE  CursorInv'
<1>1. /\ room = "up" /\ room' = "gone" /\ log' = <<>> /\ had' = [n \in Nicks |-> {}]
      /\ inst' = [n \in Nicks |-> None] /\ conns' = [n \in Nicks |-> {}]
      /\ UNCHANGED <<disk, me, starts>>
      /\ \A p \in Procs : me[p].pc \in {"down", "dial", "open", "flock"} /\ me[p].boot = None
  BY DEF DeleteRoom, Noticed
<1>2. Typed /\ \A q \in Procs : ProcInv(q)
  BY DEF CursorInv
<1>3. Typed'
  BY <1>1, <1>2 DEF Typed, disk
<1>4. Routed'
  BY <1>1 DEF Routed
<1>5. Deserted'
  BY <1>1 DEF Deserted, Noticed
<1>6. ASSUME NEW q \in Procs PROVE ProcInv(q)'
  <2>1. ~Hearing(me[q]) /\ ~Present(me[q])
    BY <1>1 DEF Hearing, Present
  <2>2. Sitting(me[q]) /\ (Owns(me[q]) => Holds(q, me[q].nick) /\ me[q].mem = file[me[q].nick])
    BY <1>1, <1>2 DEF ProcInv, Matches
  <2>3. Reading(me[q], log')
    BY <2>1 DEF Reading
  <2> QED BY <1>1, <2>1, <2>2, <2>3 DEF ProcInv, Matches, disk, Holds
<1> QED BY <1>1, <1>3, <1>4, <1>5, <1>6 DEF CursorInv

LEMMA CursorStep ==
    ASSUME Raced = FALSE, LiveReset = FALSE, CursorInv, [Next]_vars
    PROVE  CursorInv'
<1>1. LockInv'
  BY StepKeeps DEF CursorInv
<1>2. ASSUME NEW p \in Procs, Listens(p) PROVE CursorInv'
  BY <1>1, <1>2, ListensStep
<1>3. ASSUME NEW p \in Procs, Lose(p) PROVE CursorInv'
  BY <1>1, <1>3, LoseStep
<1>4. ASSUME NEW n \in Named, Send(n) PROVE CursorInv'
  BY <1>1, <1>4, SendStep
<1>5. ASSUME NEW n \in Nicks, PurgeCursor(n) \/ PurgeLock(n) PROVE CursorInv'
  BY <1>1, <1>5, PurgeStep
<1>6. CASE Say \/ DeleteRoom
  BY <1>1, <1>6, SayStep, DeleteRoomStep
<1>7. CASE UNCHANGED vars
  <2>1. Typed /\ (room = "up" \/ room = "gone")
    BY DEF CursorInv, Typed
  <2>2. Typed'
    BY <1>7, <2>1 DEF Typed, vars, server, disk
  <2> QED BY <1>1, <1>7, <2>1, <2>2, NobodyMoves DEF vars, server, disk
<1> QED BY <1>2, <1>3, <1>4, <1>5, <1>6, <1>7 DEF Next

LEMMA CursorInit == Init => CursorInv
<1> SUFFICES ASSUME Init PROVE CursorInv
  OBVIOUS
<1>1. LockInv
  BY Initially
<1>2. Idle \in Records
  BY DEF Idle, Records, Points, Steps
<1>3. \A n \in Nicks : /\ OldSession(n) \in Sessions \cup {None}
                       /\ had[n] \in SUBSET Nat /\ file[n] = OldSession(n)
                       /\ Honest(file[n], had[n], <<>>)
  <2> SUFFICES ASSUME NEW n \in Nicks
               PROVE  /\ OldSession(n) \in Sessions \cup {None}
                      /\ had[n] \in SUBSET Nat /\ file[n] = OldSession(n)
                      /\ Honest(file[n], had[n], <<>>)
    OBVIOUS
  <2>1. file[n] = OldSession(n) /\ had[n] = IF Stale[n] = None THEN {} ELSE 1..Stale[n].cursor
    BY DEF Init
  <2>2. CASE Stale[n] = None
    BY <2>1, <2>2 DEF OldSession, Honest
  <2>3. CASE Stale[n] # None
    <3>1. Stale[n] \in [inst : Ids \ {LegacyId}, cursor : Nat]
      BY <2>3, ListenerAssumption
    <3>2. OldSession(n) = [inst |-> Stale[n].inst, cursor |-> Stale[n].cursor, acts |-> <<>>]
      BY <2>3 DEF OldSession
    <3>3. OldSession(n) \in Sessions
      BY <3>1, <3>2 DEF Sessions
    <3>4. had[n] = 1..Stale[n].cursor /\ had[n] \in SUBSET Nat /\ file[n].cursor = Stale[n].cursor
          /\ file[n].acts = <<>> /\ file[n] # None
      BY <2>1, <2>3, <3>1, <3>2, <3>3, ListenerAssumption
    <3>5. Covered(had[n], <<>>, file[n].cursor) /\ Remembered(had[n], <<>>, file[n].acts)
      BY <3>4 DEF Covered, Remembered, Given
    <3>6. \A k \in had[n] : k <= file[n].cursor
      BY <3>1, <3>4
    <3> QED BY <2>1, <3>3, <3>4, <3>5, <3>6 DEF Honest
  <2> QED BY <2>2, <2>3
<1>4. Typed
  BY <1>2, <1>3 DEF Init, Typed
<1>5. Routed /\ room = "up" /\ FilesHonest
  BY <1>3 DEF Init, Routed, FilesHonest
<1>6. ASSUME NEW p \in Procs PROVE ProcInv(p)
  <2>1. me[p] = Idle
    BY DEF Init
  <2> QED BY <2>1 DEF ProcInv, Idle, Sitting, Reading, Present, Owns, Hearing
<1> QED BY <1>1, <1>4, <1>5, <1>6 DEF CursorInv

\* The invariant of the cursors, for any number of processes, nicks, frames and
\* starts, as long as no purge and no other listener comes between the load of a
\* session and its lock, and no cursor is reset under its connected listener.
THEOREM CursorsInvariant == Raced = FALSE /\ LiveReset = FALSE => (Spec => []CursorInv)
<1> SUFFICES ASSUME Raced = FALSE, LiveReset = FALSE PROVE Spec => []CursorInv
  OBVIOUS
<1>1. CursorInv /\ [Next]_vars => CursorInv'
  BY CursorStep
<1> QED BY CursorInit, <1>1, PTL DEF Spec

LEMMA EarnedCursors == CursorInv => CursorIsEarned
<1> SUFFICES ASSUME CursorInv, NEW n \in Nicks, NEW k \in DOMAIN log,
                    file[n] # None, k <= file[n].cursor, log[k] # "hidden"
             PROVE  \/ k \in had[n]
                    \/ \E j \in had[n] \cap DOMAIN log : log[j] = log[k] /\ log[k] \in Acts
  BY DEF CursorIsEarned
<1>1. Typed /\ room = "up"
  BY DEF CursorInv, Deserted, Typed
<1>2. k \in 1..file[n].cursor
  BY <1>1 DEF Typed, Sessions
<1>3. Given(had[n], log, k)
  BY <1>1, <1>2 DEF CursorInv, FilesHonest, Honest, Covered
<1> QED BY <1>3 DEF Given

\* A saved cursor is earned: a listener never skips a frame that the agent under
\* its nick was not given, across crashes, resets, compactions, adoptions, fresh
\* entries and the activations that are applied once.
THEOREM CursorsAreEarned == Raced = FALSE /\ LiveReset = FALSE => (Spec => []CursorIsEarned)
<1> SUFFICES ASSUME Raced = FALSE, LiveReset = FALSE PROVE Spec => []CursorIsEarned
  OBVIOUS
<1> QED BY CursorsInvariant, EarnedCursors, PTL

-----------------------------------------------------------------------------
(* The action properties. *)

\* Session.advance, mark_activation_applied, adopt_boot_identity and a reset are
\* the steps that change a file that is there; who takes them has its lock.
LEMMA Writers ==
    ASSUME CursorInv, [Next]_vars, NEW n \in Nicks, file[n] # None, file'[n] \notin {None, file[n]}
    PROVE  \E q \in Procs :
              /\ me[q].nick = n /\ Owns(me[q])
              /\ Adopt(q) \/ Mark(q) \/ Advance(q) \/ EndReply(q) \/ Reset(q)
<1>1. Typed
  BY DEF CursorInv
<1>2. file' # file
  OBVIOUS
<1>3. ASSUME NEW m \in Nicks, OpensSession(m) PROVE FALSE
  <2>1. file'[n] = file[n]
    BY <1>1, <1>3 DEF OpensSession, Loaded, Typed
  <2> QED BY <2>1
<1>4. ASSUME NEW q \in Procs, Listens(q)
      PROVE  \/ Adopt(q) \/ Mark(q) \/ Advance(q) \/ EndReply(q) \/ Reset(q)
  <2>1. ~(OpenLock(q) \/ Flock(q) \/ Rejected(q) \/ Passes(q) \/ Suppress(q) \/ Emit(q)
          \/ HearConversation(q) \/ HangUp(q) \/ End(q))
    BY <1>2 DEF OpenLock, Flock, Rejected, Passes, Suppress, Emit, HearConversation, HangUp, End, disk
  <2>2. ~(Welcomed(q) \/ Assigned(q))
    BY <1>2 DEF Welcomed, Assigned, Welcome, disk
  <2>3. ~Start(q)
    BY <1>2, <1>3, ListenerAssumption DEF Start
  <2>4. ~Refused(q)
    BY <1>3 DEF Refused
  <2>5. ~OpenAssigned(q)
    <3>1. OpenAssigned(q) => me[q].nick \in Nicks
      BY DEF CursorInv, LockInv, OpenedAtPath, OpenAssigned
    <3> QED BY <1>3, <3>1 DEF OpenAssigned
  <2> QED BY <1>4, <2>1, <2>2, <2>3, <2>4, <2>5 DEF Listens
<1>5. PICK q \in Procs : Listens(q)
  <2>1. ~(Say \/ DeleteRoom \/ UNCHANGED vars)
    BY <1>2 DEF Say, DeleteRoom, vars, disk
  <2>2. \A q \in Procs : ~Lose(q)
    BY <1>2 DEF Lose, disk
  <2>3. \A m \in Nicks : ~PurgeLock(m) /\ ~PurgeCursor(m)
    BY <1>1, <1>2 DEF PurgeLock, PurgeCursor, Typed
  <2>4. \A m \in Named : ~Send(m)
    BY <1>3, ListenerAssumption DEF Send
  <2> QED BY <2>1, <2>2, <2>3, <2>4 DEF Next
<1>6. Adopt(q) \/ Mark(q) \/ Advance(q) \/ EndReply(q) \/ Reset(q)
  BY <1>4, <1>5
<1>7. me[q].nick = n
  <2>1. \E s : file' = [file EXCEPT ![me[q].nick] = s]
    BY <1>6 DEF Adopt, AdoptTo, Mark, Advance, EndReply, Reset, Saves, SavesAs
  <2> QED BY <1>1, <2>1 DEF Typed
<1>8. Owns(me[q])
  <2>1. ProcInv(q) /\ n # None
    BY ListenerAssumption DEF CursorInv
  <2>2. CASE Mark(q) \/ Advance(q)
    <3>1. Hearing(me[q])
      BY <2>2, AtFrame DEF Mark, Advance
    <3> QED BY <3>1, AtWork
  <2>3. CASE Adopt(q) \/ EndReply(q) \/ Reset(q)
    BY <1>7, <2>1, <2>3 DEF Adopt, AdoptTo, EndReply, Reset, Owns
  <2> QED BY <1>6, <2>2, <2>3
<1> QED BY <1>6, <1>7, <1>8

LEMMA WritersMove ==
    ASSUME CursorInv, LockInv, [Next]_vars, NEW n \in Nicks, NEW p \in Procs,
           Holds(p, n), file[n] # None, file'[n] \notin {None, file[n]}
    PROVE  me'[p] # me[p]
<1>1. PICK q \in Procs :
        /\ me[q].nick = n /\ Owns(me[q])
        /\ Adopt(q) \/ Mark(q) \/ Advance(q) \/ EndReply(q) \/ Reset(q)
  BY Writers
<1>2. Typed /\ ProcInv(q) /\ me[q] \in Records
  BY DEF CursorInv, Typed
<1>3. q = p
  BY <1>1, <1>2, TwoHolders DEF ProcInv
<1>4. \A r : me' = [me EXCEPT ![p] = r] => me'[p] = r
  BY <1>2 DEF Typed
<1>5. CASE Adopt(p)
  <2>1. me[p].pc = "adopt" /\ me'[p].pc = "reply"
    <3>1. \E s : me' = [me EXCEPT ![p] = [[me[p] EXCEPT !.pc = "reply", !.boot = None] EXCEPT !.mem = s]]
      BY <1>5 DEF Adopt, AdoptTo, SavesAs
    <3> QED BY <1>2, <1>3, <1>5, <3>1 DEF Adopt, AdoptTo, Typed, Records
  <2> QED BY <2>1
<1>6. CASE Mark(p)
  <2>1. me[p].step = "mark" /\ me'[p].step = "advance"
    <3>1. \E s : me' = [me EXCEPT ![p] = [[me[p] EXCEPT !.step = "advance"] EXCEPT !.mem = s]]
      BY <1>6 DEF Mark, SavesAs
    <3> QED BY <1>2, <1>3, <1>6, <3>1 DEF Mark, Typed, Records
  <2> QED BY <2>1
<1>7. CASE Advance(p)
  <2>1. me[p].step = "advance"
    BY <1>7 DEF Advance
  <2>2. me'[p].step = "next"
    <3>1. CASE Ends(p)
      BY <1>4, <3>1 DEF Ends, Idle
    <3>2. CASE ~Ends(p)
      <4>1. \E s : me' = [me EXCEPT ![p] =
                            [[me[p] EXCEPT !.step = "next", !.next = @ + 1] EXCEPT !.mem = s]]
        BY <1>7, <3>2 DEF Advance, Saves, SavesAs
      <4> QED BY <1>2, <1>3, <4>1 DEF Typed, Records
    <3> QED BY <3>1, <3>2
  <2> QED BY <2>1, <2>2
<1>8. CASE EndReply(p)
  <2>1. me[p].pc = "reply"
    BY <1>8 DEF EndReply
  <2>2. me'[p].pc \in {"down", "live"}
    <3>1. CASE Ends(p)
      BY <1>4, <3>1 DEF Ends, Idle
    <3>2. CASE ~Ends(p)
      <4>1. \E s : me' = [me EXCEPT ![p] =
                [[me[p] EXCEPT !.pc = "live", !.fresh = FALSE, !.gave = FALSE] EXCEPT !.mem = s]]
        BY <1>8, <3>2 DEF EndReply, Saves, SavesAs
      <4> QED BY <1>2, <1>3, <4>1 DEF Typed, Records
    <3> QED BY <3>1, <3>2
  <2> QED BY <2>1, <2>2
<1>9. CASE Reset(p)
  <2> DEFINE s == [file[n] EXCEPT !.cursor = 0, !.acts = <<>>]
  <2>1. file' = [file EXCEPT ![n] = s] /\ me' = [me EXCEPT ![p] = [me[p] EXCEPT !.mem = s]]
    BY <1>1, <1>3, <1>9 DEF Reset, SavesAs
  <2>2. file'[n] = s /\ me'[p].mem = s
    BY <1>2, <1>3, <1>4, <2>1 DEF Typed, Records
  <2>3. file[n] \in Sessions
    BY <1>2 DEF Typed
  <2>4. ~Blank(file[n])
    <3>1. Blank(file[n]) => s = file[n]
      BY <2>3 DEF Blank, Sessions
    <3> QED BY <2>2, <3>1
  <2>5. me[p].mem = file[n]
    BY <1>1, <1>2, <1>3, <2>4 DEF ProcInv, Matches
  <2> QED BY <2>2, <2>5
<1> QED BY <1>1, <1>3, <1>5, <1>6, <1>7, <1>8, <1>9

\* A session file that is there is changed by nobody but the holder of its lock:
\* one-shot commands and listeners that are turned away leave it as they found it.
THEOREM OnlyHoldersWrite == Raced = FALSE /\ LiveReset = FALSE => (Spec => FileIsTheHolders)
<1> SUFFICES ASSUME Raced = FALSE, LiveReset = FALSE PROVE Spec => FileIsTheHolders
  OBVIOUS
<1> DEFINE A == \A n \in Nicks : \A p \in Procs :
                  /\ Holds(p, n) /\ file[n] # None
                  /\ file'[n] \notin {None, file[n]}
                  => me'[p] # me[p]
<1>1. CursorInv /\ [Next]_vars => A
  BY WritersMove DEF CursorInv
<1>2. Spec => []CursorInv
  BY CursorsInvariant
<1> HIDE DEF A
<1>3. Spec => [][A]_vars
  BY <1>1, <1>2, PTL DEF Spec
<1> QED BY <1>3 DEF FileIsTheHolders, A

\* listen --once that is done has saved how far its agent was given.
LEMMA DoneIsSaved ==
    ASSUME CursorInv, NEW p \in Procs, NEW n \in Nicks,
           me[p].nick = n, me[p].pc \in {"reply", "live"},
           Advance(p) \/ EndReply(p), me'[p].pc = "down"
    PROVE  \A k \in had'[n] : k <= file'[n].cursor
<1>1. Hearing(me[p])
  BY DEF Hearing
<1>2. /\ me[p] \in Records /\ me[p].mem = file[n] /\ file[n] \in Sessions
      /\ Earning(me[p], had[n], log) /\ had[n] \in SUBSET Nat /\ Typed
  BY <1>1, AtWork DEF CursorInv
<1>3. me[p].next \in Nat /\ me[p].end \in Nat /\ file[n].cursor \in Nat
  BY <1>2 DEF Records, Sessions
<1>4. ASSUME NEW j \in Nat
      PROVE  Advanced(n, j).cursor = IF j > file[n].cursor THEN j ELSE file[n].cursor
  BY <1>2 DEF Advanced, Sessions
<1>5. CASE Advance(p)
  <2>1. me[p].pc = "live"
    <3>1. CASE me[p].pc = "reply"
      <4>1. \E s : me' = [me EXCEPT ![p] =
                            [[me[p] EXCEPT !.step = "next", !.next = @ + 1] EXCEPT !.mem = s]]
        BY <1>5, <3>1 DEF Advance, SavesAs
      <4>2. me'[p].pc = "reply"
        BY <1>2, <3>1, <4>1 DEF Typed, Records
      <4> QED BY <4>2
    <3> QED BY <3>1
  <2>2. file' = [file EXCEPT ![n] = Advanced(n, me[p].next)] /\ had' = had
    BY <1>5, <2>1 DEF Advance, Saves, SavesAs
  <2>3. file'[n] = Advanced(n, me[p].next)
    BY <1>2, <2>2 DEF Typed
  <2> SUFFICES ASSUME NEW k \in had[n] PROVE k <= file'[n].cursor
    BY <2>2
  <2>4. k \in Nat /\ (k <= file[n].cursor \/ k <= me[p].next)
    BY <1>2, <2>1 DEF Earning
  <2> QED BY <1>3, <1>4, <2>3, <2>4
<1>6. CASE EndReply(p)
  <2> DEFINE e == me[p].end
             s == IF e = 0 THEN file[n] ELSE Advanced(n, e)
             skipped == IF me[p].fresh THEN (me[p].mem.cursor + 1)..e ELSE {}
  <2>1. me[p].step = "next" /\ file' = [file EXCEPT ![n] = s]
        /\ had' = [had EXCEPT ![n] = @ \cup skipped]
    BY <1>6 DEF EndReply, Emits, Saves, SavesAs
  <2>2. file'[n] = s /\ had'[n] = had[n] \cup skipped
    BY <1>2, <2>1 DEF Typed
  <2>3. s.cursor \in Nat /\ s.cursor >= e /\ s.cursor >= file[n].cursor
    BY <1>3, <1>4
  <2> SUFFICES ASSUME NEW k \in had[n] \cup skipped PROVE k <= s.cursor
    BY <2>2
  <2>4. k \in Nat /\ (k <= file[n].cursor \/ k <= e)
    <3>1. CASE k \in had[n]
      BY <1>2, <2>1, <3>1 DEF Earning
    <3>2. CASE k \in skipped
      BY <1>2, <1>3, <3>2
    <3> QED BY <3>1, <3>2
  <2> HIDE DEF s
  <2> QED BY <1>3, <2>3, <2>4
<1> QED BY <1>5, <1>6

\* listen --once returns with everything that it gave below the cursor on disk: a
\* next call repeats nothing and skips nothing.
THEOREM OnceIsSaved == Raced = FALSE /\ LiveReset = FALSE => (Spec => OnceIsDurable)
<1> SUFFICES ASSUME Raced = FALSE, LiveReset = FALSE PROVE Spec => OnceIsDurable
  OBVIOUS
<1> DEFINE A == \A p \in Procs : \A n \in Nicks :
                  /\ me[p].nick = n /\ me[p].once /\ me[p].pc \in {"reply", "live"}
                  /\ (Advance(p) \/ EndReply(p)) /\ me'[p].pc = "down"
                  => \A k \in had'[n] : k <= file'[n].cursor
<1>1. CursorInv => A
  BY DoneIsSaved
<1>2. Spec => []CursorInv
  BY CursorsInvariant
<1> HIDE DEF A
<1>3. Spec => [][A]_vars
  BY <1>1, <1>2, PTL DEF Spec
<1> QED BY <1>3 DEF OnceIsDurable, A

-----------------------------------------------------------------------------
(* One identity per nick. *)

\* A new identity is nobody's.
LEMMA FreshIsNew ==
    ASSUME FreshIdLeft
    PROVE  /\ FreshId \in Ids /\ FreshId # LegacyId /\ FreshId # None
           /\ \A n \in Nicks : (file[n] # None => file[n].inst # FreshId) /\ inst[n] # FreshId
           /\ \A p \in Procs : me[p].boot # FreshId
<1>1. FreshId \in Ids \ UsedIds
  BY DEF FreshIdLeft, FreshId
<1>2. \A n \in Nicks : (file[n] # None => file[n].inst \in UsedIds) /\ inst[n] \in UsedIds
  BY DEF UsedIds
<1>3. LegacyId \in UsedIds /\ \A p \in Procs : me[p].boot \in UsedIds
  BY DEF UsedIds
<1> QED BY <1>1, <1>2, <1>3, ListenerAssumption

\* The files keep their identities, or go; nobody gets one, or hears for the
\* first time.
LEMMA SteadyIdentity ==
    ASSUME IdentityInv, legacy' = legacy,
           \A n \in Nicks : file'[n] # None => file[n] # None /\ file'[n].inst = file[n].inst,
           \A p \in Procs : me'[p].boot \in {None, me[p].boot},
           \A p \in Procs : \A n \in Nicks : p \in conns'[n] =>
              /\ p \in conns[n] /\ inst'[n] = inst[n]
              /\ file[n] # None => file'[n] # None
              /\ Hearing(me'[p]) = Hearing(me[p]) /\ me'[p].boot = me[p].boot
    PROVE  IdentityInv'
<1> USE DEF IdentityInv
<1>1. FilesDiffer'
  BY DEF FilesDiffer
<1>2. LegacyOnce'
  BY DEF LegacyOnce
<1>3. BootsDiffer'
  BY DEF BootsDiffer
<1>4. HubKnows'
  <2> SUFFICES ASSUME NEW p \in Procs, NEW n \in Nicks, p \in conns'[n]
               PROVE  /\ Hearing(me'[p]) => file'[n] # None /\ file'[n].inst = inst'[n]
                      /\ ~Hearing(me'[p]) => inst'[n] = me'[p].boot
    BY DEF HubKnows, Hearing
  <2> QED BY DEF HubKnows
<1> QED BY <1>1, <1>2, <1>3, <1>4

\* One process moves between two places that are alike to the hub.
LEMMA SteadyStep ==
    ASSUME IdentityInv, CursorInv, NEW p \in Procs, NEW r, me' = [me EXCEPT ![p] = r],
           legacy' = legacy, inst' = inst,
           \A n \in Nicks : conns'[n] \subseteq conns[n],
           \A n \in Nicks : file'[n] = file[n] \/ (/\ file[n] # None /\ file'[n] # None
                                                 /\ file'[n].inst = file[n].inst),
           r.boot \in {None, me[p].boot},
           \/ Hearing(r) = Hearing(me[p]) /\ r.boot = me[p].boot
           \/ \A n \in Nicks : p \notin conns'[n]
    PROVE  IdentityInv'
<1>1. Typed
  BY DEF CursorInv
<1>2. \A q \in Procs : me'[q] = IF q = p THEN r ELSE me[q]
  BY <1>1 DEF Typed
<1>3. \A q \in Procs : me'[q].boot \in {None, me[q].boot}
  BY <1>2
<1>4. \A q \in Procs : \A n \in Nicks : q \in conns'[n] =>
         Hearing(me'[q]) = Hearing(me[q]) /\ me'[q].boot = me[q].boot
  BY <1>2
<1> QED BY <1>3, <1>4, SteadyIdentity

\* A session is opened for m; a hello under it may follow, if nobody is connected.
LEMMA OpensIdentity ==
    ASSUME IdentityInv, Typed, NEW m \in Nicks, OpensSession(m),
           \A n \in Nicks : conns'[n] \subseteq conns[n],
           \A p \in Procs : me'[p].boot \in {None, me[p].boot},
           \A p \in Procs : \A n \in Nicks : p \in conns'[n] =>
              Hearing(me'[p]) = Hearing(me[p]) /\ me'[p].boot = me[p].boot,
           \A n \in Nicks : conns[n] # {} => inst'[n] = inst[n]
    PROVE  IdentityInv'
<1>1. CASE file[m] # None
  <2>1. file' = file /\ legacy' = legacy
    BY <1>1 DEF OpensSession, LegacyTaken, Loaded, Typed
  <2>2. \A p \in Procs : \A n \in Nicks : p \in conns'[n] => p \in conns[n] /\ inst'[n] = inst[n]
    OBVIOUS
  <2> QED BY <2>1, <2>2, SteadyIdentity
<1>2. CASE file[m] = None
  <2> DEFINE i == IF legacy THEN LegacyId ELSE FreshId
  <2>1. /\ legacy' = FALSE /\ file'[m].inst = i
        /\ \A n \in Nicks : n # m => file'[n] = file[n]
    BY <1>2 DEF OpensSession, LegacyTaken, Loaded, Typed
  <2>2. /\ \A n \in Nicks : file[n] # None => file[n].inst # i
        /\ \A p \in Procs : me[p].boot # None => me[p].boot # i
    <3>1. CASE legacy
      BY <3>1 DEF IdentityInv, LegacyOnce, BootsDiffer
    <3>2. CASE ~legacy
      <4>1. FreshIdLeft
        BY <1>2, <3>2 DEF OpensSession
      <4> QED BY <3>2, <4>1, FreshIsNew
    <3> QED BY <3>1, <3>2
  <2> HIDE DEF i
  <2>3. FilesDiffer'
    BY <2>1, <2>2 DEF IdentityInv, FilesDiffer
  <2>4. LegacyOnce'
    BY <2>1 DEF LegacyOnce
  <2>5. BootsDiffer'
    <3> SUFFICES ASSUME NEW p \in Procs, me'[p].boot # None
                 PROVE  /\ me'[p].boot # LegacyId
                        /\ \A n \in Nicks : file'[n] # None => file'[n].inst # me'[p].boot
                        /\ \A q \in Procs : me'[q].boot = me'[p].boot => q = p
      BY DEF BootsDiffer
    <3>1. me'[p].boot = me[p].boot
      OBVIOUS
    <3> QED BY <2>1, <2>2, <3>1 DEF IdentityInv, BootsDiffer
  <2>6. HubKnows'
    <3> SUFFICES ASSUME NEW p \in Procs, NEW n \in Nicks, p \in conns'[n]
                 PROVE  /\ Hearing(me'[p]) => file'[n] # None /\ file'[n].inst = inst'[n]
                        /\ ~Hearing(me'[p]) => inst'[n] = me'[p].boot
      BY DEF HubKnows, Hearing
    <3>1. p \in conns[n] /\ inst'[n] = inst[n] /\ Hearing(me'[p]) = Hearing(me[p])
          /\ me'[p].boot = me[p].boot
      OBVIOUS
    <3>2. Hearing(me[p]) => n # m
      BY <1>2, <3>1 DEF IdentityInv, HubKnows
    <3> QED BY <2>1, <3>1, <3>2 DEF IdentityInv, HubKnows
  <2> QED BY <2>3, <2>4, <2>5, <2>6 DEF IdentityInv
<1> QED BY <1>1, <1>2

\* A process opens a session.
LEMMA OpensStep ==
    ASSUME IdentityInv, CursorInv, NEW p \in Procs, NEW r, me' = [me EXCEPT ![p] = r],
           NEW m \in Nicks, OpensSession(m), inst' = inst, conns' = conns,
           r.boot = me[p].boot, ~Hearing(me[p]), ~Hearing(r)
    PROVE  IdentityInv'
<1>1. Typed
  BY DEF CursorInv
<1>2. \A q \in Procs : me'[q] = IF q = p THEN r ELSE me[q]
  BY <1>1 DEF Typed
<1>3. \A q \in Procs : Hearing(me'[q]) = Hearing(me[q]) /\ me'[q].boot = me[q].boot
  <2> TAKE q \in Procs
  <2>1. CASE q = p
    <3>1. me'[q] = r
      BY <1>2, <2>1
    <3>2. Hearing(r) = FALSE /\ Hearing(me[p]) = FALSE
      BY DEF Hearing
    <3> QED BY <2>1, <3>1, <3>2
  <2>2. CASE q # p
    BY <1>2, <2>2
  <2> QED BY <2>1, <2>2
<1> QED BY <1>1, <1>3, OpensIdentity

LEMMA StartIdentity ==
    ASSUME IdentityInv, CursorInv, NEW p \in Procs, Start(p)
    PROVE  IdentityInv'
<1>1. me[p].boot = None /\ ~Hearing(me[p]) /\ me[p].pc = "down"
  BY DEF CursorInv, ProcInv, Start, Sitting, Hearing
<1>2. PICK mode \in Modes :
        LET new == [Idle EXCEPT !.once = mode.once, !.fresh = mode.fresh] IN
        \/ me' = [me EXCEPT ![p] = [new EXCEPT !.pc = "dial"]] /\ UNCHANGED <<legacy, file>>
        \/ \E n \in Named :
             /\ OpensSession(n)
             /\ me' = [me EXCEPT ![p] = [new EXCEPT !.pc = "open", !.nick = n, !.mem = Loaded(n)]]
  BY DEF Start
<1>3. UNCHANGED server
  BY DEF Start
<1> DEFINE new == [Idle EXCEPT !.once = mode.once, !.fresh = mode.fresh]
           dialing == [new EXCEPT !.pc = "dial"]
           opening(n) == [new EXCEPT !.pc = "open", !.nick = n, !.mem = Loaded(n)]
<1>4. CASE me' = [me EXCEPT ![p] = dialing] /\ UNCHANGED <<legacy, file>>
  <2>1. dialing.boot = None
    BY DEF Idle
  <2>2. \A n \in Nicks : p \notin conns'[n] /\ conns'[n] \subseteq conns[n]
    BY <1>1, <1>3, NotRouted DEF server
  <2> HIDE DEF dialing
  <2> QED BY <1>3, <1>4, <2>1, <2>2, SteadyStep DEF server
<1>5. ASSUME NEW n \in Named, OpensSession(n), me' = [me EXCEPT ![p] = opening(n)]
      PROVE  IdentityInv'
  <2>1. n \in Nicks
    BY ListenerAssumption
  <2>2. opening(n).boot = None /\ opening(n).pc = "open"
    BY DEF Idle
  <2> HIDE DEF opening
  <2>3. ~Hearing(opening(n))
    BY <2>2 DEF Hearing
  <2> QED BY <1>1, <1>3, <1>5, <2>1, <2>2, <2>3, OpensStep DEF server
<1> QED BY <1>2, <1>4, <1>5

LEMMA OpenIdentity ==
    ASSUME IdentityInv, CursorInv, NEW p \in Procs, OpenAssigned(p) \/ Refused(p)
    PROVE  IdentityInv'
<1> DEFINE r(m) == [me[p] EXCEPT !.pc = "open", !.nick = m, !.mem = Loaded(m)]
<1>1. me[p] \in Records /\ (me[p].pc = "assigned" => me[p].nick \in Nicks)
  BY DEF CursorInv, Typed, ProcInv, Sitting
<1>2. CASE OpenAssigned(p)
  <2> DEFINE n == me[p].nick
             o == [me[p] EXCEPT !.pc = "open", !.mem = Loaded(n)]
  <2>1. me[p].pc = "assigned" /\ OpensSession(n) /\ me' = [me EXCEPT ![p] = o]
        /\ inst' = inst /\ conns' = conns
    BY <1>2 DEF OpenAssigned, server
  <2>2. o.boot = me[p].boot /\ o.pc = "open"
    BY <1>1 DEF Records
  <2> HIDE DEF o
  <2>3. ~Hearing(o) /\ ~Hearing(me[p])
    BY <2>1, <2>2 DEF Hearing
  <2> QED BY <1>1, <2>1, <2>2, <2>3, OpensStep
<1>3. CASE Refused(p)
  <2>1. PICK m \in Nicks : OpensSession(m) /\ me' = [me EXCEPT ![p] = r(m)]
    BY <1>3 DEF Refused
  <2>2. me[p].pc = "dial" /\ inst' = inst /\ conns' = conns
    BY <1>3 DEF Refused, server
  <2>3. r(m).boot = me[p].boot /\ r(m).pc = "open"
    BY <1>1 DEF Records
  <2> HIDE DEF r
  <2>4. ~Hearing(r(m)) /\ ~Hearing(me[p])
    BY <2>2, <2>3 DEF Hearing
  <2> QED BY <2>1, <2>2, <2>3, <2>4, OpensStep
<1> QED BY <1>2, <1>3

\* The end of a process, whatever it saved last.
LEMMA EndIdentity ==
    ASSUME IdentityInv, CursorInv, NEW p \in Procs, Ends(p), legacy' = legacy, inst' = inst,
           \A n \in Nicks : file'[n] = file[n] \/ (/\ file[n] # None /\ file'[n] # None
                                                 /\ file'[n].inst = file[n].inst)
    PROVE  IdentityInv'
<1>1. me' = [me EXCEPT ![p] = Idle] /\ Idle.boot = None
  BY DEF Ends, Idle
<1>2. \A n \in Nicks : conns'[n] \subseteq conns[n] /\ p \notin conns'[n]
  BY DEF Ends, Unrouted
<1> QED BY <1>1, <1>2, SteadyStep

LEMMA LockIdentity ==
    ASSUME IdentityInv, CursorInv, NEW p \in Procs, OpenLock(p) \/ Flock(p)
    PROVE  IdentityInv'
<1>1. me[p] \in Records /\ UNCHANGED <<inst, legacy, file>>
  BY DEF CursorInv, Typed, OpenLock, Flock, server
<1>2. CASE Ends(p)
  BY <1>1, <1>2, EndIdentity
<1>3. CASE ~Ends(p)
  <2>1. PICK r : /\ me' = [me EXCEPT ![p] = r] /\ r.boot = me[p].boot
                 /\ ~Hearing(r) /\ ~Hearing(me[p]) /\ conns' = conns
    <3>1. CASE OpenLock(p)
      <4> DEFINE i == IF lock[me[p].nick].path # 0 THEN lock[me[p].nick].path
                      ELSE lock[me[p].nick].made + 1
                 r == [me[p] EXCEPT !.pc = "flock", !.fd = i]
      <4>1. me' = [me EXCEPT ![p] = r] /\ me[p].pc = "open" /\ conns' = conns
        BY <3>1 DEF OpenLock, server
      <4>2. r.boot = me[p].boot /\ r.pc = "flock"
        BY <1>1 DEF Records
      <4> HIDE DEF r
      <4> QED BY <4>1, <4>2 DEF Hearing
    <3>2. CASE Flock(p)
      <4> DEFINE place == IF me[p].boot = None THEN "dial" ELSE "adopt"
                 r == [me[p] EXCEPT !.pc = place, !.fd = 0]
      <4>1. me' = [me EXCEPT ![p] = r] /\ me[p].pc = "flock" /\ conns' = conns
        BY <1>3, <3>2 DEF Flock
      <4>2. r.boot = me[p].boot /\ r.pc = place /\ place \in {"dial", "adopt"}
        BY <1>1 DEF Records
      <4> HIDE DEF r, place
      <4> QED BY <4>1, <4>2 DEF Hearing
    <3> QED BY <3>1, <3>2
  <2>2. Hearing(r) = FALSE /\ Hearing(me[p]) = FALSE
    BY <2>1 DEF Hearing
  <2> QED BY <1>1, <2>1, <2>2, SteadyStep
<1> QED BY <1>2, <1>3

\* At its frames, a listener keeps the identity of its file.
LEMMA FrameIdentity ==
    ASSUME IdentityInv, CursorInv, NEW p \in Procs,
           Passes(p) \/ Suppress(p) \/ Emit(p) \/ HearConversation(p)
    PROVE  IdentityInv'
<1>1. Hearing(me[p]) /\ me[p] \in Records
  BY AtFrame DEF Passes, Suppress, Emit, HearConversation, Hearing, CursorInv, Typed
<1>2. UNCHANGED <<server, disk>>
  BY DEF Passes, Suppress, Emit, HearConversation
<1>3. PICK r : me' = [me EXCEPT ![p] = r] /\ r.pc = me[p].pc /\ r.boot = me[p].boot
  <2>1. CASE Passes(p)
    <3>1. [me[p] EXCEPT !.next = @ + 1].pc = me[p].pc /\ [me[p] EXCEPT !.next = @ + 1].boot = me[p].boot
      BY <1>1 DEF Records
    <3> QED BY <2>1, <3>1 DEF Passes
  <2>2. CASE Suppress(p)
    <3> DEFINE r == [me[p] EXCEPT !.mem = file[me[p].nick], !.step = "advance"]
    <3>1. me' = [me EXCEPT ![p] = r] /\ r.pc = me[p].pc /\ r.boot = me[p].boot
      BY <1>1, <2>2 DEF Records, Suppress
    <3> QED BY <3>1
  <2>3. CASE Emit(p)
    <3> DEFINE r == [me[p] EXCEPT !.gave = TRUE,
                        !.step = IF log[me[p].next] \in Acts THEN "mark" ELSE "advance"]
    <3>1. me' = [me EXCEPT ![p] = r] /\ r.pc = me[p].pc /\ r.boot = me[p].boot
      BY <1>1, <2>3 DEF Records, Emit
    <3> QED BY <3>1
  <2>4. CASE HearConversation(p)
    <3> DEFINE r == [me[p] EXCEPT !.resync = FALSE, !.next = me[p].end + 1, !.gave = TRUE]
    <3>1. me' = [me EXCEPT ![p] = r] /\ r.pc = me[p].pc /\ r.boot = me[p].boot
      BY <1>1, <2>4 DEF Records, HearConversation
    <3> QED BY <3>1
  <2> QED BY <2>1, <2>2, <2>3, <2>4
<1>4. Hearing(r) = Hearing(me[p])
  BY <1>3 DEF Hearing
<1> QED BY <1>2, <1>3, <1>4, SteadyStep DEF server, disk

\* What the three steps that save a session write.
LEMMA SavedSession ==
    ASSUME CursorInv, NEW p \in Procs, Mark(p) \/ Advance(p) \/ EndReply(p)
    PROVE  \E s \in Sessions : /\ file' = [file EXCEPT ![me[p].nick] = s]
                              /\ s.inst = file[me[p].nick].inst
<1> DEFINE n == me[p].nick
<1>1. Hearing(me[p])
  BY AtFrame DEF Mark, Advance, EndReply, Hearing
<1>2. /\ me[p] \in Records /\ n \in Nicks /\ file[n] \in Sessions /\ Typed
      /\ Earning(me[p], had[n], log)
  BY <1>1, AtWork DEF CursorInv
<1>3. ASSUME NEW k \in Nat PROVE Advanced(n, k) \in Sessions /\ Advanced(n, k).inst = file[n].inst
  BY <1>2 DEF Advanced, Sessions
<1>4. CASE Mark(p)
  <2> DEFINE longer == Append(file[n].acts, log[me[p].next])
             s == [file[n] EXCEPT !.acts = Newest(longer)]
  <2>1. file' = [file EXCEPT ![n] = s]
    BY <1>4 DEF Mark, SavesAs
  <2>2. log[me[p].next] \in Acts
    BY <1>2, <1>4 DEF Earning, Mark
  <2>3. longer \in Seq(Acts) /\ Len(longer) >= 1
    BY <1>2, <2>2 DEF Sessions
  <2> HIDE DEF longer
  <2>4. Newest(longer) \in Seq(Acts)
    BY <2>3 DEF Newest
  <2>5. s \in Sessions /\ s.inst = file[n].inst
    BY <1>2, <2>4 DEF Sessions
  <2> QED BY <2>1, <2>5
<1>5. CASE Advance(p)
  <2>1. file' = [file EXCEPT ![n] = Advanced(n, me[p].next)]
    BY <1>5 DEF Advance, Saves, SavesAs
  <2> QED BY <1>2, <1>3, <2>1 DEF Records
<1>6. CASE EndReply(p)
  <2>1. file' = [file EXCEPT ![n] = IF me[p].end = 0 THEN file[n] ELSE Advanced(n, me[p].end)]
    BY <1>6 DEF EndReply, Saves, SavesAs
  <2> QED BY <1>2, <1>3, <2>1 DEF Records
<1> QED BY <1>4, <1>5, <1>6

LEMMA SaveIdentity ==
    ASSUME IdentityInv, CursorInv, NEW p \in Procs, Mark(p) \/ Advance(p) \/ EndReply(p)
    PROVE  IdentityInv'
<1> DEFINE n == me[p].nick
<1>1. Hearing(me[p])
  BY AtFrame DEF Mark, Advance, EndReply, Hearing
<1>2. /\ me[p] \in Records /\ n \in Nicks /\ file[n] # None /\ Typed
  BY <1>1, AtWork, ListenerAssumption DEF CursorInv
<1>3. PICK s \in Sessions : file' = [file EXCEPT ![n] = s] /\ s.inst = file[n].inst
  BY SavedSession
<1>4. \A m \in Nicks : file'[m] = file[m] \/ (/\ file[m] # None /\ file'[m] # None
                                           /\ file'[m].inst = file[m].inst)
  BY <1>2, <1>3, ListenerAssumption DEF Typed
<1>5. legacy' = legacy /\ inst' = inst
  BY DEF Mark, Advance, EndReply, server
<1>6. CASE Ends(p)
  BY <1>4, <1>5, <1>6, EndIdentity
<1>7. CASE ~Ends(p)
  <2>1. PICK r : /\ me' = [me EXCEPT ![p] = r] /\ r.boot = me[p].boot /\ Hearing(r)
                 /\ conns' = conns
    <3>1. CASE Mark(p)
      <4>1. \E z : me' = [me EXCEPT ![p] = [[me[p] EXCEPT !.step = "advance"] EXCEPT !.mem = z]]
        BY <3>1 DEF Mark, SavesAs
      <4>2. \A z : /\ [[me[p] EXCEPT !.step = "advance"] EXCEPT !.mem = z].boot = me[p].boot
                   /\ [[me[p] EXCEPT !.step = "advance"] EXCEPT !.mem = z].pc = me[p].pc
        BY <1>2 DEF Records
      <4> QED BY <1>1, <3>1, <4>1, <4>2 DEF Hearing, Mark, server
    <3>2. CASE Advance(p)
      <4>1. /\ conns' = conns
            /\ \E z : me' = [me EXCEPT ![p] =
                            [[me[p] EXCEPT !.step = "next", !.next = @ + 1] EXCEPT !.mem = z]]
        BY <1>7, <3>2 DEF Advance, Saves, SavesAs
      <4>2. \A z : LET r == [[me[p] EXCEPT !.step = "next", !.next = @ + 1] EXCEPT !.mem = z]
                   IN  r.boot = me[p].boot /\ r.pc = me[p].pc
        BY <1>2 DEF Records
      <4> QED BY <1>1, <4>1, <4>2 DEF Hearing
    <3>3. CASE EndReply(p)
      <4>1. /\ conns' = conns
            /\ \E z : me' = [me EXCEPT ![p] =
                [[me[p] EXCEPT !.pc = "live", !.fresh = FALSE, !.gave = FALSE] EXCEPT !.mem = z]]
        BY <1>7, <3>3 DEF EndReply, Saves, SavesAs
      <4>2. \A z : LET r == [[me[p] EXCEPT !.pc = "live", !.fresh = FALSE, !.gave = FALSE]
                              EXCEPT !.mem = z]
                   IN  r.boot = me[p].boot /\ r.pc = "live"
        BY <1>2 DEF Records
      <4> QED BY <4>1, <4>2 DEF Hearing
    <3> QED BY <3>1, <3>2, <3>3
  <2>2. Hearing(r) = TRUE /\ Hearing(me[p]) = TRUE
    BY <1>1, <2>1 DEF Hearing
  <2> QED BY <1>4, <1>5, <2>1, <2>2, SteadyStep
<1> QED BY <1>6, <1>7

LEMMA ResetIdentity ==
    ASSUME LiveReset = FALSE, IdentityInv, CursorInv, NEW p \in Procs, Reset(p)
    PROVE  IdentityInv'
<1> DEFINE n == me[p].nick
           s == [file[n] EXCEPT !.cursor = 0, !.acts = <<>>]
           r == [me[p] EXCEPT !.mem = s]
<1>1. /\ n # None /\ me[p].pc = "dial" /\ file[n] # None
      /\ me' = [me EXCEPT ![p] = r] /\ file' = [file EXCEPT ![n] = s]
      /\ UNCHANGED <<inst, conns, legacy>>
  BY DEF Reset, SavesAs, server
<1>2. Typed /\ me[p] \in Records /\ n \in Nicks
  BY <1>1, AtDial DEF CursorInv
<1>3. file[n] \in [inst : Ids, cursor : Nat, acts : Seq(Acts)] /\ <<>> \in Seq(Acts) /\ 0 \in Nat
  BY <1>1, <1>2 DEF Typed, Sessions
<1>4. s \in Sessions /\ s.inst = file[n].inst
  BY <1>3 DEF Sessions
<1>5. r.boot = me[p].boot /\ r.pc = me[p].pc
  BY <1>2 DEF Records
<1> HIDE DEF s, r
<1>6. Hearing(r) = Hearing(me[p])
  BY <1>5 DEF Hearing
<1>7. \A m \in Nicks : file'[m] = file[m] \/ (/\ file[m] # None /\ file'[m] # None
                                           /\ file'[m].inst = file[m].inst)
  BY <1>1, <1>2, <1>4, ListenerAssumption DEF Typed
<1> QED BY <1>1, <1>5, <1>6, <1>7, SteadyStep

LEMMA OverIdentity ==
    ASSUME IdentityInv, CursorInv, NEW p \in Procs, HangUp(p) \/ Rejected(p) \/ End(p)
    PROVE  IdentityInv'
<1>1. CASE Rejected(p) \/ End(p)
  BY <1>1, EndIdentity DEF Rejected, End
<1>2. CASE HangUp(p)
  <2> DEFINE r == [Idle EXCEPT !.pc = "dial", !.nick = me[p].nick, !.mem = me[p].mem,
                               !.once = me[p].once, !.fresh = me[p].fresh]
  <2>1. me' = [me EXCEPT ![p] = r] /\ UNCHANGED <<server, disk>> /\ p \notin conns[me[p].nick]
    BY <1>2 DEF HangUp, Reconnects
  <2>2. r.boot = None
    BY DEF Idle
  <2> HIDE DEF r
  <2>3. \A n \in Nicks : p \notin conns'[n]
    BY <2>1 DEF CursorInv, Routed, server
  <2> QED BY <2>1, <2>2, <2>3, SteadyStep DEF server, disk
<1> QED BY <1>1, <1>2

\* The temporary identity becomes that of the file, which nobody else holds.
LEMMA AdoptIdentity ==
    ASSUME IdentityInv, CursorInv, NEW p \in Procs, Adopt(p)
    PROVE  IdentityInv'
<1> DEFINE n == me[p].nick
           b == me[p].boot
           s == [inst |-> b, cursor |-> 0, acts |-> <<>>]
           then == [me[p] EXCEPT !.pc = "reply", !.boot = None]
           r == [then EXCEPT !.mem = s]
<1>1. /\ me[p].pc = "adopt" /\ me' = [me EXCEPT ![p] = r] /\ file' = [file EXCEPT ![n] = s]
      /\ UNCHANGED <<server, legacy, lock>>
  BY DEF Adopt, AdoptTo, SavesAs
<1>2. Typed /\ LockInv /\ Routed /\ ProcInv(p) /\ Sitting(me[p]) /\ me[p] \in Records
  BY DEF CursorInv, ProcInv, Typed
<1>3. n \in Nicks /\ b # None /\ b \in Ids /\ Owns(me[p]) /\ ~Hearing(me[p])
  BY <1>1, <1>2, ListenerAssumption DEF Sitting, Owns, Hearing, Records
<1>4. s \in Sessions /\ s # None /\ s.inst = b
  <2>1. s \in Sessions
    BY <1>3 DEF Sessions
  <2> QED BY <2>1, ListenerAssumption
<1>5. r.boot = None /\ r.pc = "reply"
  BY <1>2 DEF Records
<1> HIDE DEF s, r
<1>6. /\ me'[p] = r /\ \A q \in Procs : q # p => me'[q] = me[q]
      /\ file'[n] = s /\ \A m \in Nicks : m # n => file'[m] = file[m]
  BY <1>1, <1>2, <1>3 DEF Typed
<1>7. /\ \A m \in Nicks : file[m] # None => file[m].inst # b
      /\ b # LegacyId /\ \A q \in Procs : me[q].boot = b => q = p
  BY <1>3 DEF IdentityInv, BootsDiffer
<1> HIDE DEF n, b
<1>8. FilesDiffer'
  BY <1>4, <1>6, <1>7 DEF IdentityInv, FilesDiffer
<1>9. LegacyOnce'
  BY <1>1, <1>4, <1>6, <1>7 DEF IdentityInv, LegacyOnce
<1>10. BootsDiffer'
  BY <1>4, <1>5, <1>6, <1>7 DEF IdentityInv, BootsDiffer
<1>11. HubKnows'
  <2> SUFFICES ASSUME NEW q \in Procs, NEW m \in Nicks, q \in conns[m]
               PROVE  /\ Hearing(me'[q]) => file'[m] # None /\ file'[m].inst = inst[m]
                      /\ ~Hearing(me'[q]) => inst[m] = me'[q].boot
    BY <1>1 DEF HubKnows, Hearing, server
  <2>1. CASE q = p
    <3>1. m = n /\ inst[n] = b
      BY <1>2, <1>3, <2>1 DEF Routed, IdentityInv, HubKnows, n, b
    <3> QED BY <1>4, <1>5, <1>6, <2>1, <3>1 DEF Hearing
  <2>2. CASE q # p
    <3>1. Hearing(me[q]) => m # n
      <4>1. Hearing(me[q]) => Holds(q, me[q].nick) /\ me[q].nick \in Nicks
        BY AtWork DEF Holds
      <4>2. me[q].nick = m
        BY <1>2 DEF Routed
      <4>3. Holds(p, n)
        BY <1>2, <1>3 DEF ProcInv, n
      <4> QED BY <1>2, <1>3, <2>2, <4>1, <4>2, <4>3, TwoHolders
    <3> QED BY <1>6, <2>2, <3>1 DEF IdentityInv, HubKnows
  <2> QED BY <2>1, <2>2
<1> QED BY <1>8, <1>9, <1>10, <1>11 DEF IdentityInv

\* The hub lets in the instance that it has, or the first.
LEMMA WelcomedIdentity ==
    ASSUME IdentityInv, CursorInv, NEW p \in Procs, Welcomed(p)
    PROVE  IdentityInv'
<1> DEFINE n == me[p].nick
           from == IF me[p].fresh THEN Len(log) ELSE me[p].mem.cursor
           r == [me[p] EXCEPT
                !.pc = "reply", !.nick = n, !.boot = None,
                !.resync = from < Boundary, !.next = from + 1,
                !.end = Len(log), !.sent = Len(log), !.gave = FALSE]
<1>1. /\ me[p].pc = "dial" /\ room = "up" /\ n # None
      /\ conns[n] = {} \/ inst[n] = me[p].mem.inst
      /\ inst' = [inst EXCEPT ![n] = me[p].mem.inst]
      /\ conns' = [conns EXCEPT ![n] = @ \cup {p}]
      /\ me' = [me EXCEPT ![p] = r]
      /\ UNCHANGED <<log, room, disk, had>>
  BY DEF Welcomed, Welcome
<1>2. Typed
  BY DEF CursorInv
<1>3. /\ me[p] \in Records /\ me[p].boot = None /\ n \in Nicks /\ me[p].mem \in Sessions
      /\ me[p].mem = file[n]
  BY <1>1, AtDial DEF Matches
<1>4. r.pc = "reply" /\ r.boot = None
  BY <1>3 DEF Records
<1> HIDE DEF r
<1>5. /\ \A q \in Procs : me'[q] = IF q = p THEN r ELSE me[q]
      /\ \A m \in Nicks : conns'[m] = IF m = n THEN conns[n] \cup {p} ELSE conns[m]
      /\ \A m \in Nicks : inst'[m] = IF m = n THEN file[n].inst ELSE inst[m]
      /\ file' = file /\ legacy' = legacy /\ file[n] # None
  BY <1>1, <1>2, <1>3, ListenerAssumption DEF Typed, disk
<1>6. FilesDiffer' /\ LegacyOnce'
  BY <1>5 DEF IdentityInv, FilesDiffer, LegacyOnce
<1>7. \A q \in Procs : me'[q].boot = me[q].boot
  BY <1>3, <1>4, <1>5
<1>8. BootsDiffer'
  BY <1>5, <1>7 DEF IdentityInv, BootsDiffer
<1>9. HubKnows'
  <2> SUFFICES ASSUME NEW q \in Procs, NEW m \in Nicks, q \in conns'[m]
               PROVE  /\ Hearing(me'[q]) => file[m] # None /\ file[m].inst = inst'[m]
                      /\ ~Hearing(me'[q]) => inst'[m] = me'[q].boot
    BY <1>5 DEF HubKnows, Hearing
  <2>1. CASE q = p
    <3>1. m = n
      BY <1>1, <1>5, <2>1, AtDial
    <3> QED BY <1>4, <1>5, <2>1, <3>1 DEF Hearing
  <2>2. CASE q # p
    <3>1. q \in conns[m] /\ me'[q] = me[q]
      BY <1>5, <2>2
    <3>2. inst'[m] = inst[m]
      BY <1>1, <1>3, <1>5, <3>1
    <3> QED BY <3>1, <3>2 DEF IdentityInv, HubKnows
  <2> QED BY <2>1, <2>2
<1> QED BY <1>6, <1>8, <1>9 DEF IdentityInv

\* The hub gives an identity that no file has to a name that nobody is connected as.
LEMMA AssignedIdentity ==
    ASSUME IdentityInv, CursorInv, NEW p \in Procs, Assigned(p)
    PROVE  IdentityInv'
<1> DEFINE from == IF me[p].fresh THEN Len(log) ELSE 0
           r(n) == [me[p] EXCEPT
                !.pc = "assigned", !.nick = n, !.boot = FreshId,
                !.resync = from < Boundary, !.next = from + 1,
                !.end = Len(log), !.sent = Len(log), !.gave = FALSE]
<1>1. PICK n \in Nicks :
      /\ inst[n] = None
      /\ inst' = [inst EXCEPT ![n] = FreshId]
      /\ conns' = [conns EXCEPT ![n] = @ \cup {p}]
      /\ me' = [me EXCEPT ![p] = r(n)]
  BY DEF Assigned, Welcome
<1>2. me[p].pc = "dial" /\ room = "up" /\ FreshIdLeft /\ UNCHANGED disk
  BY DEF Assigned, Welcome
<1>3. Typed /\ Routed
  BY DEF CursorInv
<1>4. me[p] \in Records /\ \A m \in Nicks : p \notin conns[m]
  BY <1>2, AtDial
<1>5. r(n).pc = "assigned" /\ r(n).boot = FreshId
  BY <1>4 DEF Records
<1> HIDE DEF r
<1>6. conns[n] = {}
  <2> SUFFICES ASSUME NEW q \in conns[n] PROVE FALSE
    OBVIOUS
  <2>1. q \in Procs /\ me[q].nick = n /\ Present(me[q])
    BY <1>3 DEF Typed, Routed
  <2>2. CASE Hearing(me[q])
    <3>1. file[n] # None /\ file[n].inst = None
      BY <1>1, <2>1, <2>2 DEF IdentityInv, HubKnows
    <3>2. file[n] \in Sessions
      BY <1>3, <3>1 DEF Typed
    <3>3. file[n].inst \in Ids
      BY <3>2 DEF Sessions
    <3> QED BY <3>1, <3>3, ListenerAssumption
  <2>3. CASE ~Hearing(me[q])
    BY <1>1, <2>1, <2>3 DEF IdentityInv, HubKnows, Present
  <2> QED BY <2>2, <2>3
<1>7. /\ \A q \in Procs : me'[q] = IF q = p THEN r(n) ELSE me[q]
      /\ \A m \in Nicks : conns'[m] = IF m = n THEN {p} ELSE conns[m]
      /\ \A m \in Nicks : inst'[m] = IF m = n THEN FreshId ELSE inst[m]
      /\ file' = file /\ legacy' = legacy
  BY <1>1, <1>2, <1>3, <1>6 DEF Typed, disk
<1>8. /\ FreshId # LegacyId /\ FreshId # None
      /\ \A m \in Nicks : file[m] # None => file[m].inst # FreshId
      /\ \A q \in Procs : me[q].boot # FreshId
  BY <1>2, FreshIsNew
<1> HIDE DEF from
<1>9. FilesDiffer' /\ LegacyOnce'
  BY <1>7 DEF IdentityInv, FilesDiffer, LegacyOnce
<1>10. BootsDiffer'
  <2> SUFFICES ASSUME NEW q \in Procs, me'[q].boot # None
               PROVE  /\ me'[q].boot # LegacyId
                      /\ \A m \in Nicks : file[m] # None => file[m].inst # me'[q].boot
                      /\ \A o \in Procs : me'[o].boot = me'[q].boot => o = q
    BY <1>7 DEF BootsDiffer
  <2>1. CASE q = p
    BY <1>5, <1>7, <1>8, <2>1
  <2>2. CASE q # p
    <3>1. me'[q] = me[q]
      BY <1>7, <2>2
    <3> QED BY <1>5, <1>7, <1>8, <2>2, <3>1 DEF IdentityInv, BootsDiffer
  <2> QED BY <2>1, <2>2
<1>11. HubKnows'
  <2> SUFFICES ASSUME NEW q \in Procs, NEW m \in Nicks, q \in conns'[m]
               PROVE  /\ Hearing(me'[q]) => file[m] # None /\ file[m].inst = inst'[m]
                      /\ ~Hearing(me'[q]) => inst'[m] = me'[q].boot
    BY <1>7 DEF HubKnows, Hearing
  <2>1. CASE q = p
    <3>1. m = n
      BY <1>4, <1>7, <2>1
    <3> QED BY <1>5, <1>7, <2>1, <3>1 DEF Hearing
  <2>2. CASE q # p
    <3>1. m # n /\ q \in conns[m] /\ me'[q] = me[q] /\ inst'[m] = inst[m]
      BY <1>7, <2>2
    <3> QED BY <3>1 DEF IdentityInv, HubKnows
  <2> QED BY <2>1, <2>2
<1> QED BY <1>9, <1>10, <1>11 DEF IdentityInv

LEMMA IdentityStep ==
    ASSUME Raced = FALSE, LiveReset = FALSE, IdentityInv, CursorInv, [Next]_vars
    PROVE  IdentityInv'
<1>1. Typed /\ (room = "gone" => Deserted) /\ Routed
  BY DEF CursorInv
<1>2. ASSUME NEW p \in Procs, Listens(p) PROVE IdentityInv'
  <2>1. CASE Start(p) \/ OpenAssigned(p) \/ Refused(p) \/ OpenLock(p) \/ Flock(p)
    BY <2>1, StartIdentity, OpenIdentity, LockIdentity
  <2>2. CASE Adopt(p) \/ Welcomed(p) \/ Assigned(p)
    BY <2>2, AdoptIdentity, WelcomedIdentity, AssignedIdentity
  <2>3. CASE Passes(p) \/ Suppress(p) \/ Emit(p) \/ HearConversation(p)
    BY <2>3, FrameIdentity
  <2>4. CASE Mark(p) \/ Advance(p) \/ EndReply(p) \/ Reset(p)
    BY <2>4, SaveIdentity, ResetIdentity
  <2>5. CASE HangUp(p) \/ Rejected(p) \/ End(p)
    BY <2>5, OverIdentity
  <2> QED BY <1>2, <2>1, <2>2, <2>3, <2>4, <2>5 DEF Listens
<1>3. ASSUME NEW p \in Procs, Lose(p) PROVE IdentityInv'
  <2>1. UNCHANGED <<inst, disk, me>> /\ \A n \in Nicks : conns'[n] \subseteq conns[n]
    BY <1>3 DEF Lose, Unrouted
  <2> QED BY <2>1, SteadyIdentity DEF disk
<1>4. ASSUME NEW n \in Named, Send(n) PROVE IdentityInv'
  <2>1. /\ n \in Nicks /\ OpensSession(n) /\ conns' = conns /\ me' = me
        /\ inst' = inst \/ (conns[n] = {} /\ inst' = [inst EXCEPT ![n] = Loaded(n).inst])
    BY <1>4, ListenerAssumption DEF Send
  <2>2. \A m \in Nicks : conns[m] # {} => inst'[m] = inst[m]
    BY <1>1, <2>1 DEF Typed
  <2> QED BY <1>1, <2>1, <2>2, OpensIdentity
<1>5. ASSUME NEW n \in Nicks, PurgeCursor(n) \/ PurgeLock(n) PROVE IdentityInv'
  <2>1. room = "gone" /\ UNCHANGED <<server, legacy, me>>
        /\ (file' = [file EXCEPT ![n] = None] \/ file' = file)
    BY <1>5 DEF PurgeCursor, PurgeLock
  <2>2. \A m \in Nicks : file'[m] = file[m] \/ file'[m] = None
    BY <1>1, <2>1 DEF Typed
  <2>3. \A p \in Procs : \A m \in Nicks : p \notin conns'[m]
    BY <1>1, <2>1 DEF server, Routed, Deserted, Noticed, Present, Hearing
  <2> QED BY <2>1, <2>2, <2>3, SteadyIdentity
<1>6. CASE Say
  <2> DEFINE r(p) == IF \E n \in Nicks : p \in conns[n]
                     THEN [me[p] EXCEPT !.sent = Len(log')] ELSE me[p]
  <2>1. UNCHANGED <<inst, conns, disk>> /\ me' = [p \in Procs |-> r(p)]
    BY <1>6 DEF Say
  <2>2. \A p \in Procs : r(p).pc = me[p].pc /\ r(p).boot = me[p].boot
    BY <1>1 DEF Typed, Records
  <2> HIDE DEF r
  <2>3. \A p \in Procs : Hearing(me'[p]) = Hearing(me[p]) /\ me'[p].boot = me[p].boot
    BY <2>1, <2>2 DEF Hearing
  <2> QED BY <2>1, <2>3, SteadyIdentity DEF disk
<1>7. CASE DeleteRoom
  <2>1. UNCHANGED <<disk, me>> /\ \A n \in Nicks : conns'[n] = {}
    BY <1>7 DEF DeleteRoom
  <2> QED BY <2>1, SteadyIdentity DEF disk
<1>8. CASE UNCHANGED vars
  BY <1>8, SteadyIdentity DEF vars, server, disk
<1> QED BY <1>2, <1>3, <1>4, <1>5, <1>6, <1>7, <1>8 DEF Next

LEMMA IdentityInit == Init => IdentityInv
<1> SUFFICES ASSUME Init PROVE IdentityInv
  OBVIOUS
<1>1. \A n \in Nicks : file[n] # None =>
         Stale[n] # None /\ file[n].inst = Stale[n].inst /\ file[n].inst # LegacyId
  BY ListenerAssumption DEF Init, OldSession
<1>2. FilesDiffer
  BY <1>1, ListenerAssumption DEF FilesDiffer
<1>3. LegacyOnce /\ BootsDiffer /\ HubKnows
  BY <1>1 DEF Init, LegacyOnce, BootsDiffer, HubKnows, Idle
<1> QED BY <1>2, <1>3 DEF IdentityInv

\* The identities, for any number of processes, nicks, files left by earlier rooms
\* and new identities that are each nobody's.
THEOREM IdentitiesInvariant ==
    Raced = FALSE /\ LiveReset = FALSE => (Spec => []IdentityInv)
<1> SUFFICES ASSUME Raced = FALSE, LiveReset = FALSE PROVE Spec => []IdentityInv
  OBVIOUS
<1>1. Spec => []CursorInv
  BY CursorsInvariant
<1>2. IdentityInv /\ CursorInv /\ [Next]_vars => IdentityInv'
  BY IdentityStep
<1> QED BY IdentityInit, <1>1, <1>2, PTL DEF Spec

\* No two session files share an identity, also when the legacy one is taken or a
\* temporary one adopted, and a connected listener's file has the identity that
\* the hub knows for its nick.
THEOREM IdentityIsOne == Raced = FALSE /\ LiveReset = FALSE => (Spec => []OneIdentity)
<1> SUFFICES ASSUME Raced = FALSE, LiveReset = FALSE PROVE Spec => []OneIdentity
  OBVIOUS
<1>1. IdentityInv => OneIdentity
  BY DEF IdentityInv, FilesDiffer, HubKnows, OneIdentity, Hearing
<1> QED BY <1>1, IdentitiesInvariant, PTL
-----------------------------------------------------------------------------
(* The type invariant: what the files and the locks are bounded by. *)

ActsBounded == \A n \in Nicks : file[n] # None => Len(file[n].acts) <= MaxActs
PathsMade == \A n \in Nicks : lock[n].path \in 0..lock[n].made
Bounded == ActsBounded /\ PathsMade

\* A file that there was not is opened or adopted, without activations.
LEMMA AppearsBlank ==
    ASSUME CursorInv, [Next]_vars, NEW n \in Nicks, file[n] = None, file'[n] # None
    PROVE  file'[n].acts = <<>>
<1>1. Typed
  BY DEF CursorInv
<1>2. file' # file
  OBVIOUS
<1>3. ASSUME NEW m \in Nicks, OpensSession(m) PROVE file'[n].acts = <<>>
  <2>1. file' = [file EXCEPT ![m] = Loaded(m)]
    BY <1>3 DEF OpensSession
  <2>2. m = n /\ file'[n] = Loaded(n)
    BY <1>1, <2>1 DEF Typed
  <2> QED BY <2>2 DEF Loaded
<1>4. ASSUME NEW p \in Procs, Listens(p) PROVE file'[n].acts = <<>>
  <2>1. ~(OpenLock(p) \/ Flock(p) \/ Rejected(p) \/ Passes(p) \/ Suppress(p) \/ Emit(p)
          \/ HearConversation(p) \/ HangUp(p) \/ End(p))
    BY <1>2 DEF OpenLock, Flock, Rejected, Passes, Suppress, Emit, HearConversation, HangUp, End, disk
  <2>2. ~(Welcomed(p) \/ Assigned(p))
    BY <1>2 DEF Welcomed, Assigned, Welcome, disk
  <2>3. CASE Start(p) \/ Refused(p)
    BY <1>2, <1>3, <2>3, ListenerAssumption DEF Start, Refused
  <2>4. CASE OpenAssigned(p)
    <3>1. me[p].nick \in Nicks
      BY <2>4 DEF CursorInv, LockInv, OpenedAtPath, OpenAssigned
    <3> QED BY <1>3, <2>4, <3>1 DEF OpenAssigned
  <2>5. CASE Adopt(p)
    <3> DEFINE s == [inst |-> me[p].boot, cursor |-> 0, acts |-> <<>>]
    <3>1. file' = [file EXCEPT ![me[p].nick] = s]
      BY <2>5 DEF Adopt, AdoptTo, SavesAs
    <3>2. s.acts = <<>>
      OBVIOUS
    <3> HIDE DEF s
    <3>3. file'[n] = s
      BY <1>1, <3>1 DEF Typed
    <3> QED BY <3>2, <3>3
  <2>6. CASE Mark(p) \/ Advance(p) \/ EndReply(p)
    <3>1. Hearing(me[p])
      BY <2>6, AtFrame DEF Mark, Advance, EndReply, Hearing
    <3>2. file[me[p].nick] \in Sessions
      BY <3>1, AtWork
    <3>3. me[p].nick # n
      BY <3>2, ListenerAssumption
    <3>4. PICK s \in Sessions : file' = [file EXCEPT ![me[p].nick] = s]
      BY <2>6, SavedSession
    <3> QED BY <1>1, <3>3, <3>4 DEF Typed
  <2>7. CASE Reset(p)
    <3>1. file[me[p].nick] # None
      BY <2>7 DEF Reset
    <3>2. PICK s : file' = [file EXCEPT ![me[p].nick] = s]
      BY <2>7 DEF Reset, SavesAs
    <3> QED BY <1>1, <3>1, <3>2 DEF Typed
  <2> QED BY <1>4, <2>1, <2>2, <2>3, <2>4, <2>5, <2>6, <2>7 DEF Listens
<1>5. ~(Say \/ DeleteRoom \/ UNCHANGED vars)
  BY <1>2 DEF Say, DeleteRoom, vars, disk
<1>6. \A p \in Procs : ~Lose(p)
  BY <1>2 DEF Lose, disk
<1>7. \A m \in Nicks : ~PurgeLock(m) /\ ~PurgeCursor(m)
  BY <1>1, <1>2 DEF PurgeLock, PurgeCursor, Typed
<1>8. \A m \in Named : Send(m) => file'[n].acts = <<>>
  BY <1>3, ListenerAssumption DEF Send
<1> QED BY <1>4, <1>5, <1>6, <1>7, <1>8 DEF Next

\* What a file's activations become: none, the same, or one more and the oldest
\* dropped.
LEMMA ActsStep ==
    ASSUME CursorInv, ActsBounded, [Next]_vars PROVE ActsBounded'
<1> SUFFICES ASSUME NEW n \in Nicks, file'[n] # None PROVE Len(file'[n].acts) <= MaxActs
  BY DEF ActsBounded
<1>1. Typed /\ MaxActs \in Nat \ {0} /\ Len(<<>>) = 0
  BY ListenerAssumption DEF CursorInv
<1>2. CASE file[n] = None
  BY <1>1, <1>2, AppearsBlank
<1>3. CASE file'[n] = file[n]
  BY <1>3 DEF ActsBounded
<1>4. CASE file[n] # None /\ file'[n] # file[n]
  <2>1. PICK p \in Procs :
          /\ me[p].nick = n
          /\ Adopt(p) \/ Mark(p) \/ Advance(p) \/ EndReply(p) \/ Reset(p)
    BY <1>4, Writers
  <2>2. file[n] \in Sessions /\ Len(file[n].acts) <= MaxActs
    BY <1>1, <1>4 DEF Typed, ActsBounded
  <2>3. CASE Adopt(p)
    <3> DEFINE s == [inst |-> me[p].boot, cursor |-> 0, acts |-> <<>>]
    <3>1. file' = [file EXCEPT ![n] = s]
      BY <2>1, <2>3 DEF Adopt, AdoptTo, SavesAs
    <3>2. file'[n].acts = <<>>
      BY <1>1, <3>1 DEF Typed
    <3> QED BY <1>1, <3>2
  <2>4. CASE Reset(p)
    <3> DEFINE s == [file[n] EXCEPT !.cursor = 0, !.acts = <<>>]
    <3>1. file' = [file EXCEPT ![n] = s]
      BY <2>1, <2>4 DEF Reset, SavesAs
    <3>2. s.acts = <<>>
      BY <2>2 DEF Sessions
    <3> HIDE DEF s
    <3>3. file'[n] = s
      BY <1>1, <3>1 DEF Typed
    <3> QED BY <1>1, <3>2, <3>3
  <2>5. CASE Advance(p) \/ EndReply(p)
    <3>1. PICK k : file' = [file EXCEPT ![n] = Advanced(n, k)] \/ file' = [file EXCEPT ![n] = file[n]]
      BY <2>1, <2>5 DEF Advance, EndReply, Saves, SavesAs
    <3>2. file'[n] = Advanced(n, k)
      BY <1>1, <1>4, <3>1 DEF Typed
    <3>3. Advanced(n, k).acts = file[n].acts
      BY <2>2 DEF Advanced, Sessions
    <3> QED BY <2>2, <3>2, <3>3
  <2>6. CASE Mark(p)
    <3> DEFINE longer == Append(file[n].acts, log[me[p].next])
               s == [file[n] EXCEPT !.acts = Newest(longer)]
    <3>1. file' = [file EXCEPT ![n] = s]
      BY <2>1, <2>6 DEF Mark, SavesAs
    <3>2. Hearing(me[p])
      BY <2>6, AtFrame DEF Mark
    <3>3. log[me[p].next] \in Acts
      BY <2>1, <2>6, <3>2, AtWork DEF Earning, Mark
    <3>4. longer \in Seq(Acts) /\ Len(longer) = Len(file[n].acts) + 1 /\ Len(file[n].acts) \in Nat
      BY <2>2, <3>3 DEF Sessions
    <3> HIDE DEF longer
    <3>5. Len(Newest(longer)) <= MaxActs
      <4>1. Len(longer) >= 1 /\ Len(Tail(longer)) = Len(longer) - 1
        BY <3>4
      <4> QED BY <1>1, <2>2, <3>4, <4>1 DEF Newest
    <3>6. s.acts = Newest(longer)
      BY <2>2 DEF Sessions
    <3> HIDE DEF s
    <3>7. file'[n] = s
      BY <1>1, <3>1 DEF Typed
    <3> QED BY <3>5, <3>6, <3>7
  <2> QED BY <2>1, <2>3, <2>4, <2>5, <2>6
<1> QED BY <1>2, <1>3, <1>4

\* The inode at a lock's path is one that has been made: opening makes it.
LEMMA PathsStep ==
    ASSUME LockInv, PathsMade, [Next]_vars PROVE PathsMade'
<1>1. /\ \A n \in Nicks : lock[n] \in [path : 0..2, made : 0..2,
                                       held : [Inodes -> Procs \cup {None}]]
      /\ DOMAIN lock = Nicks
  BY DEF LockInv, Shape
<1>2. CASE lock' = lock
  BY <1>2 DEF PathsMade
<1>3. ASSUME NEW p \in Procs, lock' = Released(p) PROVE PathsMade'
  <2>1. \A n \in Nicks : lock'[n].path = lock[n].path /\ lock'[n].made = lock[n].made
    BY <1>1, <1>3 DEF Released
  <2> QED BY <2>1 DEF PathsMade
<1>4. ASSUME NEW p \in Procs, OpenLock(p) PROVE PathsMade'
  <2> DEFINE m == me[p].nick
             i == IF lock[m].path # 0 THEN lock[m].path ELSE lock[m].made + 1
             l == [lock[m] EXCEPT !.path = i, !.made = IF i > @ THEN i ELSE @]
  <2>1. m \in Nicks /\ i \in Inodes /\ lock' = [lock EXCEPT ![m] = l]
    BY <1>4 DEF OpenLock, LockInv, OpenedAtPath
  <2>2. l.path \in 0..l.made
    <3>1. lock[m] \in [path : 0..2, made : 0..2, held : [Inodes -> Procs \cup {None}]]
      BY <1>1, <2>1
    <3>2. i \in 1..2
      BY <2>1 DEF Inodes
    <3> HIDE DEF m, i
    <3> QED BY <3>1, <3>2
  <2> HIDE DEF m, l
  <2> QED BY <1>1, <2>1, <2>2 DEF PathsMade
<1>5. ASSUME NEW p \in Procs, Flock(p), lock' # Released(p) PROVE PathsMade'
  <2> DEFINE m == me[p].nick
             l == [lock[m] EXCEPT !.held = [@ EXCEPT ![me[p].fd] = p]]
  <2>1. m \in Nicks /\ lock' = [lock EXCEPT ![m] = l]
    BY <1>5 DEF Flock, Ends, LockInv, OpenedAtPath
  <2>2. l.path = lock[m].path /\ l.made = lock[m].made
    BY <1>1, <2>1
  <2> HIDE DEF m, l
  <2> QED BY <1>1, <2>1, <2>2 DEF PathsMade
<1>6. ASSUME NEW m \in Nicks, PurgeLock(m) PROVE PathsMade'
  <2> DEFINE l == [lock[m] EXCEPT !.path = 0]
  <2>1. lock' = [lock EXCEPT ![m] = l]
    BY <1>6 DEF PurgeLock
  <2>2. l.path \in 0..l.made
    BY <1>1
  <2> HIDE DEF l
  <2> QED BY <1>1, <2>1, <2>2 DEF PathsMade
<1>7. ASSUME NEW p \in Procs, Listens(p) PROVE PathsMade'
  <2>1. CASE OpenLock(p) \/ Flock(p)
    BY <1>3, <1>4, <1>5, <2>1
  <2>2. CASE Refused(p) \/ Rejected(p) \/ End(p)
    BY <1>3, <2>2 DEF Refused, Rejected, End, Ends
  <2>3. CASE Advance(p) \/ EndReply(p)
    BY <1>2, <1>3, <2>3 DEF Advance, EndReply, Saves, Ends
  <2>4. CASE Start(p) \/ OpenAssigned(p) \/ Adopt(p) \/ Mark(p) \/ Reset(p)
    BY <1>2, <2>4 DEF Start, OpenAssigned, Adopt, AdoptTo, Mark, Reset
  <2>5. CASE Welcomed(p) \/ Assigned(p)
    BY <1>2, <2>5 DEF Welcomed, Assigned, Welcome, disk
  <2>6. CASE Passes(p) \/ Suppress(p) \/ Emit(p) \/ HearConversation(p) \/ HangUp(p)
    BY <1>2, <2>6 DEF Passes, Suppress, Emit, HearConversation, HangUp, disk
  <2> QED BY <1>7, <2>1, <2>2, <2>3, <2>4, <2>5, <2>6 DEF Listens
<1>8. CASE \/ \E p \in Procs : Lose(p)
           \/ \E n \in Named : Send(n)
           \/ \E n \in Nicks : PurgeCursor(n)
           \/ Say \/ DeleteRoom \/ UNCHANGED vars
  BY <1>2, <1>8 DEF Lose, Send, PurgeCursor, Say, DeleteRoom, vars, disk
<1> QED BY <1>6, <1>7, <1>8 DEF Next

LEMMA BoundedInit == Init => Bounded
<1> SUFFICES ASSUME Init PROVE Bounded
  OBVIOUS
<1>1. \A n \in Nicks : file[n] # None => file[n].acts = <<>>
  BY DEF Init, OldSession
<1>2. MaxActs \in Nat /\ Len(<<>>) = 0
  BY ListenerAssumption
<1>3. ActsBounded
  BY <1>1, <1>2 DEF ActsBounded
<1>4. PathsMade
  BY DEF Init, NoLock, PathsMade
<1> QED BY <1>3, <1>4 DEF Bounded

\* Every value has its type, a session remembers no more activations than its
\* bound, the inode at a lock's path exists, and a process that has gone past its
\* lock holds it.
THEOREM TypesHold == Raced = FALSE /\ LiveReset = FALSE => (Spec => []TypeOK)
<1> SUFFICES ASSUME Raced = FALSE, LiveReset = FALSE PROVE Spec => []TypeOK
  OBVIOUS
<1>1. Bounded /\ CursorInv /\ [Next]_vars => Bounded'
  BY ActsStep, PathsStep DEF Bounded, CursorInv
<1>2. CursorInv /\ Bounded => TypeOK
  <2> SUFFICES ASSUME CursorInv, Bounded PROVE TypeOK
    OBVIOUS
  <2>1. Typed /\ Shape
    BY DEF CursorInv, LockInv
  <2>2. \A n \in Nicks :
          /\ file[n] = None \/ (file[n] \in Sessions /\ Len(file[n].acts) <= MaxActs)
          /\ lock[n].path \in 0..lock[n].made /\ lock[n].made \in 0..2
          /\ lock[n].held \in [Inodes -> Procs \cup {None}]
    BY <2>1 DEF Typed, Shape, Bounded, ActsBounded, PathsMade
  <2>3. \A p \in Procs :
          /\ me[p].pc \in Points /\ me[p].step \in Steps
          /\ me[p].nick \in Nicks \cup {None}
          /\ me[p].mem = None \/ me[p].mem \in Sessions
    BY <2>1 DEF Typed, Records
  <2>4. \A p \in Procs : me[p].pc \in {"adopt", "reply", "live"} => Holds(p, me[p].nick)
    BY ListenerAssumption DEF CursorInv, ProcInv, Sitting, Owns
  <2> QED BY <2>1, <2>2, <2>3, <2>4 DEF TypeOK, Typed
<1> QED BY BoundedInit, <1>1, <1>2, CursorsInvariant, PTL DEF Spec
=============================================================================
