---------------------------- MODULE HubStateProofs ----------------------------
(***************************************************************************)
(* The durable state of the hub, for any names, handlers, snapshots and    *)
(* crashes: between two handlers the live registry and board are what a    *)
(* start would make of the disk, a binding of a name survives all but a    *)
(* kick, and seen from the disk the hub is the Roster.                     *)
(*                                                                         *)
(* A start replays the log by a recursive function.  What the proofs need  *)
(* of it is its step: an append applies one more event to what a start     *)
(* would have made.  The function exists because the events came one by    *)
(* one (Replayable is part of the invariant), and is unique by the least   *)
(* position at which two such functions could differ.                      *)
(***************************************************************************)
EXTENDS HubState, TLAPS, WellFoundedInduction

-----------------------------------------------------------------------------
(* Replaying a log. *)

\* g holds what the first k events of t make of s, for each k.
Chain(g, s, t) ==
    g = [k \in 0..Len(t) |-> IF k = 0 THEN s ELSE ReplayEvent(g[k-1], t[k])]

\* Recovered, as a function of the snapshot's state and the log.
RecoveredFrom(s, t) ==
    LET replayed[k \in 0..Len(t)] ==
            IF k = 0 THEN s ELSE ReplayEvent(replayed[k-1], t[k])
    IN  replayed[Len(t)]

LEMMA RecoveredIs == Recovered = RecoveredFrom(Restored, tail)
BY DEF Recovered, RecoveredFrom

LessThan == {ss \in Nat \X Nat : ss[1] < ss[2]}

LEMMA LeastExists ==
    ASSUME NEW S, S \subseteq Nat, S # {}
    PROVE  \E m \in S : \A y \in S : m <= y
<1>1. IsWellFoundedOn(LessThan, Nat)
  BY NatLessThanWellFounded DEF OpToRel, LessThan
<1>2. PICK m \in S : \A y \in S : ~ (<<y, m>> \in LessThan)
  BY <1>1, WFMin
<1>3. m \in Nat /\ \A y \in S : y \in Nat /\ ~ (y < m)
  BY <1>2 DEF LessThan
<1> QED BY <1>3

LEMMA ChainUnique ==
    ASSUME NEW s, NEW t, Len(t) \in Nat, NEW g, NEW h, Chain(g, s, t), Chain(h, s, t)
    PROVE  g = h
<1> DEFINE D == {k \in 0..Len(t) : g[k] # h[k]}
<1>1. /\ g = [k \in 0..Len(t) |-> g[k]] /\ h = [k \in 0..Len(t) |-> h[k]]
      /\ \A k \in 0..Len(t) : /\ g[k] = IF k = 0 THEN s ELSE ReplayEvent(g[k-1], t[k])
                              /\ h[k] = IF k = 0 THEN s ELSE ReplayEvent(h[k-1], t[k])
  BY Zenon DEF Chain
<1>2. SUFFICES ASSUME D # {} PROVE FALSE
  BY <1>1
<1>3. PICK m \in D : \A y \in D : m <= y
  <2>1. D \subseteq Nat
    OBVIOUS
  <2> HIDE DEF D
  <2> QED BY <1>2, <2>1, LeastExists
<1>4. CASE m = 0
  BY <1>1, <1>4
<1>5. CASE m # 0
  <2>1. m - 1 \in 0..Len(t) /\ m - 1 < m
    BY <1>5
  <2>2. g[m-1] = h[m-1]
    BY <1>3, <2>1
  <2> QED BY <1>1, <1>5, <2>2
<1> QED BY <1>4, <1>5

LEMMA RecoveredByChain ==
    ASSUME NEW s, NEW t, Len(t) \in Nat, NEW g, Chain(g, s, t)
    PROVE  RecoveredFrom(s, t) = g[Len(t)]
<1> DEFINE c == CHOOSE f : Chain(f, s, t)
<1>1. Chain(c, s, t)
  BY Zenon
<1>2. c = g
  <2> HIDE DEF c
  <2> QED BY <1>1, ChainUnique
<1>3. RecoveredFrom(s, t) = c[Len(t)]
  BY DEF RecoveredFrom, Chain
<1> QED BY <1>2, <1>3

\* A log without events, and one with one more event.
LEMMA ChainStarts ==
    ASSUME NEW s
    PROVE  (\E g : Chain(g, s, <<>>)) /\ RecoveredFrom(s, <<>>) = s
<1> DEFINE g == [k \in 0..0 |-> s]
<1>1. Len(<<>>) = 0 /\ 0..0 = {0}
  OBVIOUS
<1>2. Chain(g, s, <<>>)
  <2>1. \A k \in 0..0 : (IF k = 0 THEN s ELSE ReplayEvent(g[k-1], <<>>[k])) = s
    BY <1>1
  <2> QED BY <1>1, <2>1 DEF Chain
<1>3. g[0] = s
  BY <1>1
<1> HIDE DEF g
<1> QED BY <1>1, <1>2, <1>3, RecoveredByChain

LEMMA ChainGoesOn ==
    ASSUME NEW E, NEW t \in Seq(E), NEW e \in E, NEW s, NEW g, Chain(g, s, t)
    PROVE  /\ \E h : Chain(h, s, Append(t, e))
           /\ RecoveredFrom(s, Append(t, e)) = ReplayEvent(RecoveredFrom(s, t), e)
<1> DEFINE n == Len(t)
           u == Append(t, e)
           h == [k \in 0..n+1 |-> IF k <= n THEN g[k] ELSE ReplayEvent(g[n], e)]
<1>1. n \in Nat /\ Len(u) = n + 1 /\ u[n+1] = e /\ \A k \in 1..n : u[k] = t[k]
  OBVIOUS
<1>2. \A k \in 0..n : g[k] = IF k = 0 THEN s ELSE ReplayEvent(g[k-1], t[k])
  BY Zenon DEF Chain
<1> HIDE DEF n, u
<1>3. \A k \in 0..n+1 : h[k] = IF k = 0 THEN s ELSE ReplayEvent(h[k-1], u[k])
  <2> SUFFICES ASSUME NEW k \in 0..n+1
               PROVE  h[k] = IF k = 0 THEN s ELSE ReplayEvent(h[k-1], u[k])
    OBVIOUS
  <2>1. CASE k = 0
    BY <1>1, <1>2, <2>1
  <2>2. CASE k \in 1..n
    <3>1. k - 1 \in 0..n+1 /\ k - 1 <= n /\ k <= n /\ k # 0 /\ k \in 0..n
      BY <1>1, <2>2
    <3>2. h[k-1] = g[k-1] /\ h[k] = g[k] /\ u[k] = t[k]
      BY <1>1, <2>2, <3>1
    <3> QED BY <1>2, <3>1, <3>2
  <2>3. CASE k = n + 1
    <3>1. k - 1 = n /\ n \in 0..n+1 /\ ~(k <= n) /\ k # 0
      BY <1>1, <2>3
    <3>2. h[k] = ReplayEvent(g[n], e) /\ h[k-1] = g[n]
      BY <1>1, <3>1
    <3> QED BY <1>1, <2>3, <3>1, <3>2
  <2> QED BY <1>1, <2>1, <2>2, <2>3
<1>4. Chain(h, s, u)
  <2>1. h = [k \in 0..Len(u) |-> h[k]]
    BY <1>1
  <2> HIDE DEF h
  <2> QED BY <1>1, <1>3, <2>1 DEF Chain
<1>5. h[n+1] = ReplayEvent(g[n], e)
  BY <1>1
<1> HIDE DEF h
<1>6. RecoveredFrom(s, u) = h[n+1]
  BY <1>1, <1>4, RecoveredByChain
<1>7. RecoveredFrom(s, t) = g[n]
  BY <1>1, RecoveredByChain DEF n
<1> QED BY <1>4, <1>5, <1>6, <1>7 DEF u

-----------------------------------------------------------------------------
(* Registries and boards. *)

Board == [Nicks -> Texts \cup {None}]
Dates == [Nicks -> Nat]
Standings == [registry : RegistryType, status : Board, status_seq : Dates]

\* A registry that dump and restore keep: roles follow from tokens.json and the
\* generations, a name that does not exist has nothing, a name that never entered
\* has no instance; no more generations than events.
RegistryKept(r, top) ==
    /\ r \in RegistryType
    /\ \A n \in Nicks :
         /\ r.role[n] = IF FromTokens.role[n] = "nobody" /\ r.gen[n] > 0
                        THEN "agent" ELSE FromTokens.role[n]
         /\ r.role[n] = "nobody" => r.groups[n] = {} /\ r.addr[n] = None
         /\ r.gen[n] = 0 => r.instance[n] = None
         /\ r.gen[n] <= top

\* A declaration has the seq of an event, and only a declaration has one.
BoardKept(s, q, top) ==
    /\ s \in Board /\ q \in Dates
    /\ \A n \in Nicks : IF s[n] = None THEN q[n] = 0 ELSE q[n] <= top

Kept(st, top) ==
    /\ st \in Standings
    /\ RegistryKept(st.registry, top) /\ BoardKept(st.status, st.status_seq, top)

LEMMA KeptLonger ==
    ASSUME NEW st, NEW top \in Nat, Kept(st, top)
    PROVE  Kept(st, top + 1)
BY DEF Kept, RegistryKept, BoardKept, Standings, RegistryType, Dates

LEMMA TokensKept == RegistryKept(FromTokens, 0)
BY RegistryAssumption DEF RegistryKept, RegistryType, FromTokens, Roles

\* tokens.json, the generations and what dump writes give the registry back.
LEMMA RestoreDump ==
    ASSUME NEW r, NEW top \in Nat, RegistryKept(r, top)
    PROVE  Restore(Dump(r)) = r
<1> DEFINE role == [n \in Nicks |-> IF FromTokens.role[n] = "nobody" /\ r.gen[n] > 0
                                    THEN "agent" ELSE FromTokens.role[n]]
           groups == [n \in Nicks |-> IF role[n] # "nobody" THEN r.groups[n] ELSE {}]
           addr == [n \in Nicks |-> IF role[n] # "nobody" THEN r.addr[n] ELSE None]
<1>1. Restore(Dump(r)) = [role |-> role, groups |-> groups, gen |-> r.gen,
                          instance |-> r.instance, addr |-> addr]
  BY DEF Restore, Dump
<1>2. /\ r = [role |-> r.role, groups |-> r.groups, gen |-> r.gen, instance |-> r.instance,
              addr |-> r.addr]
      /\ r.role \in [Nicks -> Roles] /\ r.groups \in [Nicks -> SUBSET Groups]
      /\ r.addr \in [Nicks -> Addrs \cup {None}]
  BY DEF RegistryKept, RegistryType
<1>3. role = r.role
  BY <1>2 DEF RegistryKept
<1>4. groups = r.groups /\ addr = r.addr
  <2> HIDE DEF role
  <2> QED BY <1>2, <1>3 DEF RegistryKept
<1> HIDE DEF role, groups, addr
<1> QED BY <1>1, <1>2, <1>3, <1>4

-----------------------------------------------------------------------------
(* What each event makes of a standing. *)

Mutations ==
    [type : {"hello"}, seq : Nat, nick : Nicks, instance : Instances, addr : Addrs \cup {None}]
        \cup [type : {"kick"}, seq : Nat, nick : Nicks]
        \cup [type : {"membership_set"}, seq : Nat, nick : Nicks, groups : SUBSET Groups]
        \cup [type : {"status"}, seq : Nat, nick : Nicks, text : Texts]
Events == Mutations \cup [type : {"talk"}, seq : Nat]

\* The standing that the handler of event e, which got as far as this trial, makes
\* of the standing st.
Applying(st, e, trial) ==
    [registry |-> trial,
     status |-> IF e.type = "status" THEN Put(st.status, e.nick, e.text) ELSE st.status,
     status_seq |-> IF e.type = "status" THEN Put(st.status_seq, e.nick, e.seq)
                    ELSE st.status_seq]

\* Between r and the trial no name changes its address or loses it, but for the one
\* that a kick frees.
Bound(r, e, trial) ==
    \A n \in Nicks : r.addr[n] # None /\ trial.addr[n] # r.addr[n] =>
        trial.addr[n] = None /\ e.type = "kick" /\ e.nick = n

\* Event e is replayed as it was applied, and keeps what a snapshot keeps.
Faithful(st, e, trial) ==
    /\ ReplayEvent(st, e) = Applying(st, e, trial)
    /\ Kept(Applying(st, e, trial), e.seq)
    /\ Bound(st.registry, e, trial)

\* What only replaces the registry.
LEMMA FaithfulRegistry ==
    ASSUME NEW top \in Nat, NEW st, Kept(st, top), NEW e, e.seq = top + 1, e.type # "status",
           NEW trial, RegistryKept(trial, top + 1)
    PROVE  /\ Applying(st, e, trial) = [st EXCEPT !.registry = trial]
           /\ Kept(Applying(st, e, trial), e.seq)
<1>1. /\ st = [registry |-> st.registry, status |-> st.status, status_seq |-> st.status_seq]
      /\ trial \in RegistryType /\ Kept(st, top + 1)
  BY KeptLonger DEF Kept, Standings, RegistryKept
<1>2. Applying(st, e, trial) = [registry |-> trial, status |-> st.status,
                                status_seq |-> st.status_seq]
  BY DEF Applying
<1>3. Applying(st, e, trial) = [st EXCEPT !.registry = trial]
  BY <1>1, <1>2
<1>4. Kept(Applying(st, e, trial), top + 1)
  BY <1>1, <1>2 DEF Kept, Standings
<1> QED BY <1>3, <1>4

\* Entry: a new name becomes an agent, a new instance has a new generation, and an
\* address is pinned.
LEMMA EntryFields ==
    ASSUME NEW r \in RegistryType, NEW n \in Nicks, NEW i \in Instances,
           NEW a \in Addrs \cup {None}
    PROVE  LET o == OpenHello(r, n, i, a) IN
           /\ o \in RegistryType
           /\ o.role = IF Known(r, n) THEN r.role ELSE Put(r.role, n, "agent")
           /\ o.groups = r.groups
           /\ o.gen = IF r.instance[n] = i THEN r.gen ELSE Put(r.gen, n, r.gen[n] + 1)
           /\ o.instance = IF r.instance[n] = i THEN r.instance ELSE Put(r.instance, n, i)
           /\ o.addr = IF a = None THEN r.addr ELSE Put(r.addr, n, a)
<1> DEFINE en == Enrol(r, n)
           bu == Bump(en, n, i)
           o == Pin(bu, n, a)
<1>1. /\ en \in RegistryType
      /\ en.role = IF Known(r, n) THEN r.role ELSE Put(r.role, n, "agent")
      /\ en.groups = r.groups /\ en.gen = r.gen /\ en.instance = r.instance /\ en.addr = r.addr
  BY DEF Enrol, RegistryType, Roles, Put
<1> HIDE DEF en
<1>2. /\ bu \in RegistryType
      /\ bu.role = en.role /\ bu.groups = en.groups /\ bu.addr = en.addr
      /\ bu.gen = IF en.instance[n] = i THEN en.gen ELSE Put(en.gen, n, en.gen[n] + 1)
      /\ bu.instance = IF en.instance[n] = i THEN en.instance ELSE Put(en.instance, n, i)
  <2>1. CASE en.instance[n] = i
    BY <1>1, <2>1 DEF Bump
  <2>2. CASE en.instance[n] # i
    <3> DEFINE gen == Put(en.gen, n, en.gen[n] + 1)
               instance == Put(en.instance, n, i)
    <3>1. bu = [en EXCEPT !.gen = gen, !.instance = instance]
      BY <2>2 DEF Bump
    <3>2. gen \in [Nicks -> Nat] /\ instance \in [Nicks -> Instances \cup {None}]
      BY <1>1 DEF RegistryType, Put
    <3> HIDE DEF gen, instance, bu
    <3>3. /\ bu \in RegistryType /\ bu.gen = gen /\ bu.instance = instance
          /\ bu.role = en.role /\ bu.groups = en.groups /\ bu.addr = en.addr
      BY <1>1, <3>1, <3>2 DEF RegistryType
    <3> QED BY <2>2, <3>3 DEF gen, instance
  <2> QED BY <2>1, <2>2
<1> HIDE DEF bu
<1>3. /\ o \in RegistryType
      /\ o.role = bu.role /\ o.groups = bu.groups /\ o.gen = bu.gen
      /\ o.instance = bu.instance
      /\ o.addr = IF a = None THEN bu.addr ELSE Put(bu.addr, n, a)
  BY <1>2 DEF Pin, RegistryType, Put
<1>4. OpenHello(r, n, i, a) = o
  BY DEF OpenHello, en, bu
<1> HIDE DEF o
<1> QED BY <1>1, <1>2, <1>3, <1>4

LEMMA EntryKept ==
    ASSUME NEW top \in Nat, NEW r, RegistryKept(r, top), NEW n \in Nicks, NEW i \in Instances,
           NEW a \in Addrs \cup {None}
    PROVE  RegistryKept(OpenHello(r, n, i, a), top + 1)
<1> DEFINE o == OpenHello(r, n, i, a)
<1>1. r \in RegistryType /\ i # None
  BY RegistryAssumption DEF RegistryKept
<1>2. /\ o \in RegistryType
      /\ o.role = IF Known(r, n) THEN r.role ELSE Put(r.role, n, "agent")
      /\ o.groups = r.groups
      /\ o.gen = IF r.instance[n] = i THEN r.gen ELSE Put(r.gen, n, r.gen[n] + 1)
      /\ o.instance = IF r.instance[n] = i THEN r.instance ELSE Put(r.instance, n, i)
      /\ o.addr = IF a = None THEN r.addr ELSE Put(r.addr, n, a)
  BY <1>1, EntryFields
<1> HIDE DEF o
<1>3. ASSUME NEW m \in Nicks, m # n
      PROVE  /\ o.role[m] = r.role[m] /\ o.groups[m] = r.groups[m] /\ o.gen[m] = r.gen[m]
             /\ o.instance[m] = r.instance[m] /\ o.addr[m] = r.addr[m]
  BY <1>2, <1>3 DEF Put
<1>4. o.role[n] = (IF Known(r, n) THEN r.role[n] ELSE "agent") /\ o.groups[n] = r.groups[n]
  BY <1>2 DEF Put
<1>5. /\ o.gen[n] = IF r.instance[n] = i THEN r.gen[n] ELSE r.gen[n] + 1
      /\ o.instance[n] = i
  BY <1>2 DEF Put
<1>6. r.gen[n] \in Nat /\ o.gen[n] > 0 /\ o.gen[n] <= top + 1
  BY <1>1, <1>5 DEF RegistryKept, RegistryType
<1>7. o.role[n] = IF FromTokens.role[n] = "nobody" /\ o.gen[n] > 0
                  THEN "agent" ELSE FromTokens.role[n]
  BY <1>4, <1>6 DEF RegistryKept, Known
<1>8. o.role[n] # "nobody"
  BY <1>4 DEF Known
<1>9. \A m \in Nicks : r.gen[m] \in Nat
  BY <1>1 DEF RegistryType
<1>10. ASSUME NEW m \in Nicks
       PROVE  /\ o.role[m] = IF FromTokens.role[m] = "nobody" /\ o.gen[m] > 0
                             THEN "agent" ELSE FromTokens.role[m]
              /\ o.role[m] = "nobody" => o.groups[m] = {} /\ o.addr[m] = None
              /\ o.gen[m] = 0 => o.instance[m] = None
              /\ o.gen[m] <= top + 1
  <2>1. CASE m = n
    BY <1>6, <1>7, <1>8, <2>1
  <2>2. CASE m # n
    <3>1. /\ r.role[m] = IF FromTokens.role[m] = "nobody" /\ r.gen[m] > 0
                         THEN "agent" ELSE FromTokens.role[m]
          /\ r.role[m] = "nobody" => r.groups[m] = {} /\ r.addr[m] = None
          /\ r.gen[m] = 0 => r.instance[m] = None
          /\ r.gen[m] <= top
      BY DEF RegistryKept
    <3>2. r.gen[m] <= top + 1
      BY <1>9, <3>1
    <3> QED BY <1>3, <2>2, <3>1, <3>2
  <2> QED BY <2>1, <2>2
<1>11. RegistryKept(o, top + 1)
  BY <1>2, <1>10 DEF RegistryKept
<1> QED BY <1>11 DEF o

LEMMA HelloFaithful ==
    ASSUME NEW top \in Nat, NEW st, Kept(st, top), NEW n \in Nicks, NEW i \in Instances,
           NEW a \in Addrs \cup {None}, a # None => st.registry.addr[n] \in {None, a}
    PROVE  Faithful(st, [HelloEvent(n, i, a) EXCEPT !.seq = top + 1],
                    OpenHello(st.registry, n, i, a))
<1> DEFINE e == [HelloEvent(n, i, a) EXCEPT !.seq = top + 1]
           r == st.registry
           trial == OpenHello(r, n, i, a)
<1>1. e.type = "hello" /\ e.seq = top + 1 /\ e.nick = n /\ e.instance = i /\ e.addr = a
  BY DEF HelloEvent
<1>2. RegistryKept(r, top) /\ r \in RegistryType
  BY DEF Kept, RegistryKept
<1>3. RegistryKept(trial, top + 1)
  BY <1>2, EntryKept
<1>4. trial.addr = IF a = None THEN r.addr ELSE Put(r.addr, n, a)
  BY <1>2, EntryFields
<1> HIDE DEF e, r
<1>5. ReplayEvent(st, e) = [st EXCEPT !.registry = trial]
  BY <1>1 DEF ReplayEvent, ReplayHello, OpenHello, r
<1> HIDE DEF trial
<1>6. ReplayEvent(st, e) = Applying(st, e, trial) /\ Kept(Applying(st, e, trial), e.seq)
  BY <1>1, <1>3, <1>5, FaithfulRegistry
<1>7. Bound(r, e, trial)
  BY <1>4 DEF Bound, Put, r
<1> QED BY <1>6, <1>7 DEF Faithful, e, r, trial

\* A name of tokens.json exists already.
LEMMA TokenHello ==
    ASSUME NEW top, NEW r, RegistryKept(r, top), NEW n \in Tokens, NEW i
    PROVE  Hello(r, n, i) = OpenHello(r, n, i, None) /\ n \in Nicks
<1>1. n \in Nicks
  BY RegistryAssumption DEF Tokens
<1>2. FromTokens.role[n] # "nobody"
  BY <1>1 DEF Tokens, FromTokens
<1>3. Known(r, n)
  BY <1>1, <1>2 DEF RegistryKept, Known
<1> QED BY <1>1, <1>3 DEF Hello, OpenHello, Enrol, Pin

LEMMA KickFaithful ==
    ASSUME NEW top \in Nat, NEW st, Kept(st, top), NEW n \in Nicks
    PROVE  Faithful(st, [type |-> "kick", seq |-> top + 1, nick |-> n], Release(st.registry, n))
<1> DEFINE e == [type |-> "kick", seq |-> top + 1, nick |-> n]
           r == st.registry
           addr == Put(r.addr, n, None)
           trial == Release(r, n)
<1>1. e.type = "kick" /\ e.seq = top + 1 /\ e.nick = n
  OBVIOUS
<1>2. RegistryKept(r, top) /\ r \in RegistryType
  BY DEF Kept, RegistryKept
<1>3. trial = [r EXCEPT !.addr = addr]
  BY DEF Release
<1>4. /\ addr \in [Nicks -> Addrs \cup {None}] /\ addr[n] = None
      /\ \A m \in Nicks : m # n => addr[m] = r.addr[m]
  BY <1>2 DEF RegistryType, Put
<1> HIDE DEF e, r, addr, trial
<1>5. /\ trial \in RegistryType /\ trial.role = r.role /\ trial.groups = r.groups
      /\ trial.gen = r.gen /\ trial.instance = r.instance /\ trial.addr = addr
  BY <1>2, <1>3, <1>4 DEF RegistryType
<1>6. RegistryKept(trial, top + 1)
  <2>1. \A m \in Nicks : r.gen[m] <= top + 1
    BY <1>2 DEF RegistryKept, RegistryType
  <2> QED BY <1>2, <1>4, <1>5, <2>1 DEF RegistryKept
<1>7. ReplayEvent(st, e) = [st EXCEPT !.registry = trial]
  BY <1>1 DEF ReplayEvent, r, trial
<1>8. ReplayEvent(st, e) = Applying(st, e, trial) /\ Kept(Applying(st, e, trial), e.seq)
  BY <1>1, <1>6, <1>7, FaithfulRegistry
<1>9. Bound(r, e, trial)
  BY <1>1, <1>4, <1>5 DEF Bound
<1> QED BY <1>8, <1>9 DEF Faithful, e, r, trial

LEMMA SetFaithful ==
    ASSUME NEW top \in Nat, NEW st, Kept(st, top), NEW n \in Nicks, NEW gs \in SUBSET Groups,
           SetGroupsAllowed(st.registry, n)
    PROVE  Faithful(st, [type |-> "membership_set", seq |-> top + 1, nick |-> n, groups |-> gs],
                    SetGroups(st.registry, n, gs))
<1> DEFINE e == [type |-> "membership_set", seq |-> top + 1, nick |-> n, groups |-> gs]
           r == st.registry
           groups == Put(r.groups, n, gs)
           trial == SetGroups(r, n, gs)
<1>1. e.type = "membership_set" /\ e.seq = top + 1 /\ e.nick = n /\ e.groups = gs
  OBVIOUS
<1>2. RegistryKept(r, top) /\ r \in RegistryType /\ r.role[n] # "nobody"
  BY DEF Kept, RegistryKept, SetGroupsAllowed, Known
<1>3. trial = [r EXCEPT !.groups = groups]
  BY DEF SetGroups
<1>4. /\ groups \in [Nicks -> SUBSET Groups]
      /\ \A m \in Nicks : m # n => groups[m] = r.groups[m]
  BY <1>2 DEF RegistryType, Put
<1>5. ReplayEvent(st, e) = [st EXCEPT !.registry = trial]
  BY <1>1 DEF ReplayEvent
<1> HIDE DEF e, r, groups, trial
<1>6. /\ trial \in RegistryType /\ trial.role = r.role /\ trial.groups = groups
      /\ trial.gen = r.gen /\ trial.instance = r.instance /\ trial.addr = r.addr
  BY <1>2, <1>3, <1>4 DEF RegistryType
<1>7. RegistryKept(trial, top + 1)
  <2>1. \A m \in Nicks : r.gen[m] <= top + 1
    BY <1>2 DEF RegistryKept, RegistryType
  <2> QED BY <1>2, <1>4, <1>6, <2>1 DEF RegistryKept
<1>8. ReplayEvent(st, e) = Applying(st, e, trial) /\ Kept(Applying(st, e, trial), e.seq)
  BY <1>1, <1>5, <1>7, FaithfulRegistry
<1>9. Bound(r, e, trial)
  BY <1>6 DEF Bound
<1> QED BY <1>8, <1>9 DEF Faithful, e, r, trial

LEMMA StatusFaithful ==
    ASSUME NEW top \in Nat, NEW st, Kept(st, top), NEW n \in Nicks, NEW text \in Texts
    PROVE  Faithful(st, [type |-> "status", seq |-> top + 1, nick |-> n, text |-> text],
                    st.registry)
<1> DEFINE e == [type |-> "status", seq |-> top + 1, nick |-> n, text |-> text]
           s == Put(st.status, n, text)
           q == Put(st.status_seq, n, top + 1)
<1>1. e.type = "status" /\ e.seq = top + 1 /\ e.nick = n /\ e.text = text
  OBVIOUS
<1>2. /\ st = [registry |-> st.registry, status |-> st.status, status_seq |-> st.status_seq]
      /\ st.status \in Board /\ st.status_seq \in Dates
      /\ Kept(st, top + 1)
  BY KeptLonger DEF Kept, Standings
<1>3. ReplayEvent(st, e) = [st EXCEPT !.status = s, !.status_seq = q]
  BY <1>1 DEF ReplayEvent
<1>4. Applying(st, e, st.registry) = [registry |-> st.registry, status |-> s, status_seq |-> q]
  BY <1>1 DEF Applying
<1>5. BoardKept(s, q, top + 1)
  <2>1. text # None
    BY HubAssumption
  <2>2. s \in Board /\ q \in Dates
    BY <1>2 DEF Board, Dates, Put
  <2>3. \A m \in Nicks : IF m = n THEN s[m] = text /\ q[m] = top + 1
                         ELSE s[m] = st.status[m] /\ q[m] = st.status_seq[m]
    BY DEF Put
  <2> HIDE DEF s, q
  <2> QED BY <1>2, <2>1, <2>2, <2>3 DEF BoardKept, Kept
<1> HIDE DEF e, s, q
<1>6. ReplayEvent(st, e) = Applying(st, e, st.registry)
  BY <1>2, <1>3, <1>4
<1>7. Kept(Applying(st, e, st.registry), e.seq)
  BY <1>1, <1>2, <1>4, <1>5 DEF Kept, Standings, BoardKept
<1>8. Bound(st.registry, e, st.registry)
  BY DEF Bound
<1> QED BY <1>6, <1>7, <1>8 DEF Faithful, e

-----------------------------------------------------------------------------
(* The inductive invariant. *)

Live == [registry |-> registry, status |-> status, status_seq |-> status_seq]

Handlings == {Idle, [step |-> "settle"]}
                 \cup [step : {"apply"}, event : Mutations, trial : RegistryType]

\* The log can be replayed, and what a start would make of it a snapshot keeps.
DiskInv ==
    /\ snap \in [seq : 0..MaxSeq, state : DurableStateType]
    /\ tail \in Seq(Events)
    /\ LastSeq <= MaxSeq
    /\ \E g : Chain(g, Restored, tail)
    /\ Kept(Recovered, LastSeq)

\* What the process holds is what a start would make of the disk, and lacks only
\* the event that the running handler is about to apply.
Followed ==
    IF handling.step = "apply"
    THEN /\ Recovered = Applying(Live, handling.event, handling.trial)
         /\ Bound(registry, handling.event, handling.trial)
    ELSE Recovered = Live

HubInv ==
    /\ DiskInv
    /\ up \in BOOLEAN
    /\ registry \in RegistryType
    /\ status \in Board
    /\ status_seq \in [Nicks -> 0..MaxSeq]
    /\ since \in 0..LastSeq
    /\ handling \in Handlings
    /\ up => Followed

LEMMA HubInvTypes == HubInv => TypeOK /\ LiveIsRecovered
<1> SUFFICES ASSUME HubInv PROVE TypeOK /\ LiveIsRecovered
  OBVIOUS
<1>1. LastSeq \in Nat /\ since \in 0..MaxSeq
  BY HubAssumption DEF HubInv, DiskInv, LastSeq
<1>2. handling.step \in {"idle", "apply", "settle"}
  BY DEF HubInv, Handlings, Idle
<1>3. TypeOK
  BY <1>1, <1>2 DEF HubInv, DiskInv, TypeOK, Board
<1>4. LiveIsRecovered
  BY DEF HubInv, Followed, LiveIsRecovered, Live
<1> QED BY <1>3, <1>4

\* The types of a standing that is kept.
LEMMA KeptTypes ==
    ASSUME NEW st, NEW top \in 0..MaxSeq, Kept(st, top)
    PROVE  /\ st.registry \in RegistryType /\ st.status \in Board
           /\ st.status_seq \in [Nicks -> 0..MaxSeq]
           /\ DurableState(st.registry, st.status, st.status_seq) \in DurableStateType
<1>1. /\ st.registry \in RegistryType /\ st.status \in Board /\ st.status_seq \in Dates
      /\ RegistryKept(st.registry, top) /\ BoardKept(st.status, st.status_seq, top)
      /\ MaxSeq \in Nat
  BY HubAssumption DEF Kept, Standings
<1>2. ASSUME NEW n \in Nicks
      PROVE  st.status_seq[n] \in 0..MaxSeq /\ st.registry.gen[n] \in 0..MaxSeq
  <2>1. st.status_seq[n] \in Nat /\ st.registry.gen[n] \in Nat
    BY <1>1 DEF Dates, RegistryType
  <2>2. (st.status_seq[n] = 0 \/ st.status_seq[n] <= top) /\ st.registry.gen[n] <= top
    BY <1>1 DEF RegistryKept, BoardKept
  <2> QED BY <1>1, <2>1, <2>2
<1>3. st.status_seq \in [Nicks -> 0..MaxSeq] /\ st.registry.gen \in [Nicks -> 0..MaxSeq]
  BY <1>1, <1>2 DEF Dates, RegistryType
<1>4. Dump(st.registry) \in
        [gen : [Nicks -> 0..MaxSeq], instance : [Nicks -> Instances \cup {None}],
         groups : [Nicks -> SUBSET Groups], addr : [Nicks -> Addrs \cup {None}]]
  BY <1>1, <1>3 DEF Dump, RegistryType
<1> QED BY <1>1, <1>3, <1>4 DEF DurableState, DurableStateType, Board

LEMMA RecoveredNext == Recovered' = RecoveredFrom(Restored', tail')
BY DEF Recovered, RecoveredFrom

LEMMA SameDisk ==
    ASSUME UNCHANGED disk
    PROVE  /\ Recovered' = Recovered /\ LastSeq' = LastSeq
           /\ DiskInv => DiskInv'
<1>1. snap' = snap /\ tail' = tail
  BY DEF disk
<1>2. Restored' = Restored
  BY <1>1 DEF Restored
<1>3. Recovered' = Recovered /\ LastSeq' = LastSeq
  BY <1>1, <1>2, RecoveredIs, RecoveredNext DEF LastSeq
<1> QED BY <1>1, <1>2, <1>3 DEF DiskInv

\* An append: a start would make one event more of the disk.
LEMMA Appends ==
    ASSUME DiskInv, NEW e \in Events, LastSeq < MaxSeq,
           tail' = Append(tail, e), snap' = snap,
           Kept(ReplayEvent(Recovered, e), LastSeq + 1)
    PROVE  /\ Recovered' = ReplayEvent(Recovered, e) /\ LastSeq' = LastSeq + 1
           /\ DiskInv'
<1>1. PICK g : Chain(g, Restored, tail)
  BY DEF DiskInv
<1>2. tail \in Seq(Events) /\ Restored' = Restored
  BY DEF DiskInv, Restored
<1>3. /\ \E h : Chain(h, Restored, Append(tail, e))
      /\ RecoveredFrom(Restored, Append(tail, e)) = ReplayEvent(RecoveredFrom(Restored, tail), e)
  BY <1>1, <1>2, ChainGoesOn
<1>4. Recovered' = ReplayEvent(Recovered, e) /\ \E h : Chain(h, Restored', tail')
  BY <1>2, <1>3, RecoveredIs, RecoveredNext
<1>5. /\ LastSeq' = LastSeq + 1 /\ LastSeq' <= MaxSeq
      /\ tail' \in Seq(Events)
  <2>1. Len(tail') = Len(tail) + 1 /\ Len(tail) \in Nat /\ tail' \in Seq(Events)
    BY <1>2
  <2>2. snap.seq \in Nat /\ MaxSeq \in Nat
    BY HubAssumption DEF DiskInv
  <2> QED BY <2>1, <2>2 DEF LastSeq
<1> QED BY <1>4, <1>5 DEF DiskInv

\* A snapshot: a start makes of it alone what it would have made of the disk before.
LEMMA Snapshots ==
    ASSUME HubInv, up, handling.step # "apply", WriteSnapshot
    PROVE  Recovered' = Recovered /\ LastSeq' = LastSeq /\ DiskInv'
<1>1. /\ snap' = [seq |-> LastSeq, state |-> DurableState(registry, status, status_seq)]
      /\ tail' = <<>>
  BY DEF WriteSnapshot
<1>2. Recovered = Live /\ Kept(Live, LastSeq) /\ LastSeq \in 0..MaxSeq /\ LastSeq \in Nat
  <2>1. LastSeq \in Nat /\ LastSeq <= MaxSeq
    BY DEF HubInv, DiskInv, LastSeq
  <2> QED BY <2>1, HubAssumption DEF HubInv, DiskInv, Followed
<1>3. /\ RegistryKept(registry, LastSeq) /\ BoardKept(status, status_seq, LastSeq)
      /\ DurableState(registry, status, status_seq) \in DurableStateType
  <2>1. Live.registry = registry /\ Live.status = status /\ Live.status_seq = status_seq
    BY DEF Live
  <2> QED BY <1>2, <2>1, KeptTypes DEF Kept
<1>4. Restored' = Live
  <2>1. snap'.seq = LastSeq /\ snap'.state.registry = Dump(registry)
        /\ snap'.state.status = status /\ snap'.state.status_seq = status_seq
    BY <1>1 DEF DurableState
  <2>2. Restored' = [registry |-> Restore(Dump(registry)), status |-> status,
                     status_seq |-> [n \in Nicks |->
                         IF status[n] # None /\ status_seq[n] <= LastSeq
                         THEN status_seq[n] ELSE 0]]
    BY <2>1 DEF Restored
  <2>3. Restore(Dump(registry)) = registry
    BY <1>2, <1>3, RestoreDump
  <2>4. status_seq = [n \in Nicks |-> IF status[n] # None /\ status_seq[n] <= LastSeq
                                      THEN status_seq[n] ELSE 0]
    BY <1>3 DEF BoardKept, Dates
  <2> QED BY <2>2, <2>3, <2>4 DEF Live
<1>5. /\ Recovered' = Live
      /\ \E g : Chain(g, Restored', tail')
  BY <1>1, <1>4, ChainStarts, RecoveredNext
<1>6. LastSeq' = LastSeq
  BY <1>1, <1>2 DEF LastSeq
<1>7. snap' \in [seq : 0..MaxSeq, state : DurableStateType] /\ tail' \in Seq(Events)
  BY <1>1, <1>2, <1>3
<1>8. LastSeq' <= MaxSeq
  BY <1>2, <1>6
<1> QED BY <1>2, <1>5, <1>6, <1>7, <1>8 DEF DiskInv

-----------------------------------------------------------------------------
(* The steps. *)

\* A step that neither the disk nor a start could tell from none.
Unseen == Recovered' = Recovered /\ LastSeq' = LastSeq

\* An append between two handlers, to a process that has followed the log.
LEMMA AppendKeeps ==
    ASSUME HubInv, NEW e, AppendDurable(e), [e EXCEPT !.seq = LastSeq + 1] \in Events,
           Kept(ReplayEvent(Live, [e EXCEPT !.seq = LastSeq + 1]), LastSeq + 1)
    PROVE  /\ Recovered = Live /\ LastSeq' = LastSeq + 1 /\ up
           /\ Recovered' = ReplayEvent(Live, [e EXCEPT !.seq = LastSeq + 1])
           /\ DiskInv' /\ Live' = Live
           /\ handling' \in Handlings /\ Followed' => HubInv'
<1>1. PICK m : m = [e EXCEPT !.seq = LastSeq + 1]
  OBVIOUS
<1>2. /\ up /\ handling = Idle /\ LastSeq < MaxSeq
      /\ tail' = Append(tail, m) /\ snap' = snap
      /\ since' = since + 1 /\ up' = up
      /\ registry' = registry /\ status' = status /\ status_seq' = status_seq
  BY <1>1 DEF AppendDurable, live
<1>3. Recovered = Live
  BY <1>2 DEF HubInv, Followed, Idle
<1>4. Recovered' = ReplayEvent(Recovered, m) /\ LastSeq' = LastSeq + 1 /\ DiskInv'
  <2>1. Kept(ReplayEvent(Recovered, m), LastSeq + 1) /\ m \in Events /\ DiskInv
    BY <1>1, <1>3 DEF HubInv
  <2> QED BY <1>2, <2>1, Appends
<1>5. Live' = Live
  BY <1>2 DEF Live
<1>6. since' \in 0..LastSeq'
  <2>1. LastSeq \in Nat /\ since \in 0..LastSeq
    BY DEF HubInv, DiskInv, LastSeq
  <2> QED BY <1>2, <1>4, <2>1
<1>7. handling' \in Handlings /\ Followed' => HubInv'
  BY <1>2, <1>4, <1>6 DEF HubInv
<1> QED BY <1>1, <1>2, <1>3, <1>4, <1>5, <1>7

LEMMA HandleKeeps ==
    ASSUME HubInv, NEW e, NEW trial, Handle(e, trial),
           [e EXCEPT !.seq = LastSeq + 1] \in Mutations,
           [e EXCEPT !.seq = LastSeq + 1].seq = LastSeq + 1,
           Faithful(Live, [e EXCEPT !.seq = LastSeq + 1], trial)
    PROVE  /\ HubInv' /\ Recovered = Live /\ LastSeq' = LastSeq + 1
           /\ Recovered' = Applying(Live, [e EXCEPT !.seq = LastSeq + 1], trial)
<1>1. PICK m : m = [e EXCEPT !.seq = LastSeq + 1]
  OBVIOUS
<1>2. /\ AppendDurable(e)
      /\ handling' = [step |-> "apply", event |-> m, trial |-> trial]
  BY <1>1 DEF Handle
<1>3. /\ m \in Mutations /\ m.seq = LastSeq + 1
      /\ ReplayEvent(Live, m) = Applying(Live, m, trial)
      /\ Kept(Applying(Live, m, trial), LastSeq + 1)
      /\ Bound(registry, m, trial)
  <2>1. Live.registry = registry
    BY DEF Live
  <2> QED BY <1>1, <2>1 DEF Faithful
<1>4. trial \in RegistryType
  <2>1. Applying(Live, m, trial).registry = trial
    BY DEF Applying
  <2> QED BY <1>3, <2>1 DEF Kept, RegistryKept
<1>5. /\ Recovered = Live /\ LastSeq' = LastSeq + 1
      /\ Recovered' = Applying(Live, m, trial) /\ Live' = Live /\ DiskInv'
      /\ handling' \in Handlings /\ Followed' => HubInv'
  <2>1. m \in Events
    BY <1>3 DEF Events
  <2>2. Kept(ReplayEvent(Live, m), LastSeq + 1)
    BY <1>3
  <2> QED BY <1>1, <1>2, <1>3, <2>1, <2>2, AppendKeeps
<1>6. handling' \in Handlings
  BY <1>2, <1>3, <1>4 DEF Handlings
<1>7. /\ handling'.step = "apply" /\ handling'.event = m /\ handling'.trial = trial
  BY <1>2
<1>8. registry' = registry
  BY <1>2 DEF AppendDurable, live
<1>9. Followed'
  BY <1>3, <1>5, <1>7, <1>8 DEF Followed
<1> QED BY <1>1, <1>5, <1>6, <1>9

\* What the live state is, between two handlers.
LEMMA LiveKept ==
    ASSUME HubInv, up, handling.step # "apply"
    PROVE  /\ Recovered = Live /\ Kept(Live, LastSeq) /\ LastSeq \in Nat
           /\ Live.registry = registry /\ RegistryKept(registry, LastSeq)
BY DEF HubInv, DiskInv, Followed, Live, Kept, LastSeq

LEMMA Handling ==
    ASSUME NEW e, NEW trial, Handle(e, trial)
    PROVE  up /\ handling.step # "apply"
BY DEF Handle, AppendDurable, Idle

-----------------------------------------------------------------------------
(* The handlers, and the changes of the roster they are. *)

\* The operators of Registry, through the Roster.
LEMMA SameEntry ==
    ASSUME NEW r, NEW n, NEW i, NEW a
    PROVE  /\ RosterSpec!Hello(r, n, i) = Hello(r, n, i)
           /\ RosterSpec!OpenHello(r, n, i, a) = OpenHello(r, n, i, a)
           /\ RosterSpec!OpenHelloAllowed(r, n, i, a) = OpenHelloAllowed(r, n, i, a)
           /\ RosterSpec!Tokens = Tokens
           /\ RosterSpec!Peers = PeerAddrs
<1>1. RosterSpec!Bump(r, n, i) = Bump(r, n, i) /\ RosterSpec!Enrol(r, n) = Enrol(r, n)
  BY DEF RosterSpec!Bump, Bump, RosterSpec!Put, Put, RosterSpec!Enrol, Enrol,
         RosterSpec!Known, Known
<1>2. RosterSpec!Hello(r, n, i) = Hello(r, n, i)
  BY <1>1 DEF RosterSpec!Hello, Hello
<1>3. RosterSpec!OpenHello(r, n, i, a) = OpenHello(r, n, i, a)
  BY DEF RosterSpec!OpenHello, OpenHello, RosterSpec!Bump, Bump, RosterSpec!Put, Put,
         RosterSpec!Enrol, Enrol, RosterSpec!Known, Known, RosterSpec!Pin, Pin
<1>4. RosterSpec!OpenHelloAllowed(r, n, i, a) = OpenHelloAllowed(r, n, i, a)
  BY DEF RosterSpec!OpenHelloAllowed, OpenHelloAllowed
<1>5. RosterSpec!Tokens = Tokens /\ RosterSpec!Peers = PeerAddrs
  BY DEF RosterSpec!Tokens, Tokens, RosterSpec!Peers, PeerAddrs
<1> QED BY <1>2, <1>3, <1>4, <1>5

LEMMA SameStanding ==
    ASSUME NEW r, NEW n, NEW gs
    PROVE  /\ RosterSpec!Known(r, n) = Known(r, n)
           /\ RosterSpec!HasEntered(r, n) = HasEntered(r, n)
           /\ RosterSpec!IsModerator(r, n) = IsModerator(r, n)
           /\ RosterSpec!Release(r, n) = Release(r, n)
           /\ RosterSpec!SetGroups(r, n, gs) = SetGroups(r, n, gs)
           /\ RosterSpec!FromTokens = FromTokens
BY DEF RosterSpec!Known, Known, RosterSpec!HasEntered, HasEntered, RosterSpec!IsModerator,
       IsModerator, RosterSpec!Release, Release, RosterSpec!SetGroups, SetGroups,
       RosterSpec!Put, Put, RosterSpec!FromTokens, FromTokens

LEMMA SameDict ==
    ASSUME NEW d, NEW n, NEW v
    PROVE  RosterSpec!Put(d, n, v) = Put(d, n, v)
BY DEF RosterSpec!Put, Put

\* An event that is none of a status leaves the board alone.
LEMMA OnlyRegistry ==
    ASSUME NEW e, NEW trial, e.type # "status",
           Recovered = Live, Recovered' = Applying(Live, e, trial)
    PROVE  /\ Recovered.registry = registry /\ Recovered'.registry = trial
           /\ Recovered'.status = Recovered.status
           /\ Recovered'.status_seq = Recovered.status_seq
BY DEF Applying, Live

LEMMA TokenStep ==
    ASSUME HubInv, NEW n \in Nicks, NEW i \in Instances, HelloWithToken(n, i)
    PROVE  HubInv' /\ RosterSpec!Enter(n, i)
<1>1. PICK trial : trial = Hello(registry, n, i)
  OBVIOUS
<1>2. n \in Tokens /\ Handle(HelloEvent(n, i, None), trial)
  BY <1>1 DEF HelloWithToken
<1>3. /\ Kept(Live, LastSeq) /\ LastSeq \in Nat
      /\ Live.registry = registry /\ RegistryKept(registry, LastSeq)
  BY <1>2, Handling, LiveKept
<1>4. Faithful(Live, [HelloEvent(n, i, None) EXCEPT !.seq = LastSeq + 1], trial)
  <2>1. trial = OpenHello(Live.registry, n, i, None)
    BY <1>1, <1>2, <1>3, TokenHello
  <2> QED BY <1>3, <2>1, HelloFaithful
<1> DEFINE e == [HelloEvent(n, i, None) EXCEPT !.seq = LastSeq + 1]
<1>5. e \in Mutations /\ e.seq = LastSeq + 1 /\ e.type = "hello"
  BY <1>3 DEF HelloEvent, Mutations
<1>6. /\ HubInv' /\ Recovered = Live /\ LastSeq' = LastSeq + 1
      /\ Recovered' = Applying(Live, e, trial)
  BY <1>2, <1>4, <1>5, HandleKeeps
<1>7. /\ Recovered.registry = registry /\ Recovered'.registry = trial
      /\ Recovered'.status = Recovered.status
      /\ Recovered'.status_seq = Recovered.status_seq
  <2> HIDE DEF e
  <2> QED BY <1>5, <1>6, OnlyRegistry
<1>8. n \in RosterSpec!Tokens /\ Recovered'.registry = RosterSpec!Hello(Recovered.registry, n, i)
  BY <1>1, <1>2, <1>7, SameEntry
<1> QED BY <1>6, <1>7, <1>8 DEF RosterSpec!Enter

LEMMA OpenStep ==
    ASSUME HubInv, NEW n \in Nicks, NEW i \in Instances, NEW a \in PeerAddrs, HelloOpen(n, i, a)
    PROVE  HubInv' /\ RosterSpec!Enter(n, i)
<1>1. PICK trial : trial = OpenHello(registry, n, i, a)
  OBVIOUS
<1>2. OpenMode /\ OpenHelloAllowed(registry, n, i, a) /\ Handle(HelloEvent(n, i, a), trial)
  BY <1>1 DEF HelloOpen
<1>3. /\ Kept(Live, LastSeq) /\ LastSeq \in Nat
      /\ Live.registry = registry /\ RegistryKept(registry, LastSeq)
  BY <1>2, Handling, LiveKept
<1>4. a \in Addrs \cup {None}
  BY DEF PeerAddrs
<1>5. Faithful(Live, [HelloEvent(n, i, a) EXCEPT !.seq = LastSeq + 1], trial)
  BY <1>1, <1>2, <1>3, <1>4, HelloFaithful DEF OpenHelloAllowed
<1> DEFINE e == [HelloEvent(n, i, a) EXCEPT !.seq = LastSeq + 1]
<1>6. e \in Mutations /\ e.seq = LastSeq + 1 /\ e.type = "hello"
  BY <1>3, <1>4 DEF HelloEvent, Mutations
<1>7. /\ HubInv' /\ Recovered = Live /\ LastSeq' = LastSeq + 1
      /\ Recovered' = Applying(Live, e, trial)
  BY <1>2, <1>5, <1>6, HandleKeeps
<1>8. /\ Recovered.registry = registry /\ Recovered'.registry = trial
      /\ Recovered'.status = Recovered.status
      /\ Recovered'.status_seq = Recovered.status_seq
  <2> HIDE DEF e
  <2> QED BY <1>6, <1>7, OnlyRegistry
<1>9. /\ a \in RosterSpec!Peers
      /\ RosterSpec!OpenHelloAllowed(Recovered.registry, n, i, a)
      /\ Recovered'.registry = RosterSpec!OpenHello(Recovered.registry, n, i, a)
  BY <1>1, <1>2, <1>8, SameEntry
<1> QED BY <1>2, <1>7, <1>8, <1>9 DEF RosterSpec!Enter

LEMMA KickStep ==
    ASSUME HubInv, NEW by \in Nicks, NEW n \in Nicks, Kick(by, n)
    PROVE  HubInv' /\ RosterSpec!Free(by, n)
<1>1. PICK trial : trial = Release(registry, n)
  OBVIOUS
<1>2. /\ IsModerator(registry, by) /\ Known(registry, n)
      /\ Handle([type |-> "kick", seq |-> 0, nick |-> n], trial)
  BY <1>1 DEF Kick
<1>3. /\ Kept(Live, LastSeq) /\ LastSeq \in Nat
      /\ Live.registry = registry /\ RegistryKept(registry, LastSeq)
  BY <1>2, Handling, LiveKept
<1> DEFINE e == [[type |-> "kick", seq |-> 0, nick |-> n] EXCEPT !.seq = LastSeq + 1]
<1>4. e = [type |-> "kick", seq |-> LastSeq + 1, nick |-> n]
  OBVIOUS
<1>5. e \in Mutations /\ e.seq = LastSeq + 1 /\ e.type = "kick"
  BY <1>3, <1>4 DEF Mutations
<1>6. Faithful(Live, e, trial)
  <2> HIDE DEF e
  <2> QED BY <1>1, <1>3, <1>4, KickFaithful
<1>7. /\ HubInv' /\ Recovered = Live /\ LastSeq' = LastSeq + 1
      /\ Recovered' = Applying(Live, e, trial)
  BY <1>2, <1>5, <1>6, HandleKeeps
<1> HIDE DEF e
<1>8. /\ Recovered.registry = registry /\ Recovered'.registry = trial
      /\ Recovered'.status = Recovered.status
      /\ Recovered'.status_seq = Recovered.status_seq
  BY <1>5, <1>7, OnlyRegistry
<1>9. /\ RosterSpec!IsModerator(Recovered.registry, by) /\ RosterSpec!Known(Recovered.registry, n)
      /\ Recovered'.registry = RosterSpec!Release(Recovered.registry, n)
  BY <1>1, <1>2, <1>8, SameStanding
<1> QED BY <1>7, <1>8, <1>9 DEF RosterSpec!Free

LEMMA SetStep ==
    ASSUME HubInv, NEW by \in Nicks, NEW n \in Nicks, NEW gs \in SUBSET Groups,
           MembershipSet(by, n, gs)
    PROVE  HubInv' /\ RosterSpec!Assign(by, n, gs)
<1>1. PICK trial : trial = SetGroups(registry, n, gs)
  OBVIOUS
<1>2. /\ IsModerator(registry, by) /\ SetGroupsAllowed(registry, n)
      /\ Handle([type |-> "membership_set", seq |-> 0, nick |-> n, groups |-> gs], trial)
  BY <1>1 DEF MembershipSet
<1>3. /\ Kept(Live, LastSeq) /\ LastSeq \in Nat
      /\ Live.registry = registry /\ RegistryKept(registry, LastSeq)
  BY <1>2, Handling, LiveKept
<1> DEFINE e == [[type |-> "membership_set", seq |-> 0, nick |-> n, groups |-> gs]
                    EXCEPT !.seq = LastSeq + 1]
<1>4. e = [type |-> "membership_set", seq |-> LastSeq + 1, nick |-> n, groups |-> gs]
  OBVIOUS
<1>5. e \in Mutations /\ e.seq = LastSeq + 1 /\ e.type = "membership_set"
  BY <1>3, <1>4 DEF Mutations
<1>6. Faithful(Live, e, trial)
  <2> HIDE DEF e
  <2> QED BY <1>1, <1>2, <1>3, <1>4, SetFaithful
<1>7. /\ HubInv' /\ Recovered = Live /\ LastSeq' = LastSeq + 1
      /\ Recovered' = Applying(Live, e, trial)
  BY <1>2, <1>5, <1>6, HandleKeeps
<1> HIDE DEF e
<1>8. /\ Recovered.registry = registry /\ Recovered'.registry = trial
      /\ Recovered'.status = Recovered.status
      /\ Recovered'.status_seq = Recovered.status_seq
  BY <1>5, <1>7, OnlyRegistry
<1>9. /\ RosterSpec!IsModerator(Recovered.registry, by) /\ RosterSpec!Known(Recovered.registry, n)
      /\ Recovered'.registry = RosterSpec!SetGroups(Recovered.registry, n, gs)
  BY <1>1, <1>2, <1>8, SameStanding DEF SetGroupsAllowed
<1> QED BY <1>7, <1>8, <1>9 DEF RosterSpec!Assign

LEMMA StatusStep ==
    ASSUME HubInv, NEW by \in Nicks, NEW n \in Nicks, NEW text \in Texts, Status(by, n, text)
    PROVE  HubInv' /\ RosterSpec!Declare(by, n, text)
<1>1. PICK trial : trial = registry
  OBVIOUS
<1>2. /\ HasEntered(registry, by)
      /\ by = n \/ IsModerator(registry, by)
      /\ Handle([type |-> "status", seq |-> 0, nick |-> n, text |-> text], trial)
  BY <1>1 DEF Status
<1>3. /\ Kept(Live, LastSeq) /\ LastSeq \in Nat
      /\ Live.registry = registry /\ RegistryKept(registry, LastSeq)
  BY <1>2, Handling, LiveKept
<1> DEFINE e == [[type |-> "status", seq |-> 0, nick |-> n, text |-> text]
                    EXCEPT !.seq = LastSeq + 1]
<1>4. e = [type |-> "status", seq |-> LastSeq + 1, nick |-> n, text |-> text]
  OBVIOUS
<1>5. e \in Mutations /\ e.seq = LastSeq + 1
  BY <1>3, <1>4 DEF Mutations
<1>6. Faithful(Live, e, trial)
  <2> HIDE DEF e
  <2> QED BY <1>1, <1>3, <1>4, StatusFaithful
<1>7. /\ HubInv' /\ Recovered = Live /\ LastSeq' = LastSeq + 1
      /\ Recovered' = Applying(Live, e, trial)
  BY <1>2, <1>5, <1>6, HandleKeeps
<1>8. e.type = "status" /\ e.nick = n /\ e.text = text /\ e.seq = LastSeq + 1
  BY <1>4
<1> HIDE DEF e
<1>9. /\ Recovered.registry = registry /\ Recovered'.registry = Recovered.registry
      /\ Recovered'.status = Put(Recovered.status, n, text)
      /\ Recovered'.status_seq = Put(Recovered.status_seq, n, LastSeq + 1)
  BY <1>1, <1>7, <1>8 DEF Applying, Live
<1>10. /\ RosterSpec!HasEntered(Recovered.registry, by)
       /\ by = n \/ RosterSpec!IsModerator(Recovered.registry, by)
  BY <1>2, <1>9, SameStanding
<1>11. /\ Recovered'.status = RosterSpec!Put(Recovered.status, n, text)
       /\ Recovered'.status_seq = RosterSpec!Put(Recovered.status_seq, n, LastSeq + 1)
  BY <1>9, SameDict
<1> QED BY <1>7, <1>9, <1>10, <1>11 DEF RosterSpec!Declare

LEMMA RecordStep ==
    ASSUME HubInv, NEW step \in {"settle", "idle"}, Record(step)
    PROVE  HubInv' /\ RosterSpec!Talk
<1> DEFINE e == [type |-> "talk", seq |-> 0]
           m == [e EXCEPT !.seq = LastSeq + 1]
<1>1. AppendDurable(e) /\ handling' = [step |-> step]
  BY DEF Record
<1>2. Recovered = Live /\ Kept(Live, LastSeq) /\ LastSeq \in Nat
  <2>1. up /\ handling.step # "apply"
    BY <1>1 DEF AppendDurable, Idle
  <2> QED BY <2>1, LiveKept
<1>3. m \in Events /\ m.type = "talk"
  BY <1>2 DEF Events
<1>4. ReplayEvent(Live, m) = Live
  <2> HIDE DEF m
  <2> QED BY <1>3 DEF ReplayEvent
<1>5. Kept(ReplayEvent(Live, m), LastSeq + 1)
  BY <1>2, <1>4, KeptLonger
<1>6. /\ LastSeq' = LastSeq + 1 /\ Recovered' = Live /\ Live' = Live
      /\ handling' \in Handlings /\ Followed' => HubInv'
  <2> HIDE DEF e
  <2> QED BY <1>1, <1>3, <1>4, <1>5, AppendKeeps
<1>7. handling' \in Handlings /\ handling'.step # "apply"
  BY <1>1 DEF Handlings, Idle
<1>8. HubInv'
  BY <1>6, <1>7 DEF Followed
<1> QED BY <1>2, <1>6, <1>8 DEF RosterSpec!Talk

-----------------------------------------------------------------------------
(* Starts, snapshots and ends, which a start could not tell from nothing. *)

LEMMA StartStep ==
    ASSUME HubInv, Start
    PROVE  HubInv' /\ Unseen
<1>1. /\ up' = TRUE /\ handling' = Idle /\ since' = Len(tail)
      /\ registry' = Recovered.registry /\ status' = Recovered.status
      /\ status_seq' = Recovered.status_seq
  BY DEF Start
<1>2. Recovered' = Recovered /\ LastSeq' = LastSeq /\ DiskInv'
  BY SameDisk DEF Start, HubInv
<1>3. Kept(Recovered, LastSeq) /\ LastSeq \in 0..MaxSeq /\ Len(tail) \in 0..LastSeq
  BY HubAssumption DEF HubInv, DiskInv, LastSeq
<1>4. /\ registry' \in RegistryType /\ status' \in Board /\ status_seq' \in [Nicks -> 0..MaxSeq]
  BY <1>1, <1>3, KeptTypes
<1>5. Recovered' = Live'
  BY <1>1, <1>2, <1>3 DEF Live, Kept, Standings
<1>6. handling' \in Handlings /\ Followed'
  BY <1>1, <1>5 DEF Handlings, Followed, Idle
<1>7. since' \in 0..LastSeq'
  BY <1>1, <1>2, <1>3
<1> QED BY <1>1, <1>2, <1>4, <1>6, <1>7 DEF HubInv, Unseen

LEMMA ApplyStep ==
    ASSUME HubInv, Apply
    PROVE  HubInv' /\ Unseen
<1>1. /\ up /\ up' = up /\ handling.step = "apply" /\ since' = since
      /\ Recovered' = Recovered /\ LastSeq' = LastSeq /\ DiskInv'
  BY SameDisk DEF Apply, HubInv
<1>2. Recovered = Applying(Live, handling.event, handling.trial)
  BY <1>1 DEF HubInv, Followed
<1>3. Live' = Applying(Live, handling.event, handling.trial)
  BY DEF Apply, Live, Applying
<1>4. handling' \in {Idle, [step |-> "settle"]}
  BY DEF Apply
<1>5. Followed' /\ handling' \in Handlings
  BY <1>1, <1>2, <1>3, <1>4 DEF Followed, Handlings, Idle
<1>6. registry' \in RegistryType /\ status' \in Board /\ status_seq' \in [Nicks -> 0..MaxSeq]
  <2>1. Kept(Recovered, LastSeq) /\ LastSeq \in 0..MaxSeq
    BY HubAssumption DEF HubInv, DiskInv, LastSeq
  <2>2. /\ Recovered.registry = registry' /\ Recovered.status = status'
        /\ Recovered.status_seq = status_seq'
    BY <1>2, <1>3 DEF Live
  <2> QED BY <2>1, <2>2, KeptTypes
<1> QED BY <1>1, <1>5, <1>6 DEF HubInv, Unseen

\* A snapshot, or the attempt at one, between two handlers.
LEMMA SnapshotStep ==
    ASSUME HubInv, up, handling.step # "apply", UNCHANGED <<up, live>>,
           TakeSnapshot \/ UNCHANGED <<disk, since>>,
           handling' \in Handlings, handling'.step # "apply"
    PROVE  HubInv' /\ Unseen
<1>1. Recovered' = Recovered /\ LastSeq' = LastSeq /\ DiskInv'
  <2>1. WriteSnapshot \/ UNCHANGED disk
    BY DEF TakeSnapshot
  <2>2. CASE WriteSnapshot
    BY <2>2, Snapshots
  <2>3. CASE UNCHANGED disk
    BY <2>3, SameDisk DEF HubInv
  <2> QED BY <2>1, <2>2, <2>3
<1>2. since' \in 0..LastSeq'
  <2>1. LastSeq \in Nat /\ since \in 0..LastSeq
    BY DEF HubInv, DiskInv, LastSeq
  <2>2. since' = 0 \/ since' = since
    BY DEF TakeSnapshot
  <2> QED BY <1>1, <2>1, <2>2
<1>3. /\ registry' = registry /\ status' = status /\ status_seq' = status_seq /\ up' = up
  BY DEF live
<1>4. Followed'
  <2>1. Recovered = Live
    BY LiveKept
  <2>2. Live' = Live
    BY <1>3 DEF Live
  <2> QED BY <1>1, <2>1, <2>2 DEF Followed
<1> QED BY <1>1, <1>2, <1>3, <1>4 DEF HubInv, Unseen

LEMMA SettleStep ==
    ASSUME HubInv, Settle
    PROVE  HubInv' /\ Unseen
<1>1. /\ up /\ handling.step # "apply" /\ UNCHANGED <<up, live>> /\ handling' = Idle
      /\ TakeSnapshot \/ UNCHANGED <<disk, since>>
  BY DEF Settle
<1>2. handling' \in Handlings /\ handling'.step # "apply"
  BY <1>1 DEF Handlings, Idle
<1> QED BY <1>1, <1>2, SnapshotStep

LEMMA SnapshotForHelloStep ==
    ASSUME HubInv, SnapshotForHello
    PROVE  HubInv' /\ Unseen
<1>1. /\ up /\ handling = Idle /\ UNCHANGED <<up, live>> /\ handling' = handling
      /\ TakeSnapshot
  BY DEF SnapshotForHello
<1>2. handling.step # "apply" /\ handling' \in Handlings /\ handling'.step # "apply"
  BY <1>1 DEF Handlings, Idle
<1> QED BY <1>1, <1>2, SnapshotStep

\* Without a process only the disk says anything.
LEMMA Forgotten ==
    ASSUME HubInv, DiskInv', LastSeq' = LastSeq, up' = FALSE, ForgetLive
    PROVE  HubInv'
<1>1. /\ registry' = FromTokens /\ status' = NoStatus /\ status_seq' = NoDates
      /\ since' = 0 /\ handling' = Idle
  BY DEF ForgetLive
<1>2. FromTokens \in RegistryType /\ NoStatus \in Board /\ NoDates \in [Nicks -> 0..MaxSeq]
  BY TokensKept, HubAssumption DEF RegistryKept, NoStatus, NoDates, Board
<1>3. 0 \in 0..LastSeq' /\ Idle \in Handlings
  BY DEF HubInv, DiskInv, LastSeq, Handlings
<1> QED BY <1>1, <1>2, <1>3 DEF HubInv

LEMMA StopStep ==
    ASSUME HubInv, Stop
    PROVE  HubInv' /\ Unseen
<1>1. /\ up /\ handling.step # "apply" /\ up' = FALSE /\ ForgetLive
      /\ WriteSnapshot \/ UNCHANGED disk
  BY DEF Stop, Idle
<1>2. Recovered' = Recovered /\ LastSeq' = LastSeq /\ DiskInv'
  <2>1. CASE WriteSnapshot
    BY <1>1, <2>1, Snapshots
  <2>2. CASE UNCHANGED disk
    BY <2>2, SameDisk DEF HubInv
  <2> QED BY <1>1, <2>1, <2>2
<1> QED BY <1>1, <1>2, Forgotten DEF Unseen

LEMMA CrashStep ==
    ASSUME HubInv, Crash
    PROVE  HubInv' /\ Unseen
<1>1. up' = FALSE /\ ForgetLive /\ UNCHANGED disk
  BY DEF Crash
<1>2. Recovered' = Recovered /\ LastSeq' = LastSeq /\ DiskInv'
  BY <1>1, SameDisk DEF HubInv
<1> QED BY <1>1, <1>2, Forgotten DEF Unseen

\* A room without a past is what tokens.json says.
LEMMA StartOfRoom ==
    ASSUME Init
    PROVE  HubInv /\ RosterSpec!Init
<1> DEFINE st == [registry |-> FromTokens, status |-> NoStatus, status_seq |-> NoDates]
<1>1. /\ snap = [seq |-> 0, state |-> DurableState(FromTokens, NoStatus, NoDates)]
      /\ tail = <<>> /\ up = FALSE
      /\ registry = FromTokens /\ status = NoStatus /\ status_seq = NoDates
      /\ since = 0 /\ handling = Idle
  BY DEF Init
<1>2. Kept(st, 0)
  <2>1. BoardKept(NoStatus, NoDates, 0)
    BY DEF BoardKept, NoStatus, NoDates, Board, Dates
  <2> QED BY <2>1, TokensKept DEF Kept, Standings, RegistryKept, BoardKept
<1>3. LastSeq = 0 /\ 0 \in 0..MaxSeq
  BY <1>1, HubAssumption DEF LastSeq
<1>4. Restored = st
  <2>1. Restored = [registry |-> Restore(Dump(FromTokens)), status |-> NoStatus,
                    status_seq |-> [n \in Nicks |->
                        IF NoStatus[n] # None /\ NoDates[n] <= 0 THEN NoDates[n] ELSE 0]]
    BY <1>1 DEF Restored, DurableState
  <2>2. Restore(Dump(FromTokens)) = FromTokens
    BY TokensKept, RestoreDump
  <2>3. NoDates = [n \in Nicks |->
                        IF NoStatus[n] # None /\ NoDates[n] <= 0 THEN NoDates[n] ELSE 0]
    BY DEF NoStatus, NoDates
  <2> QED BY <2>1, <2>2, <2>3
<1>5. Recovered = st /\ \E g : Chain(g, Restored, tail)
  BY <1>1, <1>4, ChainStarts, RecoveredIs
<1>6. /\ st.registry \in RegistryType /\ st.status \in Board
      /\ st.status_seq \in [Nicks -> 0..MaxSeq]
      /\ DurableState(st.registry, st.status, st.status_seq) \in DurableStateType
  BY <1>2, <1>3, KeptTypes
<1>7. DiskInv
  BY <1>1, <1>2, <1>3, <1>5, <1>6 DEF DiskInv
<1>8. HubInv
  <2>1. /\ registry \in RegistryType /\ status \in Board /\ status_seq \in [Nicks -> 0..MaxSeq]
    BY <1>1, <1>6
  <2>2. since \in 0..LastSeq /\ handling \in Handlings /\ up = FALSE
    BY <1>1, <1>3 DEF Handlings
  <2> QED BY <1>7, <2>1, <2>2 DEF HubInv
<1>9. RosterSpec!Init
  BY <1>3, <1>5, SameStanding DEF RosterSpec!Init, NoStatus, NoDates
<1> QED BY <1>8, <1>9

-----------------------------------------------------------------------------
(* The theorems. *)

LEMMA EveryStep ==
    ASSUME HubInv, [Next]_vars
    PROVE  HubInv' /\ (RosterSpec!Next \/ Unseen)
<1>1. CASE Start
  BY <1>1, StartStep
<1>2. ASSUME NEW n \in Nicks, NEW i \in Instances, HelloWithToken(n, i)
      PROVE  HubInv' /\ RosterSpec!Next
  BY <1>2, TokenStep DEF RosterSpec!Next
<1>3. ASSUME NEW n \in Nicks, NEW i \in Instances, NEW a \in PeerAddrs, HelloOpen(n, i, a)
      PROVE  HubInv' /\ RosterSpec!Next
  BY <1>3, OpenStep DEF RosterSpec!Next
<1>4. ASSUME NEW by \in Nicks, NEW n \in Nicks, Kick(by, n)
      PROVE  HubInv' /\ RosterSpec!Next
  BY <1>4, KickStep DEF RosterSpec!Next
<1>5. ASSUME NEW by \in Nicks, NEW n \in Nicks, NEW gs \in SUBSET Groups, MembershipSet(by, n, gs)
      PROVE  HubInv' /\ RosterSpec!Next
  BY <1>5, SetStep DEF RosterSpec!Next
<1>6. ASSUME NEW by \in Nicks, NEW n \in Nicks, NEW text \in Texts, Status(by, n, text)
      PROVE  HubInv' /\ RosterSpec!Next
  BY <1>6, StatusStep DEF RosterSpec!Next
<1>7. ASSUME NEW step \in {"settle", "idle"}, Record(step)
      PROVE  HubInv' /\ RosterSpec!Next
  BY <1>7, RecordStep DEF RosterSpec!Next
<1>8. CASE Apply
  BY <1>8, ApplyStep
<1>9. CASE Settle
  BY <1>9, SettleStep
<1>10. CASE SnapshotForHello
  BY <1>10, SnapshotForHelloStep
<1>11. CASE Stop
  BY <1>11, StopStep
<1>12. CASE Crash
  BY <1>12, CrashStep
<1>13. CASE UNCHANGED vars
  <2>1. UNCHANGED disk /\ UNCHANGED <<registry, status, status_seq, up, since, handling>>
    BY <1>13 DEF vars, live
  <2>2. Recovered' = Recovered /\ LastSeq' = LastSeq /\ DiskInv'
    BY <2>1, SameDisk DEF HubInv
  <2>3. Live' = Live
    BY <2>1 DEF Live
  <2> QED BY <2>1, <2>2, <2>3 DEF HubInv, Followed, Unseen
<1> QED BY <1>1, <1>2, <1>3, <1>4, <1>5, <1>6, <1>7, <1>8, <1>9, <1>10, <1>11, <1>12, <1>13
        DEF Next

THEOREM HubInvariant == Spec => []HubInv
<1>1. HubInv /\ [Next]_vars => HubInv'
  BY EveryStep
<1> QED BY <1>1, StartOfRoom, PTL DEF Spec

\* The type invariant, the bounds on seqs and generations included.
THEOREM TypesHold == Spec => []TypeOK
BY HubInvariant, HubInvTypes, PTL

\* Between two handlers the live registry and board are what a start would make of
\* the disk, whatever was appended, snapshotted or lost with the process before.
THEOREM NothingIsLost == Spec => []LiveIsRecovered
BY HubInvariant, HubInvTypes, PTL

\* Who holds a name at which address: the process, or what it would start with.
LEMMA HeldStep ==
    ASSUME HubInv, [Next]_vars
    PROVE  \A n \in Nicks :
              Held[n] # None /\ Held'[n] # Held[n] => Held'[n] = None /\ BeingKicked(n)
<1>1. CASE Start
  <2>1. Held = Recovered.registry.addr /\ Held' = Recovered.registry.addr
    BY <1>1 DEF Held, Start
  <2> QED BY <2>1
<1>2. CASE Apply
  <2>1. /\ up /\ up' = up /\ registry' = handling.trial /\ handling.step = "apply"
    BY <1>2 DEF Apply
  <2>2. Held = registry.addr /\ Held' = handling.trial.addr
    BY <2>1 DEF Held
  <2>3. Bound(registry, handling.event, handling.trial)
    BY <2>1 DEF HubInv, Followed
  <2> QED BY <2>1, <2>2, <2>3 DEF Bound, BeingKicked
<1>3. CASE Stop
  <2>1. up /\ handling.step # "apply" /\ up' = FALSE
    BY <1>3 DEF Stop, Idle
  <2>2. Recovered' = Recovered /\ Recovered = Live
    BY <1>3, <2>1, StopStep, LiveKept DEF Unseen
  <2>3. Held = registry.addr /\ Held' = registry.addr
    BY <2>1, <2>2 DEF Held, Live
  <2> QED BY <2>3
<1>4. CASE Crash
  <2>1. up /\ up' = FALSE /\ Recovered' = Recovered
    BY <1>4, CrashStep DEF Crash, Unseen
  <2>2. Held = registry.addr /\ Held' = Recovered.registry.addr
    BY <2>1 DEF Held
  <2>3. CASE handling.step = "apply"
    <3>1. /\ Recovered = Applying(Live, handling.event, handling.trial)
          /\ Bound(registry, handling.event, handling.trial)
      BY <2>1, <2>3 DEF HubInv, Followed
    <3>2. Held' = handling.trial.addr
      BY <2>2, <3>1 DEF Applying
    <3> QED BY <2>2, <2>3, <3>1, <3>2 DEF Bound, BeingKicked
  <2>4. CASE handling.step # "apply"
    <3>1. Recovered = Live
      BY <2>1, <2>4, LiveKept
    <3>2. Held' = Held
      BY <2>2, <3>1 DEF Live
    <3> QED BY <3>2
  <2> QED BY <2>3, <2>4
<1>5. ASSUME up, up' = up, registry' = registry
      PROVE  Held' = Held
  BY <1>5 DEF Held
<1>6. ASSUME NEW e, NEW trial, Handle(e, trial)
      PROVE  Held' = Held
  BY <1>5, <1>6 DEF Handle, AppendDurable, live
<1>7. ASSUME NEW n \in Nicks, NEW i \in Instances, HelloWithToken(n, i)
      PROVE  Held' = Held
  BY <1>6, <1>7 DEF HelloWithToken
<1>8. ASSUME NEW n \in Nicks, NEW i \in Instances, NEW a \in PeerAddrs, HelloOpen(n, i, a)
      PROVE  Held' = Held
  BY <1>6, <1>8 DEF HelloOpen
<1>9. ASSUME NEW by \in Nicks, NEW n \in Nicks, Kick(by, n)
      PROVE  Held' = Held
  BY <1>6, <1>9 DEF Kick
<1>10. ASSUME NEW by \in Nicks, NEW n \in Nicks, NEW gs \in SUBSET Groups, MembershipSet(by, n, gs)
       PROVE  Held' = Held
  BY <1>6, <1>10 DEF MembershipSet
<1>11. ASSUME NEW by \in Nicks, NEW n \in Nicks, NEW text \in Texts, Status(by, n, text)
       PROVE  Held' = Held
  BY <1>6, <1>11 DEF Status
<1>12. ASSUME NEW step \in {"settle", "idle"}, Record(step)
       PROVE  Held' = Held
  BY <1>5, <1>12 DEF Record, AppendDurable, live
<1>13. ASSUME Settle \/ SnapshotForHello
       PROVE  Held' = Held
  BY <1>5, <1>13 DEF Settle, SnapshotForHello, live
<1>14. ASSUME UNCHANGED vars
       PROVE  Held' = Held
  <2>1. UNCHANGED disk /\ UNCHANGED <<registry, up>>
    BY <1>14 DEF vars, live
  <2>2. Recovered' = Recovered
    BY <2>1, SameDisk
  <2> QED BY <2>1, <2>2 DEF Held
<1>15. Held' = Held \/ Start \/ Apply \/ Stop \/ Crash
  BY <1>7, <1>8, <1>9, <1>10, <1>11, <1>12, <1>13, <1>14 DEF Next
<1> QED BY <1>1, <1>2, <1>3, <1>4, <1>15

\* No restart, crash, snapshot or second entry moves a name from one address to
\* another or frees it; a kick does, and it frees it.
THEOREM BindingsHold == Spec => BindingHeld
<1>1. HubInv /\ [Next]_vars =>
        [\A n \in Nicks :
            Held[n] # None /\ Held'[n] # Held[n] => Held'[n] = None /\ BeingKicked(n)]_vars
  BY HeldStep
<1> QED BY <1>1, HubInvariant, PTL DEF Spec, BindingHeld

\* Seen from the disk every handler is one change of the roster, at its append, and
\* snapshots, starts, stops and crashes are none.
THEOREM RosterIsImplemented == Spec => ImplementsRoster
<1>1. Init => RosterSpec!Init
  BY StartOfRoom
<1>2. HubInv /\ [Next]_vars => [RosterSpec!Next]_(RosterSpec!vars)
  BY EveryStep DEF RosterSpec!vars, Unseen
<1> QED BY <1>1, <1>2, HubInvariant, PTL DEF Spec, ImplementsRoster, RosterSpec!Spec
=============================================================================
