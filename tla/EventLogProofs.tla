--------------------------- MODULE EventLogProofs ---------------------------
(***************************************************************************)
(* Theorems about EventLog for every window size, every number of calls    *)
(* and, unless a theorem says otherwise, every failure of an append.       *)
(***************************************************************************)
EXTENDS EventLog, TLAPS, FiniteSetTheorems

-----------------------------------------------------------------------------
(* Maxima.  RecoveredSeq is a CHOOSE: it means something only because the  *)
(* seqs on disk are bounded.                                               *)

LessThan == {ss \in Nat \X Nat : ss[1] < ss[2]}

LEMMA LessThanWF == IsWellFoundedOn(LessThan, Nat)
BY NatLessThanWellFounded DEF OpToRel, LessThan

\* A nonempty set of naturals with an upper bound contains its maximum.
LEMMA MaxExists ==
    ASSUME NEW S, S \subseteq Nat, S # {}, NEW b \in Nat, \A s \in S : s <= b
    PROVE  \E m \in S : \A s \in S : s <= m
<1> DEFINE U == {n \in Nat : \A s \in S : s <= n}
<1>1. U \subseteq Nat /\ U # {}
  OBVIOUS
<1>2. PICK m \in U : \A y \in U : ~ (<<y, m>> \in LessThan)
  <2> HIDE DEF U
  <2> QED BY <1>1, LessThanWF, WFMin
<1>3. \A y \in U : ~ (y < m)
  BY <1>1, <1>2 DEF LessThan
<1>4. m \in S
  <2>1. SUFFICES ASSUME m \notin S PROVE FALSE
    OBVIOUS
  <2>2. m - 1 \in Nat /\ \A s \in S : s <= m - 1
    <3>1. \A s \in S : s < m
      BY <2>1, <1>2
    <3>2. PICK s \in S : s < m
      BY <3>1
    <3> QED BY <3>1, <3>2
  <2>3. m - 1 \in U
    BY <2>2
  <2> QED BY <2>3, <1>3
<1> QED BY <1>4

-----------------------------------------------------------------------------
(* Type correctness.  No seq exceeds the number of calls: with the types,  *)
(* that is what makes RecoveredSeq a number.                               *)

SeqsBounded ==
    /\ last_seq <= calls
    /\ snapshot.seq <= calls
    /\ \A e \in Readable \cup events : e.seq <= calls

TypeInv == TypeOK /\ SeqsBounded

\* The counter of a bounded log: the label or the seq of a line, and at least
\* every one of them.
LEMMA TopSeqExists ==
    ASSUME NEW label \in Nat, NEW E, NEW b \in Nat,
           label <= b, \A e \in E : e.seq \in Nat /\ e.seq <= b,
           \A e \in E : label < e.seq
    PROVE  /\ TopSeq(label, E) \in {label} \cup {e.seq : e \in E}
           /\ TopSeq(label, E) \in Nat
           /\ TopSeq(label, E) <= b
           /\ label <= TopSeq(label, E)
           /\ \A e \in E : e.seq <= TopSeq(label, E)
<1> DEFINE S == {label} \cup {e.seq : e \in E}
<1>1. S \subseteq Nat /\ S # {} /\ \A s \in S : s <= b
  OBVIOUS
<1>2. \E m \in S : \A s \in S : s <= m
  <2> HIDE DEF S
  <2> QED BY <1>1, MaxExists
<1>3. \E n \in S : \A e \in E : e.seq <= n
  BY <1>2
<1>4. TopSeq(label, E) \in S /\ \A e \in E : e.seq <= TopSeq(label, E)
  BY <1>3 DEF TopSeq
<1> QED BY <1>1, <1>4

\* Nothing else is the counter of that log.
LEMMA TopSeqIs ==
    ASSUME NEW label \in Nat, NEW E, \A e \in E : e.seq \in Nat /\ label < e.seq,
           NEW m \in {label} \cup {e.seq : e \in E},
           \A e \in E : e.seq <= m
    PROVE  TopSeq(label, E) = m
<1>1. /\ m \in Nat
      /\ label <= m
  OBVIOUS
<1>2. /\ TopSeq(label, E) \in {label} \cup {e.seq : e \in E}
      /\ TopSeq(label, E) \in Nat
      /\ label <= TopSeq(label, E)
      /\ \A e \in E : e.seq <= TopSeq(label, E)
  BY <1>1, TopSeqExists
<1>3. m <= TopSeq(label, E) /\ TopSeq(label, E) <= m
  BY <1>1, <1>2
<1> QED BY <1>1, <1>2, <1>3

LEMMA RecoveredSeqIsTop ==
    ASSUME TypeInv
    PROVE  /\ RecoveredSeq \in Nat
           /\ RecoveredSeq <= calls
           /\ snapshot.seq <= RecoveredSeq
           /\ \A e \in Accepted : e.seq <= RecoveredSeq
<1>1. /\ snapshot.seq \in Nat
      /\ calls \in Nat
      /\ snapshot.seq <= calls
      /\ \A e \in Accepted : e.seq \in Nat /\ e.seq <= calls /\ snapshot.seq < e.seq
  BY DEF TypeInv, TypeOK, SeqsBounded, Accepted, Readable, Event
<1> QED BY <1>1, TopSeqExists DEF RecoveredSeq

LEMMA NewEventType ==
    ASSUME TypeInv, calls < MaxCalls, NEW k \in Kinds
    PROVE  NewEvent(k) \in Event /\ NewEvent(k).seq = last_seq + 1
<1>1. calls + 1 \in 1..MaxCalls /\ last_seq + 1 \in Nat
  BY LogAssumption DEF TypeInv, TypeOK
<1> QED BY <1>1 DEF NewEvent, Event

LEMMA TypeInvInit == Init => TypeInv
<1> SUFFICES ASSUME Init PROVE TypeInv
  OBVIOUS
<1>1. snapshot \in [seq : Nat, state : SUBSET Event] /\ calls \in 0..MaxCalls
  BY LogAssumption DEF Init
<1>2. TypeOK
  BY <1>1 DEF Init, TypeOK, Phases
<1>3. SeqsBounded
  BY DEF Init, SeqsBounded, Readable
<1> QED BY <1>2, <1>3 DEF TypeInv

\* Whatever part of a new record reaches the file, the disk stays well typed.
LEMMA LeftoverTypes ==
    ASSUME TypeInv, calls < MaxCalls, NEW k \in Kinds,
           LeavesNothing \/ LeavesTorn \/ LeavesBare(NewEvent(k)) \/ LeavesWhole(NewEvent(k))
    PROVE  /\ file' \subseteq Event
           /\ bare' \subseteq Event
           /\ torn' \in BOOLEAN
           /\ garbled' \in BOOLEAN
           /\ snapshot' = snapshot
           /\ Readable' \subseteq Readable \cup {NewEvent(k)}
<1>1. NewEvent(k) \in Event
  BY NewEventType
<1>2. CASE LeavesNothing
  BY <1>2 DEF LeavesNothing, TypeInv, TypeOK, disk, Readable
<1>3. CASE LeavesTorn
  BY <1>3 DEF LeavesTorn, TypeInv, TypeOK, Readable
<1>4. CASE LeavesBare(NewEvent(k))
  BY <1>1, <1>4 DEF LeavesBare, CleanEnd, TypeInv, TypeOK, Readable
<1>5. CASE LeavesWhole(NewEvent(k))
  BY <1>1, <1>5 DEF LeavesWhole, CleanEnd, TypeInv, TypeOK, Readable
<1> QED BY <1>2, <1>3, <1>4, <1>5

LEMMA TypeInvStep == TypeInv /\ [Next]_vars => TypeInv'
<1> SUFFICES ASSUME TypeInv, [Next]_vars PROVE TypeInv'
  OBVIOUS
<1> USE DEF TypeInv
<1>0. calls \in Nat /\ MaxCalls \in Nat
  BY LogAssumption DEF TypeOK
<1>1. CASE Start
  <2>1. RecoveredSeq \in Nat /\ RecoveredSeq <= calls
    BY RecoveredSeqIsTop
  <2>2. RecoveredRoom \subseteq Event /\ Accepted \subseteq Event
    BY DEF RecoveredRoom, Accepted, Readable, TypeOK
  <2>3. TypeOK'
    BY <1>1, <2>1, <2>2 DEF Start, TypeOK, Readable, Phases
  <2>4. SeqsBounded'
    BY <1>1, <2>1 DEF Start, SeqsBounded, Readable, Accepted
  <2> QED BY <2>3, <2>4
<1>2. ASSUME NEW k \in Kinds, AppendOk(k) PROVE TypeInv'
  <2>1. /\ NewEvent(k) \in Event
        /\ NewEvent(k).seq = last_seq + 1
        /\ calls < MaxCalls
        /\ LeavesWhole(NewEvent(k))
    BY <1>2, NewEventType DEF AppendOk
  <2>2. /\ file' \subseteq Event /\ bare' \subseteq Event
        /\ torn' \in BOOLEAN /\ garbled' \in BOOLEAN
        /\ snapshot' = snapshot
        /\ Readable' \subseteq Readable \cup {NewEvent(k)}
    BY <2>1, LeftoverTypes
  <2>3. TypeOK'
    BY <1>0, <1>2, <2>1, <2>2 DEF AppendOk, TypeOK
  <2>4. SeqsBounded'
    <3>1. /\ last_seq' = last_seq + 1 /\ calls' = calls + 1
          /\ events' = events \cup {NewEvent(k)}
      BY <1>2, <2>1 DEF AppendOk
    <3>2. \A e \in Readable \cup events \cup {NewEvent(k)} : e.seq <= calls + 1
      BY <1>0, <2>1 DEF TypeOK, SeqsBounded, Readable, Event
    <3>3. \A e \in (Readable \cup events)' : e.seq <= calls'
      BY <2>2, <3>1, <3>2
    <3>4. last_seq' <= calls' /\ snapshot'.seq <= calls'
      BY <1>0, <2>2, <3>1 DEF TypeOK, SeqsBounded
    <3> QED BY <3>3, <3>4 DEF SeqsBounded, Readable
  <2> QED BY <2>3, <2>4
<1>3. ASSUME NEW k \in Kinds, AppendFails(k) \/ CrashInAppend(k) PROVE TypeInv'
  <2>1. /\ NewEvent(k) \in Event
        /\ NewEvent(k).seq = last_seq + 1
        /\ calls < MaxCalls
        /\ LeavesNothing \/ LeavesTorn \/ LeavesBare(NewEvent(k)) \/ LeavesWhole(NewEvent(k))
    BY <1>3, NewEventType DEF AppendFails, CrashInAppend
  <2>2. /\ file' \subseteq Event /\ bare' \subseteq Event
        /\ torn' \in BOOLEAN /\ garbled' \in BOOLEAN
        /\ snapshot' = snapshot
        /\ Readable' \subseteq Readable \cup {NewEvent(k)}
    BY <2>1, LeftoverTypes
  <2>3. /\ calls' = calls + 1
        /\ acked' = acked
        /\ \/ phase' = phase /\ memory' = memory
           \/ ForgetMemory
    BY <1>3 DEF AppendFails, CrashInAppend
  <2>4. TypeOK'
    BY <1>0, <2>1, <2>2, <2>3 DEF ForgetMemory, TypeOK, memory, Phases
  <2>5. SeqsBounded'
    BY <1>0, <2>1, <2>2, <2>3 DEF ForgetMemory, TypeOK, memory, SeqsBounded, Readable, Event
  <2> QED BY <2>4, <2>5
<1>4. CASE ReplaceSnapshot
  BY <1>4 DEF ReplaceSnapshot, TypeOK, SeqsBounded, Readable, Phases
<1>5. CASE ReplaceLog
  <2>1. file' \subseteq Readable \cup events /\ events' \subseteq events
    BY <1>5 DEF ReplaceLog, Recent, Tail
  <2> QED BY <1>5, <2>1 DEF ReplaceLog, TypeOK, SeqsBounded, Readable, Phases
<1>6. CASE ReplaceLogFails
  BY <1>6 DEF ReplaceLogFails, TypeOK, SeqsBounded, Readable, Tail, Phases, disk
<1>7. CASE Crash
  BY <1>7, <1>0 DEF Crash, ForgetMemory, TypeOK, SeqsBounded, Readable, Phases, disk
<1>8. CASE UNCHANGED vars
  BY <1>8 DEF vars, disk, memory, TypeOK, SeqsBounded, Readable
<1> QED
  BY <1>1, <1>2, <1>3, <1>4, <1>5, <1>6, <1>7, <1>8 DEF Next

LEMMA TypeInvariant == Spec => []TypeInv
BY TypeInvInit, TypeInvStep, PTL DEF Spec

\* Every variable of the log keeps its type, whatever an append leaves behind.
THEOREM TypeCorrect == Spec => []TypeOK
<1>1. TypeInv => TypeOK
  BY DEF TypeInv
<1> QED BY <1>1, TypeInvariant, PTL

-----------------------------------------------------------------------------
(* A seq is never reused, whatever an append that failed left behind.  The *)
(* counter is at least every seq acknowledged so far, in memory while the  *)
(* process runs and, for the next start, on disk: in the snapshot's label  *)
(* or on a line of the log.  A garbled log promises nothing, and is never  *)
(* started from.                                                           *)

CounterInMemory ==
    phase # "down" =>
        /\ snapshot_seq = snapshot.seq
        /\ snapshot_seq <= last_seq
        /\ \A e \in events \cup acked : e.seq <= last_seq

LabelIsTop == phase = "replaced" => snapshot_seq = last_seq

CounterOnDisk ==
    ~garbled => \A e \in acked :
                    \/ e.seq <= snapshot.seq
                    \/ \E f \in file : e.seq <= f.seq

SeqInv == TypeInv /\ CounterInMemory /\ LabelIsTop /\ CounterOnDisk /\ SeqNeverReused

LEMMA SeqInvInit == Init => SeqInv
BY TypeInvInit DEF Init, SeqInv, CounterInMemory, LabelIsTop, CounterOnDisk, SeqNeverReused

LEMMA SeqInvStep == SeqInv /\ [Next]_vars => SeqInv'
<1> SUFFICES ASSUME SeqInv, [Next]_vars PROVE SeqInv'
  OBVIOUS
<1> USE DEF SeqInv
<1>t. TypeInv'
  BY TypeInvStep
<1>n. /\ last_seq \in Nat /\ snapshot_seq \in Nat /\ snapshot.seq \in Nat
      /\ \A e \in file \cup bare \cup events \cup acked : e.seq \in Nat
  BY DEF TypeInv, TypeOK, Event
<1>1. CASE Start
  <2>1. /\ RecoveredSeq \in Nat
        /\ snapshot.seq <= RecoveredSeq
        /\ \A e \in Accepted : e.seq <= RecoveredSeq
    BY RecoveredSeqIsTop
  <2>2. ASSUME NEW e \in acked PROVE e.seq <= RecoveredSeq
    <3>1. CASE e.seq <= snapshot.seq
      BY <1>n, <2>1, <3>1
    <3>2. CASE ~ (e.seq <= snapshot.seq)
      <4>1. PICK f \in file : e.seq <= f.seq
        BY <1>1, <3>2 DEF Start, CounterOnDisk
      <4>2. f \in Accepted
        BY <1>n, <3>2, <4>1 DEF Accepted, Readable
      <4> QED BY <1>n, <2>1, <4>1, <4>2
    <3> QED BY <3>1, <3>2
  <2>3. CounterInMemory' /\ LabelIsTop'
    BY <1>1, <2>1, <2>2 DEF Start, CounterInMemory, LabelIsTop
  <2>4. CounterOnDisk' /\ SeqNeverReused'
    BY <1>1 DEF Start, CounterOnDisk, SeqNeverReused, Readable
  <2> QED BY <1>t, <2>3, <2>4
<1>2. ASSUME NEW k \in Kinds, AppendOk(k) PROVE SeqInv'
  <2> DEFINE e == NewEvent(k)
  <2>1. /\ e.seq = last_seq + 1
        /\ phase = "up" /\ phase' = "up"
        /\ last_seq' = last_seq + 1
        /\ snapshot_seq' = snapshot_seq /\ snapshot' = snapshot
        /\ events' = events \cup {e}
        /\ acked' = acked \cup {e}
        /\ LeavesWhole(e)
    BY <1>2, NewEventType DEF AppendOk, LeavesWhole
  <2> HIDE DEF e
  <2>2. CounterInMemory' /\ LabelIsTop'
    BY <1>n, <2>1 DEF CounterInMemory, LabelIsTop
  <2>3. CounterOnDisk'
    <3>1. SUFFICES ASSUME ~garbled' PROVE CounterOnDisk'
      BY DEF CounterOnDisk
    <3>2. ~garbled /\ file' = file \cup {e}
      BY <2>1, <3>1 DEF LeavesWhole
    <3>3. e.seq <= e.seq
      BY <1>n, <2>1
    <3> QED BY <2>1, <3>2, <3>3 DEF CounterOnDisk
  <2>4. SeqNeverReused'
    <3>1. \A d \in acked : d.seq # e.seq
      BY <1>n, <2>1 DEF CounterInMemory
    <3> QED BY <2>1, <3>1 DEF SeqNeverReused
  <2> QED BY <1>t, <2>2, <2>3, <2>4
<1>3. ASSUME NEW k \in Kinds, AppendFails(k) \/ CrashInAppend(k) PROVE SeqInv'
  <2>1. /\ LeavesNothing \/ LeavesTorn \/ LeavesBare(NewEvent(k)) \/ LeavesWhole(NewEvent(k))
        /\ acked' = acked
        /\ phase = "up"
        /\ \/ phase' = phase /\ memory' = memory
           \/ phase' = "down"
    BY <1>3 DEF AppendFails, CrashInAppend, ForgetMemory
  <2>2. /\ snapshot' = snapshot
        /\ file \subseteq file'
        /\ ~garbled' => ~garbled
    <3>1. CASE LeavesNothing
      BY <3>1 DEF LeavesNothing, disk
    <3>2. CASE LeavesTorn
      BY <3>2 DEF LeavesTorn
    <3>3. CASE LeavesBare(NewEvent(k))
      BY <3>3 DEF LeavesBare
    <3>4. CASE LeavesWhole(NewEvent(k))
      BY <3>4 DEF LeavesWhole
    <3> QED BY <2>1, <3>1, <3>2, <3>3, <3>4
  <2>3. CounterInMemory' /\ LabelIsTop'
    BY <2>1, <2>2 DEF CounterInMemory, LabelIsTop, memory
  <2>4. CounterOnDisk' /\ SeqNeverReused'
    BY <2>1, <2>2 DEF CounterOnDisk, SeqNeverReused
  <2> QED BY <1>t, <2>3, <2>4
<1>4. CASE ReplaceSnapshot
  <2>1. CounterInMemory' /\ LabelIsTop'
    BY <1>4, <1>n DEF ReplaceSnapshot, CounterInMemory, LabelIsTop
  <2>2. CounterOnDisk' /\ SeqNeverReused'
    BY <1>4, <1>n DEF ReplaceSnapshot, CounterInMemory, CounterOnDisk, SeqNeverReused
  <2> QED BY <1>t, <2>1, <2>2
<1>5. CASE ReplaceLog
  <2>1. CounterInMemory' /\ LabelIsTop' /\ SeqNeverReused'
    BY <1>5 DEF ReplaceLog, Tail, CounterInMemory, LabelIsTop, SeqNeverReused
  <2>2. CounterOnDisk'
    BY <1>5 DEF ReplaceLog, CounterInMemory, LabelIsTop, CounterOnDisk
  <2> QED BY <1>t, <2>1, <2>2
<1>6. CASE ReplaceLogFails
  BY <1>t, <1>6 DEF ReplaceLogFails, Tail, disk, CounterInMemory, LabelIsTop,
                    CounterOnDisk, SeqNeverReused
<1>7. CASE Crash
  BY <1>t, <1>7 DEF Crash, ForgetMemory, disk, CounterInMemory, LabelIsTop,
                    CounterOnDisk, SeqNeverReused
<1>8. CASE UNCHANGED vars
  BY <1>t, <1>8 DEF vars, disk, memory, CounterInMemory, LabelIsTop,
                    CounterOnDisk, SeqNeverReused
<1> QED
  BY <1>1, <1>2, <1>3, <1>4, <1>5, <1>6, <1>7, <1>8 DEF Next

\* A seq names one acknowledged event forever, whatever crashes, failed appends
\* (torn, complete or duplicated on disk) and compactions come between.
THEOREM SeqsUnique == Spec => []SeqNeverReused
<1>1. SeqInv => SeqNeverReused
  BY DEF SeqInv
<1>2. Spec => []SeqInv
  BY SeqInvInit, SeqInvStep, PTL DEF Spec
<1> QED BY <1>1, <1>2, PTL

-----------------------------------------------------------------------------
(* Whatever a failed append leaves behind, an acknowledged event is lost   *)
(* only together with the log: it is in the memory of the process while    *)
(* that runs, so in every snapshot taken, and until then on a line of its  *)
(* own above the snapshot's label, unless a line has become unreadable.    *)

\* Acknowledged events that a file f and a snapshot s hold.
OnDisk(f, s) == s.state \cup {e \in f : e.seq > s.seq}

AckedInMemory == phase # "down" => acked \subseteq state
SnapshotIsState == phase = "replaced" => snapshot.state = state
AckedOnDisk == ~garbled => acked \subseteq OnDisk(file, snapshot)

LossInv == SeqInv /\ AckedInMemory /\ SnapshotIsState /\ AckedOnDisk

LEMMA LossInvInit == Init => LossInv
BY SeqInvInit DEF Init, LossInv, AckedInMemory, SnapshotIsState, AckedOnDisk

\* What a cut or failed write leaves takes no line away.
LEMMA LeftoversKeep ==
    ASSUME LossInv, NEW e, acked' = acked,
           LeavesNothing \/ LeavesTorn \/ LeavesBare(e) \/ LeavesWhole(e)
    PROVE  AckedOnDisk'
<1>1. snapshot' = snapshot /\ (file' = file \/ file' = file \cup {e}) /\ (~garbled' => ~garbled)
  <2>1. CASE LeavesNothing \/ LeavesTorn \/ LeavesBare(e)
    BY <2>1 DEF LeavesNothing, LeavesTorn, LeavesBare, disk
  <2>2. CASE LeavesWhole(e)
    <3>1. ~garbled' => ~garbled
      BY <2>2, Zenon DEF LeavesWhole
    <3>2. snapshot' = snapshot /\ (file' = file \/ file' = file \cup {e})
      BY <2>2 DEF LeavesWhole
    <3> QED BY <3>1, <3>2
  <2> QED BY <2>1, <2>2
<1> QED BY <1>1 DEF LossInv, AckedOnDisk, OnDisk

LEMMA LossInvStep == LossInv /\ [Next]_vars => LossInv'
<1> SUFFICES ASSUME LossInv, [Next]_vars PROVE LossInv'
  OBVIOUS
<1>1. SeqInv'
  BY SeqInvStep DEF LossInv
<1>2. (AckedInMemory /\ SnapshotIsState /\ AckedOnDisk)'
  <2>1. CASE Start
    <3>1. /\ ~garbled /\ garbled' = garbled /\ phase' = "up" /\ acked' = acked
          /\ snapshot' = snapshot /\ file' = file \cup bare
          /\ state' = snapshot.state \cup {e \in file \cup bare : e.seq > snapshot.seq}
      BY <2>1 DEF Start, RecoveredRoom, Readable, Accepted
    <3> QED BY <3>1 DEF LossInv, AckedInMemory, SnapshotIsState, AckedOnDisk, OnDisk
  <2>2. ASSUME NEW k \in Kinds, AppendOk(k)
        PROVE  (AckedInMemory /\ SnapshotIsState /\ AckedOnDisk)'
    <3> DEFINE e == NewEvent(k)
    <3>1. /\ phase = "up" /\ phase' = "up" /\ LeavesWhole(e)
          /\ state' = state \cup {e} /\ acked' = acked \cup {e}
      BY <2>2 DEF AppendOk
    <3>2. e.seq > snapshot.seq
      <4>1. e.seq = last_seq + 1
        BY DEF NewEvent
      <4>2. last_seq \in Nat /\ snapshot.seq \in Nat /\ snapshot.seq <= last_seq
        BY <3>1 DEF LossInv, SeqInv, TypeInv, TypeOK, CounterInMemory
      <4> QED BY <4>1, <4>2
    <3> HIDE DEF e
    <3>3. ~garbled' => ~garbled /\ file' = file \cup {e} /\ snapshot' = snapshot
      BY <3>1 DEF LeavesWhole
    <3> QED BY <3>1, <3>2, <3>3 DEF LossInv, AckedInMemory, SnapshotIsState, AckedOnDisk, OnDisk
  <2>3. ASSUME NEW k \in Kinds, AppendFails(k)
        PROVE  (AckedInMemory /\ SnapshotIsState /\ AckedOnDisk)'
    <3>1. acked' = acked /\ state' = state /\ phase = "up" /\ phase' = "up"
      BY <2>3 DEF AppendFails, memory
    <3>2. AckedOnDisk'
      BY <2>3, <3>1, LeftoversKeep DEF AppendFails
    <3> QED BY <3>1, <3>2 DEF LossInv, AckedInMemory, SnapshotIsState
  <2>4. CASE ReplaceSnapshot
    <3>1. /\ acked' = acked /\ state' = state /\ phase = "up"
          /\ snapshot' = [seq |-> last_seq, state |-> state]
      BY <2>4 DEF ReplaceSnapshot
    <3>2. snapshot'.state = state
      BY <3>1
    <3> QED BY <3>1, <3>2 DEF LossInv, AckedInMemory, SnapshotIsState, AckedOnDisk, OnDisk
  <2>5. CASE ReplaceLog \/ ReplaceLogFails
    <3>1. /\ phase = "replaced" /\ phase' = "up"
          /\ acked' = acked /\ state' = state /\ snapshot' = snapshot
      BY <2>5 DEF ReplaceLog, ReplaceLogFails, disk
    <3>2. acked \subseteq snapshot.state
      BY <3>1 DEF LossInv, AckedInMemory, SnapshotIsState
    <3> QED BY <3>1, <3>2 DEF LossInv, AckedInMemory, SnapshotIsState, AckedOnDisk, OnDisk
  <2>6. CASE Crash
    BY <2>6 DEF Crash, ForgetMemory, disk, LossInv, AckedInMemory, SnapshotIsState, AckedOnDisk
  <2>7. ASSUME NEW k \in Kinds, CrashInAppend(k)
        PROVE  (AckedInMemory /\ SnapshotIsState /\ AckedOnDisk)'
    <3>1. acked' = acked /\ phase' = "down"
      BY <2>7 DEF CrashInAppend, ForgetMemory
    <3>2. AckedOnDisk'
      BY <2>7, <3>1, LeftoversKeep DEF CrashInAppend
    <3> QED BY <3>1, <3>2 DEF AckedInMemory, SnapshotIsState
  <2>8. CASE UNCHANGED vars
    BY <2>8 DEF vars, disk, memory, LossInv, AckedInMemory, SnapshotIsState, AckedOnDisk
  <2> QED BY <2>1, <2>2, <2>3, <2>4, <2>5, <2>6, <2>7, <2>8 DEF Next
<1> QED BY <1>1, <1>2 DEF LossInv

\* The worst a failed append can do is to have the next start refused: a log that
\* is started from has every acknowledged event, whatever was left in it.
THEOREM NoSilentLoss == Spec => []LossIsNeverSilent
<1>1. LossInv => LossIsNeverSilent
  <2>1. OnDisk(file, snapshot) \subseteq snapshot.state \cup Accepted
    BY DEF OnDisk, Accepted, Readable
  <2> QED BY <2>1 DEF LossInv, AckedOnDisk, LossIsNeverSilent, RecoveredRoom
<1>2. Spec => []LossInv
  BY LossInvInit, LossInvStep, PTL DEF Spec
<1> QED BY <1>1, <1>2, PTL

-----------------------------------------------------------------------------
(* When an append that fails leaves nothing behind, the disk is at every   *)
(* moment the room: a restart recovers what the running hub has, and the   *)
(* lines above the snapshot's label run on without a hole.                 *)

DiskIsClean ==
    /\ ~garbled
    /\ phase # "down" => CleanEnd

MemoryIsDisk ==
    phase # "down" =>
        /\ state = RecoveredRoom
        /\ last_seq = RecoveredSeq
        /\ Tail = Accepted

LogIsCovered == phase = "replaced" => Accepted = {}

NoHole == \A n \in snapshot.seq + 1 .. RecoveredSeq : \E e \in Accepted : e.seq = n

RoomInv == /\ SeqInv
           /\ DiskIsClean
           /\ MemoryIsDisk
           /\ LogIsCovered
           /\ NoHole
           /\ AckedSurvives

\* The three ways a step can treat the room that a restart would recover.
RoomStays == RecoveredRoom' = RecoveredRoom /\ RecoveredSeq' = RecoveredSeq
RoomGains(e) == RecoveredRoom' = RecoveredRoom \cup {e} /\ RecoveredSeq' = e.seq

LEMMA SeqTypes ==
    ASSUME TypeInv
    PROVE  /\ last_seq \in Nat /\ snapshot_seq \in Nat /\ snapshot.seq \in Nat
           /\ \A e \in Readable \cup events \cup acked : e.seq \in Nat
           /\ \A e \in Accepted : e.seq \in Nat /\ snapshot.seq < e.seq
BY DEF TypeInv, TypeOK, Readable, Accepted, Event

LEMMA RoomInvInit == Init => RoomInv
<1> SUFFICES ASSUME Init PROVE RoomInv
  OBVIOUS
<1>1. SeqInv
  BY SeqInvInit
<1>2. Accepted = {} /\ snapshot.seq = 0
  BY DEF Init, Accepted, Readable
<1>3. RecoveredSeq = 0
  BY <1>2, TopSeqIs DEF RecoveredSeq
<1> QED
  BY <1>1, <1>2, <1>3 DEF Init, RoomInv, DiskIsClean, MemoryIsDisk, LogIsCovered, NoHole,
                          AckedSurvives

\* A record that reached the disk whole, or but for its newline, is one more
\* event of the room, acknowledged or not.
LEMMA RecordLands ==
    ASSUME RoomInv, phase = "up", NEW k \in Kinds, calls < MaxCalls,
           LeavesBare(NewEvent(k)) \/ LeavesWhole(NewEvent(k))
    PROVE  /\ ~garbled'
           /\ snapshot' = snapshot
           /\ Accepted' = Accepted \cup {NewEvent(k)}
           /\ RoomGains(NewEvent(k))
           /\ NoHole'
<1> DEFINE e == NewEvent(k)
<1>1. e.seq = last_seq + 1
  BY NewEventType DEF RoomInv, SeqInv
<1>2. /\ last_seq \in Nat /\ snapshot.seq \in Nat
      /\ \A f \in Accepted : f.seq \in Nat /\ snapshot.seq < f.seq
  BY SeqTypes DEF RoomInv, SeqInv
<1>3. /\ last_seq = RecoveredSeq
      /\ snapshot.seq <= RecoveredSeq
      /\ \A f \in Accepted : f.seq <= RecoveredSeq
  BY RecoveredSeqIsTop DEF RoomInv, SeqInv, MemoryIsDisk
<1> HIDE DEF e
<1>4. /\ Readable' = Readable \cup {e}
      /\ snapshot' = snapshot
      /\ ~garbled /\ ~garbled'
  <2>1. CleanEnd /\ ~garbled /\ bare = {}
    BY DEF RoomInv, DiskIsClean, CleanEnd
  <2>2. CASE LeavesBare(e)
    BY <2>1, <2>2 DEF LeavesBare, Readable
  <2>3. CASE LeavesWhole(e)
    BY <2>1, <2>3 DEF LeavesWhole, Readable
  <2> QED BY <2>2, <2>3 DEF e
<1>5. Accepted' = Accepted \cup {e}
  BY <1>1, <1>2, <1>3, <1>4 DEF Accepted
<1>6. RecoveredSeq' = e.seq
  <2>1. \A f \in Accepted' : f.seq \in Nat /\ snapshot'.seq < f.seq /\ f.seq <= e.seq
    BY <1>1, <1>2, <1>3, <1>4, <1>5
  <2>2. e.seq \in {snapshot'.seq} \cup {f.seq : f \in Accepted'} /\ snapshot'.seq \in Nat
    BY <1>2, <1>4, <1>5
  <2> QED BY <2>1, <2>2, TopSeqIs DEF RecoveredSeq
<1>7. RecoveredRoom' = RecoveredRoom \cup {e}
  BY <1>4, <1>5 DEF RecoveredRoom
<1>8. NoHole'
  <2>1. ASSUME NEW n \in snapshot.seq + 1 .. last_seq + 1
        PROVE  \E f \in Accepted \cup {e} : f.seq = n
    <3>1. CASE n = last_seq + 1
      BY <1>1, <3>1
    <3>2. CASE n # last_seq + 1
      <4>1. n \in snapshot.seq + 1 .. RecoveredSeq
        BY <1>2, <1>3, <3>2
      <4> QED BY <4>1 DEF RoomInv, NoHole
    <3> QED BY <3>1, <3>2
  <2> QED BY <1>1, <1>4, <1>5, <1>6, <2>1 DEF NoHole
<1> QED BY <1>4, <1>5, <1>6, <1>7, <1>8 DEF RoomGains, e

\* Same label, same readable lines: the same room.
LEMMA SameDiskSameRoom ==
    ASSUME RoomInv, snapshot' = snapshot, Readable' = Readable, garbled' = garbled
    PROVE  RoomStays /\ Accepted' = Accepted /\ NoHole'
<1>1. Accepted' = Accepted
  BY DEF Accepted
<1> QED BY <1>1 DEF RoomStays, RecoveredRoom, RecoveredSeq, NoHole, RoomInv

\* What a step does to the room, and that it keeps the invariant.
LEMMA RoomInvStep ==
    ASSUME AppendFaults = {}, RoomInv, [Next]_vars
    PROVE  /\ RoomInv'
           /\ \/ RoomStays
              \/ \E k \in Kinds : /\ calls < MaxCalls
                                  /\ last_seq = RecoveredSeq
                                  /\ RoomGains(NewEvent(k))
<1> USE DEF RoomInv
<1>t. SeqInv'
  BY SeqInvStep
<1>n. /\ last_seq \in Nat /\ snapshot_seq \in Nat /\ snapshot.seq \in Nat
      /\ \A e \in Readable \cup events \cup acked : e.seq \in Nat
      /\ \A e \in Accepted : e.seq \in Nat /\ snapshot.seq < e.seq
  BY SeqTypes DEF SeqInv
<1>1. CASE Start
  <2>1. snapshot' = snapshot /\ Readable' = Readable /\ garbled' = garbled /\ ~garbled
    BY <1>1 DEF Start, Readable
  <2>2. RoomStays /\ Accepted' = Accepted /\ NoHole'
    BY <2>1, SameDiskSameRoom
  <2>3. Tail' = Accepted'
    BY <1>1, <1>n, <2>2 DEF Start, Tail
  <2>4. DiskIsClean' /\ MemoryIsDisk' /\ LogIsCovered' /\ AckedSurvives'
    BY <1>1, <2>1, <2>2, <2>3 DEF Start, DiskIsClean, CleanEnd, MemoryIsDisk, LogIsCovered,
                                  AckedSurvives, RoomStays
  <2> QED BY <1>t, <2>2, <2>4
<1>2. ASSUME NEW k \in Kinds, AppendOk(k) PROVE RoomInv' /\ RoomGains(NewEvent(k))
  <2> DEFINE e == NewEvent(k)
  <2>1. /\ phase = "up" /\ phase' = "up"
        /\ calls < MaxCalls
        /\ LeavesWhole(e)
        /\ last_seq' = e.seq
        /\ events' = events \cup {e}
        /\ state' = state \cup {e}
        /\ acked' = acked \cup {e}
        /\ snapshot_seq' = snapshot_seq
    BY <1>2 DEF AppendOk
  <2>2. /\ ~garbled'
        /\ snapshot' = snapshot
        /\ Accepted' = Accepted \cup {e}
        /\ RoomGains(e)
        /\ NoHole'
    BY <2>1, RecordLands
  <2>3. snapshot_seq < e.seq
    BY <1>n, <2>1, NewEventType DEF SeqInv, CounterInMemory
  <2> HIDE DEF e
  <2>4. MemoryIsDisk'
    BY <2>1, <2>2, <2>3 DEF MemoryIsDisk, Tail, RoomGains
  <2>5. DiskIsClean' /\ LogIsCovered' /\ AckedSurvives'
    BY <2>1, <2>2 DEF DiskIsClean, CleanEnd, LeavesWhole, LogIsCovered, AckedSurvives, RoomGains
  <2> QED BY <1>t, <2>2, <2>4, <2>5 DEF e
<1>3. ASSUME NEW k \in Kinds, AppendFails(k) PROVE RoomInv' /\ RoomStays
  <2>1. LeavesNothing /\ UNCHANGED <<phase, memory, acked>>
    BY <1>3 DEF AppendFails
  <2>2. RoomStays /\ Accepted' = Accepted /\ NoHole'
    BY <2>1, SameDiskSameRoom DEF LeavesNothing, disk, Readable
  <2>3. DiskIsClean' /\ MemoryIsDisk' /\ LogIsCovered' /\ AckedSurvives'
    BY <2>1, <2>2 DEF LeavesNothing, disk, memory, DiskIsClean, CleanEnd, MemoryIsDisk, Tail,
                      LogIsCovered, AckedSurvives, RoomStays
  <2> QED BY <1>t, <2>2, <2>3
<1>4. ASSUME NEW k \in Kinds, CrashInAppend(k)
      PROVE  RoomInv' /\ (RoomStays \/ RoomGains(NewEvent(k)))
  <2>1. /\ phase = "up" /\ phase' = "down"
        /\ calls < MaxCalls
        /\ acked' = acked
        /\ LeavesTorn \/ LeavesBare(NewEvent(k)) \/ LeavesWhole(NewEvent(k))
    BY <1>4 DEF CrashInAppend, ForgetMemory
  <2>2. CASE LeavesTorn
    <3>1. snapshot' = snapshot /\ Readable' = Readable /\ garbled' = garbled
      BY <2>1, <2>2 DEF LeavesTorn, Readable, DiskIsClean, CleanEnd
    <3>2. RoomStays /\ Accepted' = Accepted /\ NoHole'
      BY <3>1, SameDiskSameRoom
    <3> QED BY <1>t, <2>1, <3>1, <3>2 DEF DiskIsClean, MemoryIsDisk, LogIsCovered,
                                          AckedSurvives, RoomStays
  <2>3. CASE LeavesBare(NewEvent(k)) \/ LeavesWhole(NewEvent(k))
    <3>1. ~garbled' /\ RoomGains(NewEvent(k)) /\ NoHole'
      BY <2>1, <2>3, RecordLands
    <3> QED BY <1>t, <2>1, <3>1 DEF DiskIsClean, MemoryIsDisk, LogIsCovered,
                                    AckedSurvives, RoomGains
  <2> QED BY <2>1, <2>2, <2>3
<1>5. CASE ReplaceSnapshot
  <2>1. /\ phase = "up" /\ phase' = "replaced"
        /\ DiskTopAtMost(last_seq)
        /\ snapshot' = [seq |-> last_seq, state |-> state]
        /\ snapshot_seq' = last_seq
        /\ UNCHANGED <<file, bare, torn, garbled, last_seq, events, state, acked>>
    BY <1>5 DEF ReplaceSnapshot
  <2>2. Accepted' = {}
    BY <1>n, <2>1 DEF Accepted, Readable, DiskTopAtMost
  <2>3. Tail' = {}
    BY <1>n, <2>1 DEF Tail, SeqInv, CounterInMemory
  <2>4. RecoveredSeq' = last_seq
    BY <1>n, <2>1, <2>2, TopSeqIs DEF RecoveredSeq
  <2>5. RecoveredRoom' = state
    BY <2>1, <2>2 DEF RecoveredRoom, DiskIsClean
  <2>6. RoomStays
    BY <2>1, <2>4, <2>5 DEF RoomStays, MemoryIsDisk
  <2>7. DiskIsClean' /\ MemoryIsDisk' /\ LogIsCovered' /\ AckedSurvives'
    BY <2>1, <2>2, <2>3, <2>4, <2>5, <2>6
       DEF DiskIsClean, CleanEnd, MemoryIsDisk, LogIsCovered, AckedSurvives, RoomStays
  <2>8. NoHole'
    BY <1>n, <2>1, <2>4 DEF NoHole
  <2> QED BY <1>t, <2>6, <2>7, <2>8
<1>6. CASE ReplaceLog
  <2>1. /\ phase = "replaced" /\ phase' = "up"
        /\ events' = Tail
        /\ file' = {e \in Recent(Readable) : e.seq > 0} \cup Tail
        /\ bare' = {} /\ torn' = FALSE /\ garbled' = FALSE
        /\ UNCHANGED <<snapshot, last_seq, snapshot_seq, state, acked>>
    BY <1>6 DEF ReplaceLog
  <2>2. Accepted = {} /\ Tail = {}
    BY <2>1 DEF LogIsCovered, MemoryIsDisk
  <2>3. Accepted' = {} /\ Tail' = {}
    <3>1. Readable' \subseteq Readable
      BY <2>1, <2>2 DEF Readable, Recent
    <3> QED BY <2>1, <2>2, <3>1 DEF Accepted, Tail
  <2>4. RoomStays
    BY <2>1, <2>2, <2>3 DEF RoomStays, RecoveredRoom, RecoveredSeq, DiskIsClean
  <2>5. DiskIsClean' /\ MemoryIsDisk' /\ LogIsCovered' /\ AckedSurvives'
    BY <2>1, <2>3, <2>4
       DEF DiskIsClean, CleanEnd, MemoryIsDisk, LogIsCovered, AckedSurvives, RoomStays
  <2>6. NoHole'
    BY <2>1, <2>2, <2>3, <2>4 DEF NoHole, RoomStays
  <2> QED BY <1>t, <2>4, <2>5, <2>6
<1>7. CASE ReplaceLogFails
  <2>1. /\ phase = "replaced" /\ phase' = "up"
        /\ events' \in {events, Tail}
        /\ UNCHANGED <<disk, last_seq, snapshot_seq, state, acked>>
    BY <1>7 DEF ReplaceLogFails
  <2>2. RoomStays /\ Accepted' = Accepted /\ NoHole'
    BY <2>1, SameDiskSameRoom DEF disk, Readable
  <2>3. Tail' = Tail
    BY <2>1 DEF Tail
  <2>4. DiskIsClean' /\ MemoryIsDisk' /\ LogIsCovered' /\ AckedSurvives'
    BY <2>1, <2>2, <2>3
       DEF disk, DiskIsClean, CleanEnd, MemoryIsDisk, LogIsCovered, AckedSurvives, RoomStays
  <2> QED BY <1>t, <2>2, <2>4
<1>8. CASE Crash
  <2>1. phase' = "down" /\ UNCHANGED <<disk, acked>>
    BY <1>8 DEF Crash, ForgetMemory
  <2>2. RoomStays /\ Accepted' = Accepted /\ NoHole'
    BY <2>1, SameDiskSameRoom DEF disk, Readable
  <2> QED BY <1>t, <2>1, <2>2 DEF disk, DiskIsClean, MemoryIsDisk, LogIsCovered,
                                  AckedSurvives, RoomStays
<1>9. CASE UNCHANGED vars
  <2>1. UNCHANGED <<disk, phase, memory, acked>>
    BY <1>9 DEF vars
  <2>2. RoomStays /\ Accepted' = Accepted /\ NoHole'
    BY <2>1, SameDiskSameRoom DEF disk, Readable
  <2> QED BY <1>t, <2>1, <2>2 DEF disk, memory, DiskIsClean, CleanEnd, MemoryIsDisk, Tail,
                                  LogIsCovered, AckedSurvives, RoomStays
<1>10. \A k \in Kinds :
          AppendOk(k) \/ CrashInAppend(k) => calls < MaxCalls /\ last_seq = RecoveredSeq
  BY DEF AppendOk, CrashInAppend, MemoryIsDisk
<1> QED
  BY <1>1, <1>2, <1>3, <1>4, <1>5, <1>6, <1>7, <1>8, <1>9, <1>10 DEF Next

LEMMA RoomInvariant ==
    ASSUME AppendFaults = {}
    PROVE  Spec => []RoomInv
<1>1. RoomInv /\ [Next]_vars => RoomInv'
  BY RoomInvStep
<1> QED BY <1>1, RoomInvInit, PTL DEF Spec

\* An append that returned is never undone: a crash anywhere, also inside a
\* later append or between the two replaces of a compaction, recovers it.
THEOREM Durable ==
    ASSUME AppendFaults = {}
    PROVE  Spec => []AckedSurvives
<1>1. RoomInv => AckedSurvives
  BY DEF RoomInv
<1> QED BY <1>1, RoomInvariant, PTL

\* The running hub's state is what a restart at this very moment would recover.
THEOREM LiveIsDurable ==
    ASSUME AppendFaults = {}
    PROVE  Spec => []LiveIsRecoverable
<1>1. RoomInv => LiveIsRecoverable
  BY DEF RoomInv, MemoryIsDisk, LiveIsRecoverable
<1> QED BY <1>1, RoomInvariant, PTL

\* A cursor gets everything after it, without a hole, or an explicit resync.
THEOREM CursorContract ==
    ASSUME AppendFaults = {}
    PROVE  Spec => []NoPartialReplay
<1>1. RoomInv => NoPartialReplay
  <2> SUFFICES ASSUME RoomInv, phase # "down", NEW c \in 0..last_seq, ~ NeedsResync(c)
               PROVE  {e.seq : e \in EventsAfter(c)} = c+1..last_seq
    BY DEF NoPartialReplay
  <2>1. /\ last_seq \in Nat /\ snapshot_seq \in Nat
        /\ \A e \in events : e.seq \in Nat
    BY SeqTypes DEF RoomInv, SeqInv
  <2>2. /\ snapshot_seq = snapshot.seq
        /\ last_seq = RecoveredSeq
        /\ Tail = Accepted
        /\ \A e \in events : e.seq <= last_seq
    BY DEF RoomInv, SeqInv, CounterInMemory, MemoryIsDisk
  <2>3. c \in Nat /\ snapshot_seq <= c
    BY <2>1 DEF NeedsResync
  <2>4. ASSUME NEW e \in EventsAfter(c) PROVE e.seq \in c+1..last_seq
    BY <2>1, <2>2, <2>3 DEF EventsAfter
  <2>5. ASSUME NEW n \in c+1..last_seq PROVE \E e \in EventsAfter(c) : e.seq = n
    <3>1. n \in snapshot.seq + 1 .. RecoveredSeq
      BY <2>1, <2>2, <2>3
    <3>2. PICK e \in Tail : e.seq = n
      BY <2>2, <3>1 DEF RoomInv, NoHole
    <3> QED BY <2>3, <3>2 DEF Tail, EventsAfter
  <2> QED BY <2>4, <2>5
<1> QED BY <1>1, RoomInvariant, PTL

\* Files, crashes and compactions implement a room that only grows, by one
\* event carrying the next seq.
THEOREM LogImplementsRoom ==
    ASSUME AppendFaults = {}
    PROVE  Spec => ImplementsRoom
<1>1. Init => Room!Init
  <2> SUFFICES ASSUME Init PROVE Room!Init
    OBVIOUS
  <2>1. Accepted = {} /\ snapshot.seq = 0 /\ snapshot.state = {}
    BY DEF Init, Accepted, Readable
  <2>2. RecoveredSeq = 0
    BY <2>1, TopSeqIs DEF RecoveredSeq
  <2> QED BY <2>1, <2>2 DEF Room!Init, RecoveredRoom
<1>2. RoomInv /\ [Next]_vars => [Room!Next]_(Room!vars)
  <2> SUFFICES ASSUME RoomInv, [Next]_vars
               PROVE  Room!Next \/ UNCHANGED Room!vars
    OBVIOUS
  <2>1. CASE RoomStays
    BY <2>1 DEF RoomStays, Room!vars
  <2>2. ASSUME NEW k \in Kinds, calls < MaxCalls, last_seq = RecoveredSeq,
               RoomGains(NewEvent(k))
        PROVE  Room!Next
    <3> DEFINE e == [seq |-> RecoveredSeq + 1, kind |-> k, call |-> calls + 1]
    <3>1. NewEvent(k) = e
      BY <2>2 DEF NewEvent
    <3>2. calls + 1 \in 1..MaxCalls
      BY <2>2, LogAssumption DEF RoomInv, SeqInv, TypeInv, TypeOK
    <3>3. Room!Append(e)
      BY <2>2, <3>1 DEF RoomGains, Room!Append
    <3> QED BY <3>2, <3>3 DEF Room!Next
  <2> QED BY <2>1, <2>2, RoomInvStep
<1> QED BY <1>1, <1>2, RoomInvariant, PTL DEF Spec, ImplementsRoom, Room!Spec

-----------------------------------------------------------------------------
(* The window of talk.  What compaction has dropped has Keep events of     *)
(* talk behind it that are still on disk, and an event only ever gets more *)
(* of them: so the newest Keep on disk are the newest Keep of the room.    *)

Talk(S) == {e \in S : e.kind = "talk"}
Buried(S, R) == \A e \in Talk(R) \ S : Cardinality(Later(S, e)) >= Keep

WindowInv == /\ Readable \subseteq RecoveredRoom
             /\ RecoveredRoom \subseteq Event /\ IsFiniteSet(RecoveredRoom)
             /\ \A e \in Readable : e.seq > 0
             /\ Buried(Readable, RecoveredRoom)

\* The order of talk: by seq, then by call.
LEMMA LaterOrder ==
    ASSUME NEW S, S \subseteq Event
    PROVE  /\ \A e \in S : e \notin Later(S, e)
           /\ \A e, f, g \in Event : f \in Later(S, e) /\ g \in Later(S, f) => g \in Later(S, e)
           /\ \A e, f \in Talk(S) : e = f \/ e \in Later(S, f) \/ f \in Later(S, e)
<1>1. \A e \in Event : e.seq \in Nat /\ e.call \in Nat
                       /\ e = [seq |-> e.seq, kind |-> e.kind, call |-> e.call]
  BY DEF Event
<1>2. \A e \in S : e \notin Later(S, e)
  BY <1>1 DEF Later
<1>3. \A e, f, g \in Event : f \in Later(S, e) /\ g \in Later(S, f) => g \in Later(S, e)
  BY <1>1 DEF Later
<1>4. ASSUME NEW e \in Talk(S), NEW f \in Talk(S), e \notin Later(S, f), f \notin Later(S, e)
      PROVE  e = f
  <2>1. e \in Event /\ f \in Event /\ e.kind = f.kind
    BY DEF Talk
  <2>2. e.seq = f.seq /\ e.call = f.call
    BY <1>1, <1>4, <2>1 DEF Talk, Later
  <2> QED BY <1>1, <2>1, <2>2
<1> QED BY <1>2, <1>3, <1>4

LEMMA LaterCounts ==
    ASSUME NEW S, NEW T, IsFiniteSet(T), S \subseteq T
    PROVE  \A e : /\ Later(S, e) \subseteq Later(T, e)
                  /\ Cardinality(Later(S, e)) \in Nat /\ Cardinality(Later(T, e)) \in Nat
                  /\ Cardinality(Later(S, e)) <= Cardinality(Later(T, e))
<1> SUFFICES ASSUME NEW e
             PROVE  /\ Later(S, e) \subseteq Later(T, e)
                    /\ Cardinality(Later(S, e)) \in Nat /\ Cardinality(Later(T, e)) \in Nat
                    /\ Cardinality(Later(S, e)) <= Cardinality(Later(T, e))
  OBVIOUS
<1>1. Later(S, e) \subseteq Later(T, e) /\ Later(T, e) \subseteq T
  BY DEF Later
<1>2. IsFiniteSet(Later(T, e))
  BY <1>1, FS_Subset
<1>3. /\ IsFiniteSet(Later(S, e))
      /\ Cardinality(Later(S, e)) <= Cardinality(Later(T, e))
  BY <1>1, <1>2, FS_Subset
<1> QED BY <1>1, <1>2, <1>3, FS_CardinalityType

\* Among some events of talk, one is the latest.
LEMMA LatestExists ==
    ASSUME NEW S, S \subseteq Event, IsFiniteSet(S), NEW T, T \subseteq Talk(S), T # {}
    PROVE  \E g \in T : \A h \in T : h \notin Later(S, g)
<1> DEFINE count(e) == Cardinality(Later(S, e))
           C == {count(e) : e \in T}
<1>1. \A e : count(e) \in Nat
  BY LaterCounts
<1>2. C \subseteq Nat /\ C # {}
  BY <1>1
<1>3. \E m \in C : \A y \in C : ~ (<<y, m>> \in LessThan)
  <2> HIDE DEF C
  <2> QED BY <1>2, LessThanWF, WFMin
<1>4. PICK g \in T : \A h \in T : ~ (<<count(h), count(g)>> \in LessThan)
  BY <1>3
<1>5. \A h \in T : ~ (count(h) < count(g))
  BY <1>1, <1>4 DEF LessThan
<1>6. ASSUME NEW h \in T, h \in Later(S, g) PROVE FALSE
  <2>1. g \in Event /\ h \in Event /\ h \in S
    BY DEF Talk
  <2>2. Later(S, h) \subseteq Later(S, g) /\ h \notin Later(S, h)
    <3>1. \A x \in Later(S, h) : x \in Event
      BY DEF Later
    <3> QED BY <1>6, <2>1, <3>1, LaterOrder
  <2>3. IsFiniteSet(Later(S, g))
    <3>1. Later(S, g) \subseteq S
      BY DEF Later
    <3> QED BY <3>1, FS_Subset
  <2>4. count(h) <= count(g) /\ count(h) # count(g)
    BY <1>6, <2>2, <2>3, FS_Subset
  <2> QED BY <1>1, <1>5, <2>4
<1> QED BY <1>6

\* The newest Keep of S bury whatever S buries.
LEMMA RecentBuries ==
    ASSUME NEW S, S \subseteq Event, IsFiniteSet(S), NEW e \in Event,
           Cardinality(Later(S, e)) >= Keep
    PROVE  Cardinality(Later(Recent(S), e)) >= Keep
<1> DEFINE L == Later(S, e)
           R == Later(Recent(S), e)
<1>1. /\ Recent(S) \subseteq S
      /\ L \subseteq Talk(S) /\ R \subseteq L
      /\ \A g \in L : Cardinality(Later(S, g)) < Keep => g \in R
  BY DEF Recent, Later, Talk
<1>2. /\ Cardinality(R) \in Nat /\ Cardinality(L) \in Nat /\ Keep \in Nat
      /\ \A g : Cardinality(Later(S, g)) \in Nat
  BY <1>1, LaterCounts, LogAssumption
<1>3. SUFFICES ASSUME Cardinality(R) < Keep PROVE FALSE
  BY <1>2
<1>4. L \ R # {}
  <2>1. L \ R = {} => L = R
    BY <1>1
  <2> HIDE DEF L, R
  <2> QED BY <1>2, <1>3, <2>1 DEF L
<1>5. PICK g \in L \ R : \A h \in L \ R : h \notin Later(S, g)
  <2>1. L \ R \subseteq Talk(S)
    BY <1>1
  <2> HIDE DEF L, R
  <2> QED BY <1>4, <2>1, LatestExists
<1>6. Later(S, g) \subseteq R
  <2> SUFFICES ASSUME NEW h \in Later(S, g) PROVE h \in R
    OBVIOUS
  <2>1. h \in Event /\ g \in Event /\ g \in Later(S, e)
    BY <1>5 DEF Later
  <2>2. h \in L
    BY <2>1, LaterOrder
  <2> QED BY <1>5, <2>2
<1>7. Cardinality(Later(S, g)) <= Cardinality(R)
  <2>1. IsFiniteSet(R)
    <3>1. R \subseteq S
      BY <1>1 DEF Later
    <3> QED BY <3>1, FS_Subset
  <2> QED BY <1>6, <2>1, FS_Subset
<1>8. g \in R
  <2> HIDE DEF L, R
  <2> QED BY <1>1, <1>2, <1>3, <1>5, <1>7
<1> QED BY <1>5, <1>8

\* What is buried is not among the newest Keep, and hides none of them.
LEMMA BuriedWindow ==
    ASSUME NEW R, R \subseteq Event, IsFiniteSet(R), NEW S, S \subseteq R, Buried(S, R)
    PROVE  Recent(S) = Recent(R)
<1>1. /\ Keep \in Nat
      /\ \A e : /\ Cardinality(Later(S, e)) \in Nat /\ Cardinality(Later(R, e)) \in Nat
                /\ Cardinality(Later(S, e)) <= Cardinality(Later(R, e))
  BY LaterCounts, LogAssumption
<1>2. ASSUME NEW e \in Recent(R) PROVE e \in Recent(S)
  <2>1. e \in Talk(R) /\ Cardinality(Later(R, e)) < Keep /\ e.kind = "talk"
    BY DEF Recent, Talk
  <2>2. Cardinality(Later(S, e)) < Keep
    BY <1>1, <2>1
  <2>3. e \in S
    BY <1>1, <2>1, <2>2 DEF Buried
  <2> QED BY <2>1, <2>2, <2>3 DEF Recent
<1>3. ASSUME NEW e \in Recent(S) PROVE e \in Recent(R)
  <2>1. e \in S /\ e.kind = "talk" /\ Cardinality(Later(S, e)) < Keep /\ e \in Event
    BY DEF Recent
  <2>2. Later(R, e) \subseteq S
    <3> SUFFICES ASSUME NEW f \in Later(R, e), f \notin S PROVE FALSE
      OBVIOUS
    <3>1. f \in Talk(R) \ S /\ f \in Event
      BY DEF Later, Talk
    <3>2. Cardinality(Later(S, f)) >= Keep
      BY <3>1 DEF Buried
    <3>3. Later(S, f) \subseteq Later(S, e)
      <4> SUFFICES ASSUME NEW g \in Later(S, f) PROVE g \in Later(S, e)
        OBVIOUS
      <4>1. g \in S /\ g \in Later(R, f) /\ g \in Event
        BY DEF Later
      <4>2. g \in Later(R, e)
        BY <2>1, <3>1, <4>1, LaterOrder
      <4> QED BY <4>1, <4>2 DEF Later
    <3>4. IsFiniteSet(Later(S, e))
      <4>1. Later(S, e) \subseteq R
        BY DEF Later
      <4> QED BY <4>1, FS_Subset
    <3>5. Cardinality(Later(S, f)) <= Cardinality(Later(S, e))
      BY <3>3, <3>4, FS_Subset
    <3> QED BY <1>1, <2>1, <3>2, <3>5
  <2>3. Later(R, e) = Later(S, e)
    BY <2>2 DEF Later
  <2> QED BY <2>1, <2>3 DEF Recent
<1> QED BY <1>2, <1>3

LEMMA BuriedGrows ==
    ASSUME NEW R, NEW S, S \subseteq R, IsFiniteSet(R), Buried(S, R), NEW e
    PROVE  Buried(S \cup {e}, R \cup {e})
<1> SUFFICES ASSUME NEW f \in Talk(R \cup {e}) \ (S \cup {e})
             PROVE  Cardinality(Later(S \cup {e}, f)) >= Keep
  BY DEF Buried
<1>1. Cardinality(Later(S, f)) >= Keep
  BY DEF Buried, Talk
<1>2. IsFiniteSet(S \cup {e})
  BY FS_Subset, FS_AddElement
<1> QED BY <1>1, <1>2, LaterCounts, LogAssumption

LEMMA BuriedCompacted ==
    ASSUME NEW R, R \subseteq Event, IsFiniteSet(R), NEW S, S \subseteq R, Buried(S, R)
    PROVE  Buried(Recent(S), R)
<1> SUFFICES ASSUME NEW f \in Talk(R) \ Recent(S)
             PROVE  Cardinality(Later(Recent(S), f)) >= Keep
  BY DEF Buried
<1>1. IsFiniteSet(S) /\ S \subseteq Event /\ f \in Event /\ f.kind = "talk"
  BY FS_Subset DEF Talk
<1>2. Cardinality(Later(S, f)) \in Nat /\ Keep \in Nat
  BY <1>1, LaterCounts, LogAssumption
<1>3. Cardinality(Later(S, f)) >= Keep
  <2>1. CASE f \in S
    BY <1>1, <1>2, <2>1 DEF Recent
  <2>2. CASE f \notin S
    BY <2>2 DEF Buried
  <2> QED BY <2>1, <2>2
<1> QED BY <1>1, <1>3, RecentBuries

LEMMA WindowInit == Init => WindowInv
<1> SUFFICES ASSUME Init PROVE WindowInv
  OBVIOUS
<1>1. RecoveredRoom = {} /\ Readable = {}
  BY DEF Init, RecoveredRoom, Accepted, Readable
<1> QED BY <1>1, FS_EmptySet DEF WindowInv, Buried, Talk

\* A record that lands is the newest line; a compaction leaves the window.
LEMMA WindowStep ==
    ASSUME AppendFaults = {}, RoomInv, WindowInv, [Next]_vars
    PROVE  WindowInv'
<1>1. RoomInv' /\ (RoomStays \/ \E k \in Kinds : RoomGains(NewEvent(k)))
  BY RoomInvStep
<1>n. /\ last_seq \in Nat
      /\ \A k \in Kinds : calls < MaxCalls => NewEvent(k) \in Event /\ NewEvent(k).seq > 0
  BY SeqTypes, NewEventType DEF RoomInv, SeqInv
<1>2. ASSUME RoomStays, Readable' = Readable PROVE WindowInv'
  BY <1>2 DEF RoomStays, WindowInv
<1>3. ASSUME NEW k \in Kinds, phase = "up", calls < MaxCalls,
             LeavesBare(NewEvent(k)) \/ LeavesWhole(NewEvent(k))
      PROVE  WindowInv'
  <2> DEFINE e == NewEvent(k)
  <2>1. RecoveredRoom' = RecoveredRoom \cup {e}
    BY <1>3, RecordLands DEF RoomGains
  <2>2. Readable' = Readable \cup {e}
    <3>1. CleanEnd
      BY <1>3 DEF RoomInv, DiskIsClean
    <3> HIDE DEF e
    <3> QED BY <1>3, <3>1 DEF LeavesBare, LeavesWhole, Readable, CleanEnd, e
  <2>3. e \in Event /\ e.seq > 0
    BY <1>n, <1>3
  <2> HIDE DEF e
  <2>4. IsFiniteSet(RecoveredRoom \cup {e})
    BY FS_AddElement DEF WindowInv
  <2>5. Buried(Readable \cup {e}, RecoveredRoom \cup {e})
    BY BuriedGrows DEF WindowInv
  <2> QED BY <2>1, <2>2, <2>3, <2>4, <2>5 DEF WindowInv
<1>4. CASE Start
  <2>1. Readable' = Readable /\ snapshot' = snapshot /\ garbled' = garbled
    BY <1>4 DEF Start, Readable
  <2> QED BY <1>2, <2>1, SameDiskSameRoom
<1>5. ASSUME NEW k \in Kinds, AppendOk(k) PROVE WindowInv'
  BY <1>3, <1>5 DEF AppendOk
<1>6. ASSUME NEW k \in Kinds, AppendFails(k) PROVE WindowInv'
  <2>1. UNCHANGED disk
    BY <1>6 DEF AppendFails, LeavesNothing
  <2> QED BY <1>2, <2>1, SameDiskSameRoom DEF disk, Readable
<1>7. ASSUME NEW k \in Kinds, CrashInAppend(k) PROVE WindowInv'
  <2>1. CASE LeavesTorn
    <3>1. snapshot' = snapshot /\ Readable' = Readable /\ garbled' = garbled
      BY <1>7, <2>1 DEF CrashInAppend, LeavesTorn, Readable, RoomInv, DiskIsClean, CleanEnd
    <3> QED BY <1>2, <3>1, SameDiskSameRoom
  <2>2. CASE LeavesBare(NewEvent(k)) \/ LeavesWhole(NewEvent(k))
    BY <1>3, <1>7, <2>2 DEF CrashInAppend
  <2> QED BY <1>7, <2>1, <2>2 DEF CrashInAppend
<1>8. CASE ReplaceSnapshot
  <2>1. Readable' = Readable /\ last_seq' = last_seq /\ RecoveredRoom' = RecoveredRoom
    <3>1. /\ phase = "up" /\ phase' = "replaced" /\ DiskTopAtMost(last_seq) /\ state' = state
          /\ snapshot' = [seq |-> last_seq, state |-> state] /\ Readable' = Readable
          /\ garbled' = garbled
      BY <1>8 DEF ReplaceSnapshot, Readable
    <3>2. state' = RecoveredRoom' /\ state = RecoveredRoom
      BY <1>1, <3>1 DEF RoomInv, MemoryIsDisk
    <3> QED BY <1>8, <3>1, <3>2 DEF ReplaceSnapshot
  <2> QED BY <2>1 DEF WindowInv
<1>9. CASE ReplaceLog
  <2>1. /\ phase = "replaced" /\ garbled' = FALSE /\ snapshot' = snapshot
        /\ file' = {e \in Recent(Readable) : e.seq > 0} \cup Tail /\ bare' = {}
    BY <1>9 DEF ReplaceLog
  <2>2. Accepted = {} /\ Tail = {} /\ ~garbled
    BY <2>1 DEF RoomInv, LogIsCovered, MemoryIsDisk, DiskIsClean
  <2>3. Readable' = Recent(Readable)
    BY <2>1, <2>2 DEF Readable, Recent, WindowInv
  <2>4. RecoveredRoom' = RecoveredRoom
    <3>1. Accepted' = {}
      BY <2>1, <2>2, <2>3 DEF Accepted, Recent
    <3> QED BY <2>1, <2>2, <3>1 DEF RecoveredRoom
  <2>5. Buried(Recent(Readable), RecoveredRoom)
    BY BuriedCompacted DEF WindowInv
  <2> QED BY <2>3, <2>4, <2>5 DEF WindowInv, Recent
<1>10. CASE ReplaceLogFails \/ Crash \/ UNCHANGED vars
  <2>1. UNCHANGED disk
    BY <1>10 DEF ReplaceLogFails, Crash, vars
  <2> QED BY <1>2, <2>1, SameDiskSameRoom DEF disk, Readable
<1> QED BY <1>4, <1>5, <1>6, <1>7, <1>8, <1>9, <1>10 DEF Next

\* The talk a returning agent is owed is on disk: compaction drops only what lies
\* before the newest Keep events of talk of the whole history.
THEOREM WindowIsKept ==
    ASSUME AppendFaults = {}
    PROVE  Spec => []TalkWindow
<1>1. WindowInv => TalkWindow
  BY BuriedWindow DEF WindowInv, TalkWindow
<1>2. RoomInv /\ WindowInv /\ [Next]_vars => WindowInv'
  BY WindowStep
<1> QED BY <1>1, <1>2, WindowInit, RoomInvariant, PTL DEF Spec
=============================================================================
