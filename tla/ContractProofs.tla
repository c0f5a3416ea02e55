---------------------------- MODULE ContractProofs ----------------------------
(***************************************************************************)
(* The installer, for any number of runs, any texts, and any edits of the  *)
(* owner: the four properties that Contract.cfg checks on a few texts.     *)
(*                                                                         *)
(* The first parts are about the texts alone.  A sound text is free of     *)
(* markers, or a part before the block, the block, and a part after it,    *)
(* and the three parts are unique (SoundForm); from that form one reads    *)
(* what zastosuj and usun keep, that doing either twice is doing it once,  *)
(* that usun takes back what zastosuj did, and that an import or the       *)
(* contract is in what a run wants (WantedKeeps).  None of this needs      *)
(* induction: where a text begins or ends with newlines is a least or a    *)
(* greatest position.                                                      *)
(*                                                                         *)
(* The invariant is then about each run by itself: what it has planned is  *)
(* sound, keeps the words that were outside the block when it read, can be *)
(* taken back, and, while the run is alone, is what there is to do.        *)
(***************************************************************************)
EXTENDS Contract, FiniteSetTheorems, SequenceTheorems, WellFoundedInduction, TLAPS

\* A text free of markers, one of newlines, and a block with its two markers.
Texts == Seq(Tokens)
Markers == {"start", "end"}
Plain(t) == \A k \in DOMAIN t : t[k] \notin Markers
Blank(t) == \A k \in DOMAIN t : t[k] = "nl"
Whole(m) ==
    /\ Len(m) >= 2 /\ m[1] = "start" /\ m[Len(m)] = "end"
    /\ \A k \in 2..Len(m) - 1 : m[k] \notin Markers

-----------------------------------------------------------------------------
(* Positions. *)

LessThan == {ss \in Nat \X Nat : ss[1] < ss[2]}

LEMMA LeastExists ==
    ASSUME NEW S, S \subseteq Nat, S # {}
    PROVE  \E m \in S : \A y \in S : m <= y
<1>1. IsWellFoundedOn(LessThan, Nat)
  BY NatLessThanWellFounded DEF OpToRel, LessThan
<1>2. PICK m \in S : \A y \in S : ~ (<<y, m>> \in LessThan)
  BY <1>1, WFMin
<1>3. m \in Nat /\ \A y \in S : y \in Nat /\ ~ (y < m)
  BY <1>2 DEF LessThan
<1> QED BY <1>3

LEMMA GreatestExists ==
    ASSUME NEW n \in Nat, NEW S, S \subseteq 0..n, S # {}
    PROVE  \E m \in S : \A y \in S : m >= y
<1> DEFINE T == {n - k : k \in S}
<1>1. T \subseteq Nat /\ T # {}
  <2>1. \A k \in S : n - k \in Nat /\ n - k \in T
    OBVIOUS
  <2>2. \E k : k \in S
    OBVIOUS
  <2> QED BY <2>1, <2>2
<1>2. PICK m \in T : \A y \in T : m <= y
  BY <1>1, LeastExists
<1>3. PICK k \in S : m = n - k
  BY <1>2
<1>4. \A y \in S : n - k <= n - y
  BY <1>2, <1>3
<1>5. \A y \in S : k >= y
  BY <1>4
<1> QED BY <1>5

LEMMA MinIs ==
    ASSUME NEW S, S \subseteq Nat, NEW m \in S, \A y \in S : m <= y
    PROVE  Min(S) = m
<1>1. \A x \in S : (\A y \in S : x <= y) => x = m
  <2> SUFFICES ASSUME NEW x \in S, \A y \in S : x <= y PROVE x = m
    OBVIOUS
  <2>1. x <= m /\ m <= x /\ x \in Nat /\ m \in Nat
    OBVIOUS
  <2> QED BY <2>1
<1>2. Min(S) \in S /\ \A y \in S : Min(S) <= y
  BY Zenon DEF Min
<1> QED BY <1>1, <1>2

LEMMA MaxIs ==
    ASSUME NEW S, S \subseteq Nat, NEW m \in S, \A y \in S : m >= y
    PROVE  Max(S) = m
<1>1. \A x \in S : (\A y \in S : x >= y) => x = m
  <2> SUFFICES ASSUME NEW x \in S, \A y \in S : x >= y PROVE x = m
    OBVIOUS
  <2>1. x >= m /\ m >= x /\ x \in Nat /\ m \in Nat
    OBVIOUS
  <2> QED BY <2>1
<1>2. Max(S) \in S /\ \A y \in S : Max(S) >= y
  BY Zenon DEF Max
<1> QED BY <1>1, <1>2

LEMMA CatAt ==
    ASSUME NEW s \in Texts, NEW t \in Texts
    PROVE  /\ s \o t \in Texts /\ Len(s) \in Nat /\ Len(t) \in Nat
           /\ Len(s \o t) = Len(s) + Len(t)
           /\ DOMAIN s = 1..Len(s) /\ DOMAIN t = 1..Len(t)
           /\ DOMAIN (s \o t) = 1..(Len(s) + Len(t))
           /\ \A i \in 1..Len(s) : (s \o t)[i] = s[i]
           /\ \A i \in 1..Len(t) : (s \o t)[Len(s) + i] = t[i]
           /\ \A i \in 1..(Len(s) + Len(t)) :
                i \in 1..Len(s) \/ (i - Len(s) \in 1..Len(t) /\ (s \o t)[i] = t[i - Len(s)])
<1>1. /\ Len(s) \in Nat /\ Len(t) \in Nat
      /\ DOMAIN s = 1..Len(s) /\ DOMAIN t = 1..Len(t)
  BY LenProperties DEF Texts
<1>2. /\ s \o t \in Texts /\ Len(s \o t) = Len(s) + Len(t)
      /\ \A i \in 1 .. Len(s) + Len(t) : (s \o t)[i] = IF i <= Len(s) THEN s[i] ELSE t[i - Len(s)]
  BY ConcatProperties DEF Texts
<1>3. DOMAIN (s \o t) = 1..(Len(s) + Len(t))
  BY <1>2, LenProperties DEF Texts
<1> HIDE DEF Texts
<1>4. \A i \in 1..Len(s) : (s \o t)[i] = s[i]
  BY <1>1, <1>2
<1>5. \A i \in 1..Len(t) : (s \o t)[Len(s) + i] = t[i]
  <2> TAKE i \in 1..Len(t)
  <2>1. Len(s) + i \in 1 .. Len(s) + Len(t) /\ ~(Len(s) + i <= Len(s)) /\ (Len(s) + i) - Len(s) = i
    BY <1>1
  <2> QED BY <1>2, <2>1
<1>6. \A i \in 1..(Len(s) + Len(t)) :
        i \in 1..Len(s) \/ (i - Len(s) \in 1..Len(t) /\ (s \o t)[i] = t[i - Len(s)])
  <2> TAKE i \in 1..(Len(s) + Len(t))
  <2>1. i \in 1..Len(s) \/ (i - Len(s) \in 1..Len(t) /\ ~(i <= Len(s)))
    BY <1>1
  <2> QED BY <1>2, <2>1
<1> QED BY <1>1, <1>2, <1>3, <1>4, <1>5, <1>6

LEMMA CatFirst ==
    ASSUME NEW s \in Texts, NEW t \in Texts, NEW k \in DOMAIN s
    PROVE  k \in DOMAIN (s \o t) /\ (s \o t)[k] = s[k]
<1>1. /\ DOMAIN s = 1..Len(s) /\ Len(s) \in Nat /\ Len(t) \in Nat
      /\ DOMAIN (s \o t) = 1..(Len(s) + Len(t))
      /\ \A i \in 1..Len(s) : (s \o t)[i] = s[i]
  BY CatAt
<1>2. k \in 1..Len(s) /\ k \in 1..(Len(s) + Len(t))
  BY <1>1
<1> QED BY <1>1, <1>2

LEMMA CatSecond ==
    ASSUME NEW s \in Texts, NEW t \in Texts, NEW k \in DOMAIN t
    PROVE  Len(s) + k \in DOMAIN (s \o t) /\ (s \o t)[Len(s) + k] = t[k]
<1>1. /\ DOMAIN t = 1..Len(t) /\ Len(s) \in Nat /\ Len(t) \in Nat
      /\ DOMAIN (s \o t) = 1..(Len(s) + Len(t))
      /\ \A i \in 1..Len(t) : (s \o t)[Len(s) + i] = t[i]
  BY CatAt
<1>2. k \in 1..Len(t) /\ Len(s) + k \in 1..(Len(s) + Len(t))
  BY <1>1
<1> QED BY <1>1, <1>2

LEMMA CatEither ==
    ASSUME NEW s \in Texts, NEW t \in Texts, NEW k \in DOMAIN (s \o t)
    PROVE  \/ k \in DOMAIN s /\ (s \o t)[k] = s[k]
           \/ k - Len(s) \in DOMAIN t /\ (s \o t)[k] = t[k - Len(s)]
<1>1. /\ DOMAIN s = 1..Len(s) /\ DOMAIN t = 1..Len(t)
      /\ DOMAIN (s \o t) = 1..(Len(s) + Len(t))
      /\ \A i \in 1..Len(s) : (s \o t)[i] = s[i]
      /\ \A i \in 1..(Len(s) + Len(t)) :
           i \in 1..Len(s) \/ (i - Len(s) \in 1..Len(t) /\ (s \o t)[i] = t[i - Len(s)])
  BY CatAt
<1>2. k \in 1..(Len(s) + Len(t))
  BY <1>1
<1> QED BY <1>1, <1>2

\* What holds of each token of two texts holds of each of both, and conversely.
LEMMA CatPlain ==
    ASSUME NEW s \in Texts, NEW t \in Texts
    PROVE  Plain(s \o t) <=> Plain(s) /\ Plain(t)
<1>1. ASSUME Plain(s \o t) PROVE Plain(s) /\ Plain(t)
  <2>1. \A k \in DOMAIN s : k \in DOMAIN (s \o t) /\ (s \o t)[k] = s[k]
    BY CatFirst
  <2>2. \A k \in DOMAIN t : Len(s) + k \in DOMAIN (s \o t) /\ (s \o t)[Len(s) + k] = t[k]
    BY CatSecond
  <2> QED BY <1>1, <2>1, <2>2 DEF Plain
<1>2. ASSUME Plain(s), Plain(t) PROVE Plain(s \o t)
  <2> SUFFICES ASSUME NEW k \in DOMAIN (s \o t) PROVE (s \o t)[k] \notin Markers
    BY DEF Plain
  <2>1. \/ k \in DOMAIN s /\ (s \o t)[k] = s[k]
        \/ k - Len(s) \in DOMAIN t /\ (s \o t)[k] = t[k - Len(s)]
    BY CatEither
  <2> QED BY <1>2, <2>1 DEF Plain
<1> QED BY <1>1, <1>2

LEMMA CatBlank ==
    ASSUME NEW s \in Texts, NEW t \in Texts
    PROVE  Blank(s \o t) <=> Blank(s) /\ Blank(t)
<1>1. ASSUME Blank(s \o t) PROVE Blank(s) /\ Blank(t)
  <2>1. \A k \in DOMAIN s : k \in DOMAIN (s \o t) /\ (s \o t)[k] = s[k]
    BY CatFirst
  <2>2. \A k \in DOMAIN t : Len(s) + k \in DOMAIN (s \o t) /\ (s \o t)[Len(s) + k] = t[k]
    BY CatSecond
  <2> QED BY <1>1, <2>1, <2>2 DEF Blank
<1>2. ASSUME Blank(s), Blank(t) PROVE Blank(s \o t)
  <2> SUFFICES ASSUME NEW k \in DOMAIN (s \o t) PROVE (s \o t)[k] = "nl"
    BY DEF Blank
  <2>1. \/ k \in DOMAIN s /\ (s \o t)[k] = s[k]
        \/ k - Len(s) \in DOMAIN t /\ (s \o t)[k] = t[k - Len(s)]
    BY CatEither
  <2> QED BY <1>2, <2>1 DEF Blank
<1> QED BY <1>1, <1>2

LEMMA CatWords ==
    ASSUME NEW s \in Texts, NEW t \in Texts
    PROVE  Words(s \o t) = Words(s) \cup Words(t)
<1>1. ASSUME NEW w \in Words(s \o t) PROVE w \in Words(s) \cup Words(t)
  <2>1. PICK k \in DOMAIN (s \o t) : w = (s \o t)[k]
    BY DEF Words
  <2>2. \/ k \in DOMAIN s /\ (s \o t)[k] = s[k]
        \/ k - Len(s) \in DOMAIN t /\ (s \o t)[k] = t[k - Len(s)]
    BY CatEither
  <2> QED BY <2>1, <2>2 DEF Words
<1>2. ASSUME NEW w \in Words(s) PROVE w \in Words(s \o t)
  <2>1. PICK k \in DOMAIN s : w = s[k]
    BY DEF Words
  <2>2. k \in DOMAIN (s \o t) /\ (s \o t)[k] = s[k]
    BY CatFirst
  <2> QED BY <2>1, <2>2 DEF Words
<1>3. ASSUME NEW w \in Words(t) PROVE w \in Words(s \o t)
  <2>1. PICK k \in DOMAIN t : w = t[k]
    BY DEF Words
  <2>2. Len(s) + k \in DOMAIN (s \o t) /\ (s \o t)[Len(s) + k] = t[k]
    BY CatSecond
  <2> QED BY <2>1, <2>2 DEF Words
<1> QED BY <1>1, <1>2, <1>3

LEMMA PartAt ==
    ASSUME NEW t \in Texts, NEW m \in 1..Len(t)+1, NEW n \in 0..Len(t), m <= n + 1
    PROVE  /\ SubSeq(t, m, n) \in Texts
           /\ Len(SubSeq(t, m, n)) = n + 1 - m
           /\ DOMAIN SubSeq(t, m, n) = 1..(n + 1 - m)
           /\ \A i \in 1..(n + 1 - m) : SubSeq(t, m, n)[i] = t[m + i - 1]
<1>1. Len(t) \in Nat /\ DOMAIN t = 1..Len(t)
  BY LenProperties DEF Texts
<1>2. m \in Int /\ n \in Int /\ \A i \in m..n : i \in 1..Len(t)
  BY <1>1
<1>3. \A i \in m..n : t[i] \in Tokens
  BY <1>2, ElementOfSeq DEF Texts
<1>4. /\ SubSeq(t, m, n) \in Texts
      /\ Len(SubSeq(t, m, n)) = IF m <= n THEN n-m+1 ELSE 0
      /\ \A i \in 1 .. n-m+1 : SubSeq(t, m, n)[i] = t[m+i-1]
  BY <1>2, <1>3, SubSeqProperties DEF Texts
<1>5. Len(SubSeq(t, m, n)) = n + 1 - m /\ n - m + 1 = n + 1 - m
  BY <1>1, <1>4
<1>6. DOMAIN SubSeq(t, m, n) = 1..(n + 1 - m)
  BY <1>4, <1>5, LenProperties DEF Texts
<1> QED BY <1>4, <1>5, <1>6

LEMMA CutAt ==
    ASSUME NEW t \in Texts, NEW k \in 0..Len(t)
    PROVE  SubSeq(t, 1, k) \o SubSeq(t, k + 1, Len(t)) = t
<1>1. Len(t) \in Nat
  BY LenProperties DEF Texts
<1>2. 1 \in 1 .. Len(t)+1 /\ k \in 1-1 .. Len(t) /\ Len(t) \in k..Len(t)
  BY <1>1
<1>3. SubSeq(t, 1, k) \o SubSeq(t, k + 1, Len(t)) = SubSeq(t, 1, Len(t))
  BY <1>2, ConcatAdjacentSubSeq DEF Texts
<1> QED BY <1>3, SubSeqFull DEF Texts

-----------------------------------------------------------------------------
(* The markers of a text. *)

LEMMA CountIs ==
    ASSUME NEW t \in Texts, NEW x
    PROVE  /\ Count(x, t) = 0 <=> \A k \in DOMAIN t : t[k] # x
           /\ Count(x, t) = 1 <=> \E p \in DOMAIN t : t[p] = x /\ \A k \in DOMAIN t : t[k] = x => k = p
<1> DEFINE K == {k \in DOMAIN t : t[k] = x}
<1>1. IsFiniteSet(DOMAIN t)
  <2>1. Len(t) \in Nat /\ DOMAIN t = 1..Len(t)
    BY LenProperties DEF Texts
  <2> QED BY <2>1, FS_Interval
<1>2. IsFiniteSet(K)
  <2>1. K \subseteq DOMAIN t
    OBVIOUS
  <2> QED BY <1>1, <2>1, FS_Subset
<1>3. Count(x, t) = Cardinality(K)
  BY DEF Count
<1>4. Cardinality(K) = 0 <=> K = {}
  BY <1>2, FS_EmptySet
<1>5. Cardinality(K) = 1 <=> \E p : K = {p}
  BY <1>2, FS_Singleton
<1> QED BY <1>3, <1>4, <1>5

LEMMA AtIs ==
    ASSUME NEW t \in Texts, NEW x, NEW p \in DOMAIN t, t[p] = x,
           \A k \in DOMAIN t : t[k] = x => k = p
    PROVE  At(x, t) = p
<1> DEFINE K == {i \in 1..Len(t) : t[i] = x}
<1>1. Len(t) \in Nat /\ DOMAIN t = 1..Len(t)
  BY LenProperties DEF Texts
<1>2. K \subseteq Nat /\ p \in K /\ \A y \in K : p <= y
  BY <1>1
<1>3. At(x, t) = IF K # {} THEN Min(K) ELSE 0
  BY DEF At, SelectInSeq
<1> HIDE DEF K
<1> QED BY <1>2, <1>3, MinIs

\* A text with one marker of each kind, in order.
LEMMA MarkersAt ==
    ASSUME NEW t \in Texts, NEW p \in DOMAIN t, NEW q \in DOMAIN t, p < q,
           t[p] = "start", \A k \in DOMAIN t : t[k] = "start" => k = p,
           t[q] = "end", \A k \in DOMAIN t : t[k] = "end" => k = q
    PROVE  At("start", t) = p /\ At("end", t) = q /\ Sound(t) /\ HasBlock(t)
<1>1. At("start", t) = p
  BY AtIs
<1>2. At("end", t) = q
  BY AtIs
<1>3. Count("start", t) = 1
  BY CountIs
<1>4. Count("end", t) = 1
  BY CountIs
<1>5. DOMAIN t = 1..Len(t)
  BY LenProperties DEF Texts
<1>6. HasBlock(t)
  BY <1>5 DEF HasBlock, Contains
<1> QED BY <1>1, <1>2, <1>3, <1>4, <1>6 DEF Sound

\* A text with a block is what precedes it, the block and what follows it.
Parts(t, a, m, c) == t = (a \o m) \o c

LEMMA Form ==
    ASSUME NEW a \in Texts, NEW m \in Texts, NEW c \in Texts, NEW t,
           Plain(a), Plain(c), Whole(m), Parts(t, a, m, c)
    PROVE  t \in Texts /\ Sound(t) /\ HasBlock(t) /\ Before(t) = a /\ After(t) = c
<1> PICK d : d = a \o m
  OBVIOUS
<1>0. t = d \o c
  BY DEF Parts
<1> DEFINE p == Len(a) + 1
           q == Len(a) + Len(m)
<1>1. /\ Len(a) \in Nat /\ Len(m) \in Nat /\ Len(c) \in Nat /\ Len(m) >= 2
      /\ DOMAIN a = 1..Len(a) /\ DOMAIN m = 1..Len(m) /\ DOMAIN c = 1..Len(c)
  BY LenProperties DEF Texts, Whole
<1>2. /\ d \in Texts /\ Len(d) = q
      /\ t \in Texts /\ Len(t) = q + Len(c) /\ DOMAIN t = 1..(q + Len(c))
  BY <1>0, CatAt
<1>3. \A k \in 1..Len(m) : Len(a) + k \in DOMAIN t /\ t[Len(a) + k] = m[k]
  <2> TAKE k \in 1..Len(m)
  <2>1. Len(a) + k \in DOMAIN d /\ d[Len(a) + k] = m[k]
    BY <1>1, CatSecond
  <2> QED BY <1>0, <1>2, <2>1, CatFirst
<1>4. \A k \in DOMAIN t :
        \/ k \in 1..Len(a) /\ t[k] = a[k]
        \/ k - Len(a) \in 1..Len(m) /\ t[k] = m[k - Len(a)]
        \/ k - q \in 1..Len(c) /\ t[k] = c[k - q]
  <2> TAKE k \in DOMAIN t
  <2>1. \/ k \in DOMAIN d /\ t[k] = d[k]
        \/ k - q \in DOMAIN c /\ t[k] = c[k - q]
    BY <1>0, <1>2, CatEither
  <2>2. CASE k \in DOMAIN d /\ t[k] = d[k]
    <3>1. \/ k \in DOMAIN a /\ d[k] = a[k]
          \/ k - Len(a) \in DOMAIN m /\ d[k] = m[k - Len(a)]
      BY <2>2, CatEither
    <3> QED BY <1>1, <2>2, <3>1
  <2> QED BY <1>1, <2>1, <2>2
<1>5. p \in DOMAIN t /\ t[p] = "start" /\ q \in DOMAIN t /\ t[q] = "end" /\ p < q
  <2>1. 1 \in 1..Len(m) /\ Len(m) \in 1..Len(m)
    BY <1>1
  <2> QED BY <1>1, <1>3, <2>1 DEF Whole
<1>6. \A k \in DOMAIN t : t[k] = "start" => k = p
  <2> SUFFICES ASSUME NEW k \in DOMAIN t, t[k] = "start" PROVE k = p
    OBVIOUS
  <2>1. k - Len(a) \in 1..Len(m) /\ m[k - Len(a)] = "start"
    BY <1>1, <1>4 DEF Plain, Markers
  <2>2. k - Len(a) = 1
    BY <1>1, <2>1 DEF Whole, Markers
  <2> QED BY <1>1, <1>2, <2>2
<1>7. \A k \in DOMAIN t : t[k] = "end" => k = q
  <2> SUFFICES ASSUME NEW k \in DOMAIN t, t[k] = "end" PROVE k = q
    OBVIOUS
  <2>1. k - Len(a) \in 1..Len(m) /\ m[k - Len(a)] = "end"
    BY <1>1, <1>4 DEF Plain, Markers
  <2>2. k - Len(a) = Len(m)
    BY <1>1, <2>1 DEF Whole, Markers
  <2>3. k \in Int /\ Len(a) \in Nat /\ Len(m) \in Nat
    BY <1>1, <1>2
  <2>4. \A x, y, z \in Int : x - y = z => x = y + z
    OBVIOUS
  <2>5. k \in Int /\ Len(a) \in Int /\ Len(m) \in Int
    BY <2>3
  <2>6. k = Len(a) + Len(m)
    BY <2>2, <2>4, <2>5, ZenonT(60)
  <2> QED BY <2>6
<1>8. At("start", t) = p /\ At("end", t) = q /\ Sound(t) /\ HasBlock(t)
  <2> HIDE DEF p, q
  <2> QED BY <1>2, <1>5, <1>6, <1>7, MarkersAt
<1>12. Before(t) = a
  <2>1. Before(t) = SubSeq(t, 1, Len(a))
    BY <1>1, <1>8 DEF Before
  <2>2. 1 \in 1..Len(t) + 1 /\ Len(a) \in 0..Len(t) /\ 1 <= Len(a) + 1
    BY <1>1, <1>2
  <2>3. /\ SubSeq(t, 1, Len(a)) \in Texts /\ Len(SubSeq(t, 1, Len(a))) = Len(a)
        /\ \A i \in 1..Len(a) : SubSeq(t, 1, Len(a))[i] = t[i]
    <3>1. /\ SubSeq(t, 1, Len(a)) \in Texts /\ Len(SubSeq(t, 1, Len(a))) = Len(a) + 1 - 1
          /\ \A i \in 1..(Len(a) + 1 - 1) : SubSeq(t, 1, Len(a))[i] = t[1 + i - 1]
      BY <1>2, <2>2, PartAt
    <3>2. Len(a) + 1 - 1 = Len(a) /\ \A i \in 1..Len(a) : 1 + i - 1 = i
      BY <1>1
    <3> QED BY <3>1, <3>2
  <2>4. \A i \in 1..Len(a) : t[i] = a[i]
    <3> TAKE i \in 1..Len(a)
    <3>1. i \in DOMAIN d /\ d[i] = a[i]
      BY <1>1, CatFirst
    <3> QED BY <1>0, <1>2, <3>1, CatFirst
  <2>5. SubSeq(t, 1, Len(a)) = a
    BY <2>3, <2>4, SeqEqual DEF Texts
  <2> QED BY <2>1, <2>5
<1>13. After(t) = c
  <2>1. After(t) = SubSeq(t, q + 1, Len(t))
    BY <1>8 DEF After
  <2>2. q + 1 \in 1..Len(t) + 1 /\ Len(t) \in 0..Len(t) /\ q + 1 <= Len(t) + 1
    BY <1>1, <1>2
  <2>3. /\ SubSeq(t, q + 1, Len(t)) \in Texts
        /\ Len(SubSeq(t, q + 1, Len(t))) = Len(c)
        /\ \A i \in 1..Len(c) : SubSeq(t, q + 1, Len(t))[i] = t[q + i]
    <3>1. /\ SubSeq(t, q + 1, Len(t)) \in Texts
          /\ Len(SubSeq(t, q + 1, Len(t))) = Len(t) + 1 - (q + 1)
          /\ \A i \in 1..(Len(t) + 1 - (q + 1)) : SubSeq(t, q + 1, Len(t))[i] = t[(q + 1) + i - 1]
      BY <1>2, <2>2, PartAt
    <3>2. Len(t) + 1 - (q + 1) = Len(c) /\ \A i \in 1..Len(c) : (q + 1) + i - 1 = q + i
      BY <1>1, <1>2
    <3> QED BY <3>1, <3>2
  <2>4. \A i \in 1..Len(c) : t[q + i] = c[i]
    BY <1>0, <1>1, <1>2, CatSecond
  <2>5. SubSeq(t, q + 1, Len(t)) = c
    BY <2>3, <2>4, SeqEqual DEF Texts
  <2> QED BY <2>1, <2>5
<1> QED BY <1>2, <1>8, <1>12, <1>13

LEMMA PlainForm ==
    ASSUME NEW t \in Texts, Plain(t)
    PROVE  Sound(t) /\ ~HasBlock(t) /\ Outside(t) = Words(t)
<1>1. DOMAIN t = 1..Len(t)
  BY LenProperties DEF Texts
<1>2. ~HasBlock(t)
  BY <1>1 DEF HasBlock, Contains, Plain, Markers
<1>3. Count("start", t) = 0 /\ Count("end", t) = 0
  BY CountIs DEF Plain, Markers
<1> QED BY <1>2, <1>3 DEF Sound, Outside

LEMMA SoundMarkers ==
    ASSUME NEW t \in Texts, Sound(t), HasBlock(t)
    PROVE  \E p, q \in DOMAIN t : /\ p < q
              /\ t[p] = "start" /\ (\A k \in DOMAIN t : t[k] = "start" => k = p)
              /\ t[q] = "end" /\ (\A k \in DOMAIN t : t[k] = "end" => k = q)
<1>1. DOMAIN t = 1..Len(t)
  BY LenProperties DEF Texts
<1>2. ~(Count("start", t) = 0)
  <2>1. \E k \in DOMAIN t : t[k] = "start"
    BY <1>1 DEF HasBlock, Contains
  <2> QED BY <2>1, CountIs
<1>3. /\ Count("start", t) = 1 /\ Count("end", t) = 1 /\ At("start", t) < At("end", t)
  BY <1>2 DEF Sound
<1>4. PICK p \in DOMAIN t : t[p] = "start" /\ \A k \in DOMAIN t : t[k] = "start" => k = p
  BY <1>3, CountIs
<1>5. PICK q \in DOMAIN t : t[q] = "end" /\ \A k \in DOMAIN t : t[k] = "end" => k = q
  BY <1>3, CountIs
<1>6. At("start", t) = p
  BY <1>4, AtIs
<1>7. At("end", t) = q
  BY <1>5, AtIs
<1> QED BY <1>3, <1>4, <1>5, <1>6, <1>7

\* A sound text has no marker, or this form.
BlockForm(t, m) ==
    /\ Before(t) \in Texts /\ After(t) \in Texts /\ m \in Texts
    /\ Plain(Before(t)) /\ Plain(After(t)) /\ Whole(m)
    /\ Parts(t, Before(t), m, After(t))

LEMMA SoundForm ==
    ASSUME NEW t \in Texts, Sound(t)
    PROVE  /\ ~HasBlock(t) => Plain(t)
           /\ HasBlock(t) => \E m : BlockForm(t, m)
<1>1. Len(t) \in Nat /\ DOMAIN t = 1..Len(t)
  BY LenProperties DEF Texts
<1>2. CASE Count("start", t) = 0 /\ Count("end", t) = 0
  <2>1. Plain(t)
    BY <1>2, CountIs DEF Plain, Markers
  <2> QED BY <2>1, PlainForm
<1>3. CASE ~(Count("start", t) = 0 /\ Count("end", t) = 0)
  <2>1. /\ Count("start", t) = 1 /\ Count("end", t) = 1 /\ At("start", t) < At("end", t)
    BY <1>3 DEF Sound
  <2>2. PICK p \in DOMAIN t : t[p] = "start" /\ \A k \in DOMAIN t : t[k] = "start" => k = p
    BY <2>1, CountIs
  <2>3. PICK q \in DOMAIN t : t[q] = "end" /\ \A k \in DOMAIN t : t[k] = "end" => k = q
    BY <2>1, CountIs
  <2>4. At("start", t) = p /\ At("end", t) = q
    BY <2>2, <2>3, AtIs
  <2>5. p \in 1..Len(t) /\ q \in 1..Len(t) /\ p < q
    BY <1>1, <2>1, <2>4
  <2> DEFINE m == SubSeq(t, p, q)
  <2>6. Before(t) = SubSeq(t, 1, p - 1) /\ After(t) = SubSeq(t, q + 1, Len(t))
    BY <2>4 DEF Before, After
  <2>7. HasBlock(t)
    BY <1>1, <2>2, <2>3 DEF HasBlock, Contains
  <2>8. /\ Before(t) \in Texts /\ DOMAIN Before(t) = 1..(p - 1)
        /\ \A i \in 1..(p - 1) : Before(t)[i] = t[i]
    <3>1. 1 \in 1..Len(t)+1 /\ p - 1 \in 0..Len(t) /\ 1 <= (p - 1) + 1
      BY <1>1, <2>5
    <3>2. /\ Before(t) \in Texts /\ DOMAIN Before(t) = 1..((p - 1) + 1 - 1)
          /\ \A i \in 1..((p - 1) + 1 - 1) : Before(t)[i] = t[1 + i - 1]
      BY <2>6, <3>1, PartAt
    <3>3. (p - 1) + 1 - 1 = p - 1 /\ \A i \in 1..(p - 1) : 1 + i - 1 = i
      BY <2>5
    <3> QED BY <3>2, <3>3
  <2>9. /\ After(t) \in Texts /\ DOMAIN After(t) = 1..(Len(t) - q)
        /\ \A i \in 1..(Len(t) - q) : After(t)[i] = t[q + i]
    <3>1. q + 1 \in 1..Len(t)+1 /\ Len(t) \in 0..Len(t) /\ q + 1 <= Len(t) + 1
      BY <1>1, <2>5
    <3>2. /\ After(t) \in Texts /\ DOMAIN After(t) = 1..(Len(t) + 1 - (q + 1))
          /\ \A i \in 1..(Len(t) + 1 - (q + 1)) : After(t)[i] = t[(q + 1) + i - 1]
      BY <2>6, <3>1, PartAt
    <3>3. Len(t) + 1 - (q + 1) = Len(t) - q /\ \A i \in 1..(Len(t) - q) : (q + 1) + i - 1 = q + i
      BY <1>1, <2>5
    <3> QED BY <3>2, <3>3
  <2>10. /\ m \in Texts /\ Len(m) = q + 1 - p /\ \A i \in 1..(q + 1 - p) : m[i] = t[p + i - 1]
    <3>1. p \in 1..Len(t)+1 /\ q \in 0..Len(t) /\ p <= q + 1
      BY <1>1, <2>5
    <3> QED BY <3>1, PartAt
  <2>11. Plain(Before(t))
    <3> SUFFICES ASSUME NEW i \in 1..(p - 1) PROVE t[i] \notin Markers
      BY <2>8 DEF Plain
    <3>1. i \in DOMAIN t /\ i # p /\ i # q
      BY <1>1, <2>5
    <3> QED BY <2>2, <2>3, <3>1 DEF Markers
  <2>12. Plain(After(t))
    <3> SUFFICES ASSUME NEW i \in 1..(Len(t) - q) PROVE t[q + i] \notin Markers
      BY <2>9 DEF Plain
    <3>1. q + i \in DOMAIN t /\ q + i # p /\ q + i # q
      BY <1>1, <2>5
    <3> QED BY <2>2, <2>3, <3>1 DEF Markers
  <2>13. Whole(m)
    <3>1. Len(m) >= 2 /\ 1 \in 1..(q + 1 - p) /\ Len(m) \in 1..(q + 1 - p)
          /\ p + 1 - 1 = p /\ p + Len(m) - 1 = q
      BY <2>5, <2>10
    <3>2. m[1] = "start" /\ m[Len(m)] = "end"
      BY <2>2, <2>3, <2>10, <3>1
    <3>3. ASSUME NEW i \in 2..Len(m) - 1 PROVE m[i] \notin Markers
      <4>1. i \in 1..(q + 1 - p) /\ p + i - 1 \in DOMAIN t /\ p + i - 1 # p /\ p + i - 1 # q
        BY <1>1, <2>5, <2>10
      <4> QED BY <2>2, <2>3, <2>10, <4>1 DEF Markers
    <3> QED BY <3>1, <3>2, <3>3 DEF Whole
  <2>14. Parts(t, Before(t), m, After(t))
    <3>1. /\ 1 \in 1..Len(t)+1 /\ p - 1 \in 1-1..Len(t) /\ q \in (p - 1)..Len(t)
          /\ (p - 1) + 1 = p /\ q \in 0..Len(t)
      BY <1>1, <2>5
    <3>2. SubSeq(t, 1, p - 1) \o SubSeq(t, (p - 1) + 1, q) = SubSeq(t, 1, q)
      BY <3>1, ConcatAdjacentSubSeq DEF Texts
    <3>3. SubSeq(t, 1, q) \o SubSeq(t, q + 1, Len(t)) = t
      BY <3>1, CutAt
    <3>4. t = (Before(t) \o m) \o After(t)
      BY <2>6, <3>1, <3>2, <3>3
    <3> QED BY <3>4, Zenon DEF Parts
  <2> HIDE DEF m
  <2> QED BY <2>7, <2>8, <2>9, <2>10, <2>11, <2>12, <2>13, <2>14 DEF BlockForm
<1> QED BY <1>2, <1>3

-----------------------------------------------------------------------------
(* Newlines at the ends of a text. *)

LEMMA Empty == <<>> \in Texts /\ Len(<<>>) = 0 /\ DOMAIN <<>> = {}
                /\ Plain(<<>>) /\ Blank(<<>>) /\ Words(<<>>) = {}
<1>1. <<>> \in Texts /\ Len(<<>>) = 0 /\ DOMAIN <<>> = {}
  BY EmptySeq, LenProperties DEF Texts
<1> QED BY <1>1 DEF Plain, Blank, Words

LEMMA LenZero ==
    ASSUME NEW t \in Texts
    PROVE  Len(t) \in Nat /\ DOMAIN t = 1..Len(t) /\ (Len(t) = 0 <=> t = <<>>)
BY EmptySeq, LenProperties DEF Texts

LEMMA CatEmpty ==
    ASSUME NEW t \in Texts
    PROVE  t \o <<>> = t /\ <<>> \o t = t
BY ConcatEmptySeq DEF Texts

LEMMA CatTriple ==
    ASSUME NEW a \in Texts, NEW b \in Texts, NEW c \in Texts
    PROVE  (a \o b) \o c = a \o (b \o c)
BY ConcatAssociative DEF Texts

\* Associativity under a name, to be cited where the provers need the equality
\* and kept from them where they do not.
Associate(a, b, c) == (a \o b) \o c = a \o (b \o c)

LEMMA CatAssociate ==
    ASSUME NEW a \in Texts, NEW b \in Texts, NEW c \in Texts
    PROVE  Associate(a, b, c)
BY CatTriple, Zenon DEF Associate

LEMMA BlankIs ==
    ASSUME NEW t \in Texts, Blank(t)
    PROVE  Plain(t) /\ Words(t) = {}
<1>1. Plain(t)
  BY DEF Plain, Blank, Markers
<1>2. ~("nl" \in OwnerWords)
  BY ContractAssumption
<1> QED BY <1>1, <1>2 DEF Words, Blank

LEMMA StripLeftIs ==
    ASSUME NEW n \in Texts, NEW u \in Texts, NEW t, t = n \o u,
           Blank(n), u # <<>> => u[1] # "nl"
    PROVE  StripLeft(t) = u
<1> DEFINE K == {i \in 1..Len(t) : NotNewline(t[i])}
           k == SelectInSeq(t, NotNewline)
           p == Len(n) + 1
<1>1. k = IF K # {} THEN Min(K) ELSE 0
  BY DEF SelectInSeq
<1>2. /\ Len(n) \in Nat /\ Len(u) \in Nat /\ DOMAIN n = 1..Len(n) /\ DOMAIN u = 1..Len(u)
      /\ Len(t) = Len(n) + Len(u) /\ t \in Texts
  BY CatAt
<1>3. \A i \in 1..Len(n) : t[i] = "nl"
  BY <1>2, CatFirst DEF Blank
<1>4. CASE u = <<>>
  <2>1. Len(u) = 0
    BY <1>4, Empty
  <2>2. K = {}
    BY <1>2, <1>3, <2>1 DEF NotNewline
  <2>3. k = 0
    BY <1>1, <2>2
  <2> QED BY <1>4, <2>3 DEF StripLeft
<1>5. CASE u # <<>>
  <2>1. Len(u) >= 1 /\ 1 \in DOMAIN u
    BY <1>2, <1>5, LenZero
  <2>2. t[p] = u[1]
    BY <2>1, CatSecond
  <2>3. p \in 1..Len(t)
    BY <1>2, <2>1
  <2>4. p \in K
    BY <1>5, <2>2, <2>3 DEF NotNewline
  <2>5. K \subseteq Nat /\ \A y \in K : p <= y
    <3>1. ASSUME NEW y \in K PROVE p <= y
      <4>1. y \in 1..Len(t) /\ t[y] # "nl"
        BY DEF NotNewline
      <4>2. ~(y \in 1..Len(n))
        BY <1>3, <4>1
      <4> QED BY <1>2, <4>1, <4>2
    <3>2. K \subseteq Nat
      BY <1>2
    <3> QED BY <3>1, <3>2
  <2>6. k = p
    <3> HIDE DEF K, k, p
    <3>1. Min(K) = p
      BY <2>4, <2>5, MinIs
    <3> QED BY <1>1, <2>4, <3>1
  <2>7. StripLeft(t) = SubSeq(t, p, Len(t))
    BY <1>2, <2>6 DEF StripLeft
  <2>8. /\ SubSeq(t, p, Len(t)) \in Texts
        /\ Len(SubSeq(t, p, Len(t))) = Len(t) + 1 - p
        /\ \A i \in 1..(Len(t) + 1 - p) : SubSeq(t, p, Len(t))[i] = t[p + i - 1]
    <3>1. p \in 1..Len(t) + 1 /\ Len(t) \in 0..Len(t) /\ p <= Len(t) + 1
      BY <1>2, <2>3
    <3> QED BY <1>2, <3>1, PartAt
  <2>9. Len(t) + 1 - p = Len(u)
    <3> PICK x, y, z : x = Len(n) /\ y = Len(u) /\ z = Len(t)
      OBVIOUS
    <3>1. x \in Nat /\ y \in Nat /\ z = x + y
      BY <1>2
    <3>2. z + 1 - (x + 1) = y
      BY <3>1
    <3> QED BY <3>2
  <2>10. \A i \in 1..Len(u) : t[p + i - 1] = u[i]
    <3> TAKE i \in 1..Len(u)
    <3>1. p + i - 1 = Len(n) + i
      BY <1>2
    <3> QED BY <1>2, <3>1, CatSecond
  <2>11. SubSeq(t, p, Len(t)) = u
    <3> DEFINE s == SubSeq(t, p, Len(t))
    <3>1. s \in Texts /\ Len(s) = Len(u) /\ \A i \in 1..Len(u) : s[i] = u[i]
      BY <2>8, <2>9, <2>10
    <3> HIDE DEF s
    <3>2. s = u
      BY <3>1, SeqEqual DEF Texts
    <3> QED BY <3>2 DEF s
  <2> QED BY <2>7, <2>11
<1> QED BY <1>4, <1>5

LEMMA StripLeftSplit ==
    ASSUME NEW t \in Texts
    PROVE  /\ StripLeft(t) \in Texts
           /\ StripLeft(t) # <<>> => StripLeft(t)[1] # "nl"
           /\ \E n \in Texts : Blank(n) /\ t = n \o StripLeft(t)
<1> DEFINE K == {i \in 1..Len(t) : NotNewline(t[i])}
<1>1. Len(t) \in Nat /\ DOMAIN t = 1..Len(t)
  BY LenZero
<1>2. CASE K = {}
  <2>1. Blank(t)
    BY <1>1, <1>2 DEF Blank, NotNewline
  <2>2. t \o <<>> = t
    BY CatEmpty
  <2>3. StripLeft(t) = <<>>
    BY <2>1, <2>2, Empty, StripLeftIs
  <2> QED BY <2>1, <2>2, <2>3, Empty
<1>3. CASE K # {}
  <2>1. K \subseteq Nat
    BY <1>1
  <2> HIDE DEF K
  <2>2. PICK k \in K : \A y \in K : k <= y
    BY <1>3, <2>1, LeastExists
  <2>3. k \in 1..Len(t) /\ t[k] # "nl" /\ \A y \in 1..Len(t) : t[y] # "nl" => k <= y
    BY <2>2 DEF K, NotNewline
  <2> DEFINE n == SubSeq(t, 1, k - 1)
             u == SubSeq(t, k, Len(t))
  <2>4. n \in Texts /\ Blank(n)
    <3>1. 1 \in 1..Len(t) + 1 /\ k - 1 \in 0..Len(t) /\ 1 <= (k - 1) + 1
      BY <1>1, <2>3
    <3>2. /\ n \in Texts /\ DOMAIN n = 1..((k - 1) + 1 - 1)
          /\ \A i \in 1..((k - 1) + 1 - 1) : n[i] = t[1 + i - 1]
      BY <3>1, PartAt
    <3>3. \A i \in 1..((k - 1) + 1 - 1) : 1 + i - 1 = i /\ i \in 1..Len(t) /\ ~(k <= i)
      BY <1>1, <2>3
    <3>4. \A i \in DOMAIN n : n[i] = "nl"
      BY <2>3, <3>2, <3>3
    <3> QED BY <3>2, <3>4 DEF Blank
  <2>5. u \in Texts /\ u[1] = t[k]
    <3>1. k \in 1..Len(t) + 1 /\ Len(t) \in 0..Len(t) /\ k <= Len(t) + 1
      BY <1>1, <2>3
    <3>2. /\ u \in Texts
          /\ \A i \in 1..(Len(t) + 1 - k) : u[i] = t[k + i - 1]
      BY <3>1, PartAt
    <3>3. 1 \in 1..(Len(t) + 1 - k) /\ k + 1 - 1 = k
      BY <1>1, <2>3
    <3> QED BY <3>2, <3>3
  <2>6. t = n \o u
    <3>1. k - 1 \in 0..Len(t) /\ (k - 1) + 1 = k
      BY <1>1, <2>3
    <3>2. SubSeq(t, 1, k - 1) \o SubSeq(t, (k - 1) + 1, Len(t)) = t
      BY <3>1, CutAt
    <3> QED BY <3>1, <3>2
  <2> HIDE DEF n, u
  <2>7. u[1] # "nl"
    BY <2>3, <2>5
  <2>8. StripLeft(t) = u
    BY <2>4, <2>5, <2>6, <2>7, StripLeftIs
  <2> QED BY <2>4, <2>5, <2>6, <2>7, <2>8
<1> QED BY <1>2, <1>3

LEMMA StripRightIs ==
    ASSUME NEW n \in Texts, NEW u \in Texts, NEW t, t = u \o n,
           Blank(n), u # <<>> => u[Len(u)] # "nl"
    PROVE  StripRight(t) = u
<1> DEFINE K == {i \in 1..Len(t) : NotNewline(t[i])}
           k == SelectLastInSeq(t, NotNewline)
           p == Len(u)
<1>1. k = IF K # {} THEN Max(K) ELSE 0
  BY DEF SelectLastInSeq
<1>2. /\ Len(n) \in Nat /\ Len(u) \in Nat /\ DOMAIN n = 1..Len(n) /\ DOMAIN u = 1..Len(u)
      /\ Len(t) = Len(u) + Len(n) /\ t \in Texts
  BY CatAt
<1>3. \A i \in 1..Len(t) : i \in 1..Len(u) \/ t[i] = "nl"
  <2> TAKE i \in 1..Len(t)
  <2>1. i \in DOMAIN (u \o n)
    BY <1>2, CatAt
  <2>2. \/ i \in DOMAIN u
        \/ i - Len(u) \in DOMAIN n /\ t[i] = n[i - Len(u)]
    BY <2>1, CatEither
  <2> QED BY <1>2, <2>2 DEF Blank
<1>4. k = p
  <2>1. CASE u = <<>>
    <3>1. Len(u) = 0
      BY <2>1, Empty
    <3>2. K = {}
      BY <1>3, <3>1 DEF NotNewline
    <3> QED BY <1>1, <3>1, <3>2
  <2>2. CASE u # <<>>
    <3>1. Len(u) >= 1 /\ Len(u) \in DOMAIN u
      BY <1>2, <2>2, LenZero
    <3>2. t[p] = u[p]
      BY <3>1, CatFirst
    <3>3. p \in 1..Len(t)
      BY <1>2, <3>1
    <3>4. p \in K
      BY <2>2, <3>2, <3>3 DEF NotNewline
    <3>5. \A y \in K : p >= y
      <4> TAKE y \in K
      <4>1. y \in 1..Len(t) /\ t[y] # "nl"
        BY DEF NotNewline
      <4>2. y \in 1..Len(u)
        BY <1>3, <4>1
      <4> QED BY <1>2, <4>2
    <3>6. K \subseteq Nat
      BY <1>2
    <3> HIDE DEF K, k, p
    <3>7. Max(K) = p
      BY <3>4, <3>5, <3>6, MaxIs
    <3> QED BY <1>1, <3>4, <3>7
  <2> QED BY <2>1, <2>2
<1>5. StripRight(t) = SubSeq(t, 1, p)
  BY <1>4 DEF StripRight
<1>6. /\ SubSeq(t, 1, p) \in Texts
      /\ Len(SubSeq(t, 1, p)) = p + 1 - 1
      /\ \A i \in 1..(p + 1 - 1) : SubSeq(t, 1, p)[i] = t[1 + i - 1]
  <2>1. 1 \in 1..Len(t) + 1 /\ p \in 0..Len(t) /\ 1 <= p + 1
    BY <1>2
  <2> QED BY <1>2, <2>1, PartAt
<1>7. p + 1 - 1 = Len(u) /\ \A i \in 1..Len(u) : 1 + i - 1 = i
  BY <1>2
<1>8. \A i \in 1..Len(u) : t[i] = u[i]
  BY <1>2, CatFirst
<1>9. SubSeq(t, 1, p) = u
  <2> DEFINE s == SubSeq(t, 1, p)
  <2>1. s \in Texts /\ Len(s) = Len(u) /\ \A i \in 1..Len(u) : s[i] = u[i]
    BY <1>6, <1>7, <1>8
  <2> HIDE DEF s
  <2>2. s = u
    BY <2>1, SeqEqual DEF Texts
  <2> QED BY <2>2 DEF s
<1> QED BY <1>5, <1>9

LEMMA StripRightSplit ==
    ASSUME NEW t \in Texts
    PROVE  /\ StripRight(t) \in Texts
           /\ StripRight(t) # <<>> => StripRight(t)[Len(StripRight(t))] # "nl"
           /\ \E n \in Texts : Blank(n) /\ t = StripRight(t) \o n
<1> DEFINE K == {i \in 1..Len(t) : NotNewline(t[i])}
<1>1. Len(t) \in Nat /\ DOMAIN t = 1..Len(t)
  BY LenZero
<1>2. CASE K = {}
  <2>1. Blank(t)
    BY <1>1, <1>2 DEF Blank, NotNewline
  <2>2. <<>> \o t = t
    BY CatEmpty
  <2>3. StripRight(t) = <<>>
    BY <2>1, <2>2, Empty, StripRightIs
  <2> QED BY <2>1, <2>2, <2>3, Empty
<1>3. CASE K # {}
  <2>1. K \subseteq 0..Len(t)
    BY <1>1
  <2> HIDE DEF K
  <2>2. PICK k \in K : \A y \in K : k >= y
    BY <1>1, <1>3, <2>1, GreatestExists
  <2>3. k \in 1..Len(t) /\ t[k] # "nl" /\ \A y \in 1..Len(t) : t[y] # "nl" => k >= y
    BY <2>2 DEF K, NotNewline
  <2> DEFINE u == SubSeq(t, 1, k)
             n == SubSeq(t, k + 1, Len(t))
  <2>4. u \in Texts /\ Len(u) = k /\ u[k] = t[k]
    <3>1. 1 \in 1..Len(t) + 1 /\ k \in 0..Len(t) /\ 1 <= k + 1
      BY <1>1, <2>3
    <3>2. /\ u \in Texts /\ Len(u) = k + 1 - 1
          /\ \A i \in 1..(k + 1 - 1) : u[i] = t[1 + i - 1]
      BY <3>1, PartAt
    <3>3. k + 1 - 1 = k /\ k \in 1..(k + 1 - 1) /\ 1 + k - 1 = k
      BY <1>1, <2>3
    <3> QED BY <3>2, <3>3
  <2>5. n \in Texts /\ Blank(n)
    <3>1. k + 1 \in 1..Len(t) + 1 /\ Len(t) \in 0..Len(t) /\ k + 1 <= Len(t) + 1
      BY <1>1, <2>3
    <3>2. /\ n \in Texts /\ DOMAIN n = 1..(Len(t) + 1 - (k + 1))
          /\ \A i \in 1..(Len(t) + 1 - (k + 1)) : n[i] = t[(k + 1) + i - 1]
      BY <3>1, PartAt
    <3>3. \A i \in 1..(Len(t) + 1 - (k + 1)) :
             (k + 1) + i - 1 \in 1..Len(t) /\ ~(k >= (k + 1) + i - 1)
      BY <1>1, <2>3
    <3>4. \A i \in DOMAIN n : n[i] = "nl"
      BY <2>3, <3>2, <3>3
    <3> QED BY <3>2, <3>4 DEF Blank
  <2>6. t = u \o n
    <3>1. k \in 0..Len(t)
      BY <1>1, <2>3
    <3> QED BY <3>1, CutAt
  <2> HIDE DEF n, u
  <2>7. u[Len(u)] # "nl"
    BY <2>3, <2>4
  <2>8. StripRight(t) = u
    BY <2>4, <2>5, <2>6, <2>7, StripRightIs
  <2> QED BY <2>4, <2>5, <2>6, <2>7, <2>8
<1> QED BY <1>2, <1>3

\* What is stripped is newlines.
LEMMA StripKeeps ==
    ASSUME NEW t \in Texts
    PROVE  /\ Words(StripLeft(t)) = Words(t) /\ Words(StripRight(t)) = Words(t)
           /\ Plain(t) => Plain(StripLeft(t)) /\ Plain(StripRight(t))
           /\ Blank(t) <=> StripLeft(t) = <<>>
           /\ Blank(t) <=> StripRight(t) = <<>>
<1>1. PICK n \in Texts : Blank(n) /\ t = n \o StripLeft(t)
  BY StripLeftSplit
<1>2. PICK m \in Texts : Blank(m) /\ t = StripRight(t) \o m
  BY StripRightSplit
<1>3. StripLeft(t) \in Texts /\ StripRight(t) \in Texts
  BY StripLeftSplit, StripRightSplit
<1>4. Words(n) = {} /\ Words(m) = {}
  BY <1>1, <1>2, BlankIs
<1>5. Words(t) = Words(n) \cup Words(StripLeft(t)) /\ (Plain(t) => Plain(StripLeft(t)))
  BY <1>1, <1>3, CatWords, CatPlain, ZenonT(60)
<1>6. Words(t) = Words(StripRight(t)) \cup Words(m) /\ (Plain(t) => Plain(StripRight(t)))
  BY <1>2, <1>3, CatWords, CatPlain
<1>7. Blank(t) => StripLeft(t) = <<>>
  <2>1. t = t \o <<>> /\ <<>> \in Texts
    BY CatEmpty, Empty
  <2> QED BY <2>1, StripLeftIs
<1>8. Blank(t) => StripRight(t) = <<>>
  <2>1. t = <<>> \o t /\ <<>> \in Texts
    BY CatEmpty, Empty
  <2> QED BY <2>1, StripRightIs
<1>9. StripLeft(t) = <<>> => Blank(t)
  BY <1>1, CatEmpty
<1>10. StripRight(t) = <<>> => Blank(t)
  BY <1>2, CatEmpty
<1> QED BY <1>4, <1>5, <1>6, <1>7, <1>8, <1>9, <1>10

-----------------------------------------------------------------------------
(* The block in its place. *)

\* The block of a file without its last newline, and one newline.
Core(f) == IF f = "AGENTS" THEN <<"start", "nl", "contract", "end">>
           ELSE <<"start", "nl", "import", "nl", "end">>
Newline == <<"nl">>

LEMMA NewlineIs == /\ Newline \in Texts /\ Len(Newline) = 1 /\ Newline[1] = "nl"
                   /\ Plain(Newline) /\ Blank(Newline) /\ Words(Newline) = {}
<1>1. Newline \in Texts /\ Len(Newline) = 1 /\ Newline[1] = "nl"
  BY DEF Newline, Texts, Tokens
<1>2. Blank(Newline)
  BY <1>1, LenZero DEF Blank
<1> QED BY <1>1, <1>2, BlankIs

LEMMA CoreIs ==
    ASSUME NEW f \in Names
    PROVE  /\ Core(f) \in Texts /\ Whole(Core(f)) /\ Words(Core(f)) = {}
           /\ Block(f) = Core(f) \o Newline
<1>1. Core(f) \in Texts
  <2>1. \A a, b, c, d \in Tokens : <<a, b, c, d>> \in Seq(Tokens)
    OBVIOUS
  <2>2. \A a, b, c, d, e \in Tokens : <<a, b, c, d, e>> \in Seq(Tokens)
    OBVIOUS
  <2>3. {"start", "end", "contract", "import", "nl"} \subseteq Tokens
    BY DEF Tokens
  <2>4. CASE f = "AGENTS"
    BY <2>1, <2>3, <2>4, Zenon DEF Core, Texts
  <2>5. CASE f # "AGENTS"
    BY <2>2, <2>3, <2>5, Zenon DEF Core, Texts
  <2> QED BY <2>4, <2>5
<1>2. CASE f = "AGENTS"
  <2>1. /\ Core(f) = <<"start", "nl", "contract", "end">> /\ Block(f) = <<"start", "nl", "contract", "end", "nl">>
    BY <1>2 DEF Core, Block
  <2>2. Whole(Core(f))
    BY <2>1 DEF Whole, Markers
  <2>3. Words(Core(f)) = {}
    <3>1. \A k \in DOMAIN Core(f) : Core(f)[k] \in {"start", "nl", "contract", "end"}
      BY <2>1
    <3> QED BY <3>1, ContractAssumption DEF Words
  <2>4. Block(f) = Core(f) \o Newline
    BY <2>1 DEF Newline
  <2> QED BY <1>1, <2>2, <2>3, <2>4
<1>3. CASE f = "CLAUDE"
  <2>1. /\ Core(f) = <<"start", "nl", "import", "nl", "end">> /\ Block(f) = <<"start", "nl", "import", "nl", "end", "nl">>
    BY <1>3 DEF Core, Block
  <2>2. Whole(Core(f))
    BY <2>1 DEF Whole, Markers
  <2>3. Words(Core(f)) = {}
    <3>1. \A k \in DOMAIN Core(f) : Core(f)[k] \in {"start", "nl", "import", "end"}
      BY <2>1
    <3> QED BY <3>1, ContractAssumption DEF Words
  <2>4. Block(f) = Core(f) \o Newline
    BY <2>1 DEF Newline
  <2> QED BY <1>1, <2>2, <2>3, <2>4
<1> QED BY <1>2, <1>3 DEF Names

\* What follows the block, and what precedes it when it is new.
Below(rest) == IF rest = <<>> THEN <<>> ELSE Newline \o rest
Closed(t) == IF t = <<>> \/ Last(t) = "nl" THEN t ELSE t \o Newline
Lead(t) == IF Closed(t) = <<>> THEN <<>> ELSE Closed(t) \o Newline

LEMMA AppendIs ==
    ASSUME NEW t \in Texts
    PROVE  Append(t, "nl") = t \o Newline
BY AppendIsConcat DEF Texts, Newline, Tokens

LEMMA BelowIs ==
    ASSUME NEW r \in Texts, r # <<>> => r[1] # "nl"
    PROVE  /\ Below(r) \in Texts /\ Words(Below(r)) = Words(r)
           /\ Plain(r) => Plain(Below(r))
           /\ StripLeft(Below(r)) = r /\ StripLeft(Newline \o Below(r)) = r
<1>1. CASE r = <<>>
  <2>1. Below(r) = <<>>
    BY <1>1 DEF Below
  <2>2. <<>> = <<>> \o <<>> /\ Newline \o <<>> = Newline \o <<>>
    BY Empty, CatEmpty
  <2>3. StripLeft(<<>>) = <<>> /\ StripLeft(Newline \o <<>>) = <<>>
    BY <2>2, Empty, NewlineIs, StripLeftIs
  <2> QED BY <1>1, <2>1, <2>3
<1>2. CASE r # <<>>
  <2>1. Below(r) = Newline \o r
    BY <1>2 DEF Below
  <2>2. Newline \o r \in Texts /\ Newline \o Newline \in Texts /\ Blank(Newline \o Newline)
    BY NewlineIs, CatAt, CatBlank
  <2>3. Newline \o (Newline \o r) = (Newline \o Newline) \o r
    BY NewlineIs, CatTriple
  <2>4. StripLeft(Newline \o r) = r
    BY NewlineIs, StripLeftIs
  <2>5. StripLeft(Newline \o (Newline \o r)) = r
    BY <2>2, <2>3, StripLeftIs
  <2>6. Words(Newline \o r) = Words(r)
    <3>1. Words(Newline \o r) = Words(Newline) \cup Words(r)
      BY NewlineIs, CatWords
    <3> QED BY <3>1, NewlineIs
  <2>7. Plain(r) => Plain(Newline \o r)
    BY NewlineIs, CatPlain
  <2> QED BY <2>1, <2>2, <2>4, <2>5, <2>6, <2>7
<1> QED BY <1>1, <1>2

\* A text and newlines.
LEMMA AndNewlines ==
    ASSUME NEW t \in Texts, NEW n \in Texts, Blank(n)
    PROVE  /\ t \o n \in Texts /\ Words(t \o n) = Words(t)
           /\ Plain(t) => Plain(t \o n)
           /\ StripRight(t \o n) = StripRight(t)
<1>1. t \o n \in Texts
  BY CatAt
<1>2. Words(t \o n) = Words(t)
  BY CatWords, BlankIs
<1>3. Plain(t) => Plain(t \o n)
  BY CatPlain, BlankIs
<1>4. PICK m \in Texts : Blank(m) /\ t = StripRight(t) \o m
  BY StripRightSplit
<1>5. /\ StripRight(t) \in Texts
      /\ StripRight(t) # <<>> => StripRight(t)[Len(StripRight(t))] # "nl"
  BY StripRightSplit
<1>6. m \o n \in Texts /\ Blank(m \o n)
  BY <1>4, CatAt, CatBlank
<1>7. t \o n = StripRight(t) \o (m \o n)
  <2>1. (StripRight(t) \o m) \o n = StripRight(t) \o (m \o n)
    BY <1>4, <1>5, CatTriple
  <2> QED BY <1>4, <2>1, Zenon
<1>8. StripRight(t \o n) = StripRight(t)
  BY <1>5, <1>6, <1>7, StripRightIs
<1> QED BY <1>1, <1>2, <1>3, <1>8

LEMMA LeadIs ==
    ASSUME NEW t \in Texts
    PROVE  /\ Lead(t) \in Texts /\ Words(Lead(t)) = Words(t)
           /\ Plain(t) => Plain(Lead(t))
           /\ StripRight(Lead(t)) = StripRight(t)
<1>1. PICK n \in Texts : Blank(n) /\ Closed(t) = t \o n
  <2>1. CASE t = <<>> \/ Last(t) = "nl"
    BY <2>1, Empty, CatEmpty DEF Closed
  <2>2. CASE ~(t = <<>> \/ Last(t) = "nl")
    BY <2>2, NewlineIs DEF Closed
  <2> QED BY <2>1, <2>2
<1>2. PICK m \in Texts : Blank(m) /\ Lead(t) = Closed(t) \o m
  <2>1. Closed(t) \in Texts
    BY <1>1, CatAt
  <2>2. CASE Closed(t) = <<>>
    BY <2>2, Empty, CatEmpty DEF Lead
  <2>3. CASE Closed(t) # <<>>
    BY <2>3, NewlineIs DEF Lead
  <2> QED BY <2>2, <2>3
<1>3. n \o m \in Texts /\ Blank(n \o m)
  BY <1>1, <1>2, CatAt, CatBlank
<1>4. Lead(t) = t \o (n \o m)
  <2>1. (t \o n) \o m = t \o (n \o m)
    BY <1>1, <1>2, CatTriple
  <2> QED BY <1>1, <1>2, <2>1, Zenon
<1> QED BY <1>3, <1>4, AndNewlines

LEMMA ZastosujIs ==
    ASSUME NEW f \in Names, NEW t \in Texts
    PROVE  /\ HasBlock(t) => Zastosuj(f, t) = (Before(t) \o Block(f)) \o Below(StripLeft(After(t)))
           /\ ~HasBlock(t) => Zastosuj(f, t) = Lead(t) \o Block(f)
<1>1. Append(t, "nl") = t \o Newline
  BY AppendIs
<1>2. Closed(t) \in Texts
  BY NewlineIs, CatAt DEF Closed
<1>3. Append(Closed(t), "nl") = Closed(t) \o Newline
  BY <1>2, AppendIs
<1>4. ~HasBlock(t) => Zastosuj(f, t) = Lead(t) \o Block(f)
  BY <1>1, <1>3, Zenon DEF Zastosuj, Lead, Closed
<1>5. HasBlock(t) => Zastosuj(f, t) = (Before(t) \o Block(f)) \o Below(StripLeft(After(t)))
  BY Zenon DEF Zastosuj, Below, Newline
<1> QED BY <1>4, <1>5

\* The block is put into a sound text.
LEMMA ZastosujForm ==
    ASSUME NEW f \in Names, NEW t \in Texts, Sound(t)
    PROVE  \E b \in Texts, a \in Texts :
              /\ Zastosuj(f, t) = (b \o Core(f)) \o (Newline \o a)
              /\ Plain(b) /\ Plain(a)
              /\ Words(b) \cup Words(a) = Outside(t)
              /\ a = Below(StripLeft(Newline \o a))
              /\ HasBlock(t) => b = Before(t) /\ StripLeft(Newline \o a) = StripLeft(After(t))
              /\ ~HasBlock(t) => b = Lead(t) /\ a = <<>>
<1>1. Core(f) \in Texts /\ Block(f) = Core(f) \o Newline
  BY CoreIs
<1>2. CASE HasBlock(t)
  <2>1. /\ Before(t) \in Texts /\ After(t) \in Texts /\ Plain(Before(t)) /\ Plain(After(t))
    BY <1>2, SoundForm DEF BlockForm
  <2>2. PICK r : r = StripLeft(After(t))
    OBVIOUS
  <2>3. r \in Texts /\ (r # <<>> => r[1] # "nl") /\ Plain(r) /\ Words(r) = Words(After(t))
    BY <2>1, <2>2, StripLeftSplit, StripKeeps
  <2>4. PICK a : a = Below(r)
    OBVIOUS
  <2>5. /\ a \in Texts /\ Words(a) = Words(r) /\ Plain(a)
        /\ StripLeft(Newline \o a) = r
    BY <2>3, <2>4, BelowIs
  <2>6. Zastosuj(f, t) = (Before(t) \o Block(f)) \o a
    BY <1>2, <2>2, <2>4, ZastosujIs
  <2>7. (Before(t) \o (Core(f) \o Newline)) \o a = (Before(t) \o Core(f)) \o (Newline \o a)
    <3>1. Before(t) \o (Core(f) \o Newline) = (Before(t) \o Core(f)) \o Newline
      BY <1>1, <2>1, NewlineIs, CatTriple
    <3>2. Before(t) \o Core(f) \in Texts
      BY <1>1, <2>1, CatAt
    <3>3. ((Before(t) \o Core(f)) \o Newline) \o a = (Before(t) \o Core(f)) \o (Newline \o a)
      BY <2>5, <3>2, NewlineIs, CatTriple
    <3> QED BY <3>1, <3>3, Zenon
  <2>8. Zastosuj(f, t) = (Before(t) \o Core(f)) \o (Newline \o a)
    BY <1>1, <2>6, <2>7, Zenon
  <2>9. Words(Before(t)) \cup Words(a) = Outside(t)
    BY <1>2, <2>3, <2>5 DEF Outside
  <2>10. a = Below(StripLeft(Newline \o a)) /\ StripLeft(Newline \o a) = StripLeft(After(t))
    BY <2>2, <2>4, <2>5, Zenon
  <2> QED BY <1>2, <2>1, <2>5, <2>8, <2>9, <2>10
<1>3. CASE ~HasBlock(t)
  <2>1. Plain(t)
    BY <1>3, SoundForm
  <2>2. Lead(t) \in Texts /\ Words(Lead(t)) = Words(t) /\ Plain(Lead(t))
    BY <2>1, LeadIs
  <2>3. Zastosuj(f, t) = Lead(t) \o (Core(f) \o Newline)
    BY <1>1, <1>3, ZastosujIs
  <2>4. Lead(t) \o (Core(f) \o Newline) = (Lead(t) \o Core(f)) \o Newline
    BY <1>1, <2>2, NewlineIs, CatTriple
  <2>5. Newline = Newline \o <<>>
    BY NewlineIs, CatEmpty
  <2>6. Zastosuj(f, t) = (Lead(t) \o Core(f)) \o (Newline \o <<>>)
    BY <2>3, <2>4, <2>5, Zenon
  <2>7. Words(Lead(t)) \cup Words(<<>>) = Outside(t)
    BY <2>1, <2>2, PlainForm, Empty
  <2>8. StripLeft(Newline \o <<>>) = <<>>
    BY NewlineIs, Empty, StripLeftIs
  <2>9. <<>> = Below(StripLeft(Newline \o <<>>))
    BY <2>8, Zenon DEF Below
  <2> QED BY <1>3, <2>2, <2>6, <2>7, <2>9, Empty
<1> QED BY <1>2, <1>3

\* zastosuj keeps what is outside the block and is idempotent.
LEMMA ZastosujKeeps ==
    ASSUME NEW f \in Names, NEW t \in Texts, NEW z, Sound(t), z = Zastosuj(f, t)
    PROVE  /\ z \in Texts /\ Sound(z) /\ HasBlock(z) /\ Outside(z) = Outside(t)
           /\ Zastosuj(f, z) = z
           /\ HasBlock(t) => Before(z) = Before(t) /\ StripLeft(After(z)) = StripLeft(After(t))
           /\ ~HasBlock(t) => StripRight(Before(z)) = StripRight(t) /\ StripLeft(After(z)) = <<>>
           /\ \E b \in Texts, c \in Texts : Parts(z, b, Core(f), c)
<1>1. PICK b \in Texts, a \in Texts :
              /\ Zastosuj(f, t) = (b \o Core(f)) \o (Newline \o a)
              /\ Plain(b) /\ Plain(a)
              /\ Words(b) \cup Words(a) = Outside(t)
              /\ a = Below(StripLeft(Newline \o a))
              /\ HasBlock(t) => b = Before(t) /\ StripLeft(Newline \o a) = StripLeft(After(t))
              /\ ~HasBlock(t) => b = Lead(t) /\ a = <<>>
  BY ZastosujForm
<1>2. PICK c : c = Newline \o a
  OBVIOUS
<1>3. c \in Texts /\ Plain(c) /\ Words(c) = Words(a)
  <2>1. Words(c) = Words(Newline) \cup Words(a)
    BY <1>2, NewlineIs, CatWords
  <2>2. c \in Texts
    BY <1>2, NewlineIs, CatAt
  <2>3. Plain(c)
    BY <1>1, <1>2, NewlineIs, CatPlain
  <2> QED BY <2>1, <2>2, <2>3, NewlineIs
<1>4. Core(f) \in Texts /\ Whole(Core(f)) /\ Block(f) = Core(f) \o Newline
  BY CoreIs
<1>5. z = (b \o Core(f)) \o c
  BY <1>1, <1>2, Zenon
<1>6. /\ z \in Texts /\ Sound(z) /\ HasBlock(z) /\ Before(z) = b /\ After(z) = c
      /\ Parts(z, b, Core(f), c)
  <2>1. Parts(z, b, Core(f), c)
    BY <1>5, Zenon DEF Parts
  <2> QED BY <1>1, <1>3, <1>4, <2>1, Form
<1>7. Outside(z) = Outside(t)
  BY <1>1, <1>3, <1>6 DEF Outside
<1>8. Zastosuj(f, z) = z
  <2>1. Zastosuj(f, z) = (b \o (Core(f) \o Newline)) \o a
    <3>1. Zastosuj(f, z) = (Before(z) \o Block(f)) \o Below(StripLeft(After(z)))
      BY <1>6, ZastosujIs
    <3> QED BY <1>1, <1>2, <1>4, <1>6, <3>1, Zenon
  <2>2. b \o (Core(f) \o Newline) = (b \o Core(f)) \o Newline
    BY <1>4, NewlineIs, CatTriple
  <2>3. b \o Core(f) \in Texts
    BY <1>4, CatAt
  <2>4. ((b \o Core(f)) \o Newline) \o a = (b \o Core(f)) \o (Newline \o a)
    BY <2>3, NewlineIs, CatTriple
  <2> QED BY <1>2, <1>5, <2>1, <2>2, <2>4, Zenon
<1>9. HasBlock(t) => Before(z) = Before(t) /\ StripLeft(After(z)) = StripLeft(After(t))
  BY <1>1, <1>2, <1>6, Zenon
<1>10. ASSUME ~HasBlock(t) PROVE StripRight(Before(z)) = StripRight(t) /\ StripLeft(After(z)) = <<>>
  <2>1. b = Lead(t) /\ c = Newline \o <<>>
    BY <1>1, <1>2, <1>10, Zenon
  <2>2. StripRight(Before(z)) = StripRight(t)
    BY <1>6, <2>1, LeadIs
  <2>3. StripLeft(Newline \o <<>>) = <<>>
    BY NewlineIs, Empty, StripLeftIs
  <2> QED BY <1>6, <2>1, <2>2, <2>3
<1> QED BY <1>3, <1>6, <1>7, <1>8, <1>9, <1>10

\* What usun leaves of the two parts around the block.
Behind(head, rest) ==
    IF head = <<>> THEN rest ELSE (head \o Newline) \o Below(rest)

LEMMA UsunIs ==
    ASSUME NEW t \in Texts, Sound(t)
    PROVE  Usun(t) = IF HasBlock(t) THEN Behind(StripRight(Before(t)), StripLeft(After(t))) ELSE t
<1>1. CASE HasBlock(t)
  <2>1. Before(t) \in Texts
    BY <1>1, SoundForm DEF BlockForm
  <2>2. StripRight(Before(t)) \in Texts
    BY <2>1, StripRightSplit
  <2>3. Append(StripRight(Before(t)), "nl") = StripRight(Before(t)) \o Newline
    BY <2>2, AppendIs
  <2> QED BY <1>1, <2>3, Zenon DEF Usun, Behind, Below, Newline
<1>2. CASE ~HasBlock(t)
  BY <1>2 DEF Usun
<1> QED BY <1>1, <1>2

\* usun keeps what is outside the block and leaves no block.
LEMMA UsunKeeps ==
    ASSUME NEW t \in Texts, NEW u, Sound(t), u = Usun(t)
    PROVE  /\ u \in Texts /\ Plain(u) /\ Sound(u) /\ ~HasBlock(u)
           /\ Outside(u) = Outside(t) /\ Usun(u) = u
<1>1. u \in Texts /\ Plain(u) /\ Words(u) = Outside(t)
  <2>1. CASE ~HasBlock(t)
    BY <2>1, SoundForm, PlainForm, UsunIs
  <2>2. CASE HasBlock(t)
    <3>1. PICK h, r : h = StripRight(Before(t)) /\ r = StripLeft(After(t))
      OBVIOUS
    <3>2. /\ Before(t) \in Texts /\ After(t) \in Texts /\ Plain(Before(t)) /\ Plain(After(t))
      BY <2>2, SoundForm DEF BlockForm
    <3>3. /\ h \in Texts /\ Plain(h) /\ Words(h) = Words(Before(t))
      BY <3>1, <3>2, StripRightSplit, StripKeeps
    <3>4. /\ r \in Texts /\ Plain(r) /\ Words(r) = Words(After(t)) /\ (r # <<>> => r[1] # "nl")
      BY <3>1, <3>2, StripLeftSplit, StripKeeps
    <3>5. Words(h) \cup Words(r) = Outside(t)
      BY <2>2, <3>3, <3>4 DEF Outside
    <3>6. u = Behind(h, r)
      BY <2>2, <3>1, UsunIs
    <3>7. CASE h = <<>>
      BY <3>4, <3>5, <3>6, <3>7, Empty DEF Behind
    <3>8. CASE h # <<>>
      <4>1. u = (h \o Newline) \o Below(r)
        BY <3>6, <3>8 DEF Behind
      <4>2. h \o Newline \in Texts /\ Plain(h \o Newline) /\ Words(h \o Newline) = Words(h)
        BY <3>3, NewlineIs, AndNewlines
      <4>3. Below(r) \in Texts /\ Words(Below(r)) = Words(r) /\ Plain(Below(r))
        BY <3>4, BelowIs
      <4>4. u \in Texts
        BY <4>1, <4>2, <4>3, CatAt
      <4>5. Plain(u)
        BY <4>1, <4>2, <4>3, CatPlain
      <4>6. Words(u) = Words(h \o Newline) \cup Words(Below(r))
        BY <4>1, <4>2, <4>3, CatWords
      <4> QED BY <3>5, <4>2, <4>3, <4>4, <4>5, <4>6
    <3> QED BY <3>7, <3>8
  <2> QED BY <2>1, <2>2
<1>2. Sound(u) /\ ~HasBlock(u) /\ Outside(u) = Words(u)
  BY <1>1, PlainForm
<1>3. Usun(u) = u
  BY <1>1, <1>2, UsunIs
<1> QED BY <1>1, <1>2, <1>3

\* Removal takes back what zastosuj did.
LEMMA UsunOfZastosuj ==
    ASSUME NEW f \in Names, NEW t \in Texts, NEW z, Sound(t), z = Zastosuj(f, t)
    PROVE  /\ HasBlock(t) => Usun(z) = Usun(t)
           /\ ~HasBlock(t) => Usun(z) = IF StripRight(t) = <<>> THEN <<>> ELSE StripRight(t) \o Newline
           /\ StripRight(Usun(z)) = StripRight(Usun(t))
<1>1. /\ z \in Texts /\ Sound(z) /\ HasBlock(z)
      /\ HasBlock(t) => Before(z) = Before(t) /\ StripLeft(After(z)) = StripLeft(After(t))
      /\ ~HasBlock(t) => StripRight(Before(z)) = StripRight(t) /\ StripLeft(After(z)) = <<>>
  BY ZastosujKeeps
<1>2. Usun(z) = Behind(StripRight(Before(z)), StripLeft(After(z)))
  BY <1>1, UsunIs
<1>3. CASE HasBlock(t)
  <2>1. Usun(t) = Behind(StripRight(Before(t)), StripLeft(After(t)))
    BY <1>3, UsunIs
  <2> QED BY <1>1, <1>2, <1>3, <2>1, Zenon
<1>4. CASE ~HasBlock(t)
  <2>1. Usun(t) = t
    BY <1>4, UsunIs
  <2>2. PICK h : h = StripRight(t)
    OBVIOUS
  <2>3. h \in Texts
    BY <2>2, StripRightSplit
  <2>4. Usun(z) = Behind(h, <<>>)
    BY <1>1, <1>2, <1>4, <2>2, Zenon
  <2>5. (h \o Newline) \o <<>> = h \o Newline
    <3>1. h \o Newline \in Texts
      BY <2>3, NewlineIs, CatAt
    <3> QED BY <3>1, CatEmpty
  <2>6. Usun(z) = IF h = <<>> THEN <<>> ELSE h \o Newline
    BY <2>4, <2>5, Zenon DEF Behind, Below
  <2>7. StripRight(h \o Newline) = h
    <3>1. h # <<>> => h[Len(h)] # "nl"
      BY <2>2, StripRightSplit
    <3> QED BY <2>3, <3>1, NewlineIs, StripRightIs
  <2>8. StripRight(<<>>) = <<>>
    BY Empty, StripKeeps
  <2>9. StripRight(Usun(z)) = h
    BY <2>6, <2>7, <2>8, Zenon
  <2> QED BY <1>4, <2>1, <2>2, <2>6, <2>9, Zenon
<1> QED BY <1>3, <1>4

-----------------------------------------------------------------------------
(* The import. *)

\* The import at position k stands on its own.
Standing(t, k) ==
    /\ t[k] = "import"
    /\ k > 1 => t[k - 1] = "nl"
    /\ k < Len(t) => t[k + 1] = "nl"

LEMMA ImportsIs ==
    ASSUME NEW t
    PROVE  Imports(t) <=> \E k \in DOMAIN t : Standing(t, k)
BY Zenon DEF Imports, Standing

\* Newlines at the end neither add an import nor take one away.
LEMMA ImportsAndNewlines ==
    ASSUME NEW t \in Texts, NEW n \in Texts, NEW u, Blank(n), u = t \o n
    PROVE  Imports(u) <=> Imports(t)
<1>1. /\ u \in Texts /\ Len(t) \in Nat /\ Len(n) \in Nat /\ Len(u) = Len(t) + Len(n)
      /\ DOMAIN t = 1..Len(t) /\ DOMAIN n = 1..Len(n) /\ DOMAIN u = 1..(Len(t) + Len(n))
      /\ \A i \in 1..Len(t) : u[i] = t[i]
      /\ \A i \in 1..Len(n) : u[Len(t) + i] = n[i]
      /\ \A i \in 1..(Len(t) + Len(n)) :
            i \in 1..Len(t) \/ (i - Len(t) \in 1..Len(n) /\ u[i] = n[i - Len(t)])
  BY CatAt, Zenon
<1>2. ASSUME NEW k \in DOMAIN t, Standing(t, k) PROVE k \in DOMAIN u /\ Standing(u, k)
  <2>1. k \in 1..Len(t) /\ k \in 1..(Len(t) + Len(n)) /\ u[k] = "import"
    BY <1>1, <1>2 DEF Standing
  <2>2. k > 1 => u[k - 1] = "nl"
    <3> HAVE k > 1
    <3>1. k - 1 \in 1..Len(t) /\ t[k - 1] = "nl"
      BY <1>1, <1>2, <2>1 DEF Standing
    <3> QED BY <1>1, <3>1
  <2>3. ASSUME k < Len(u) PROVE u[k + 1] = "nl"
    <3>1. CASE k < Len(t)
      <4>1. k + 1 \in 1..Len(t) /\ t[k + 1] = "nl"
        BY <1>1, <1>2, <2>1, <3>1 DEF Standing
      <4> QED BY <1>1, <4>1
    <3>2. CASE ~(k < Len(t))
      <4>1. k = Len(t) /\ 1 \in 1..Len(n)
        BY <1>1, <2>1, <2>3, <3>2
      <4>2. u[Len(t) + 1] = n[1] /\ n[1] = "nl"
        BY <1>1, <4>1 DEF Blank
      <4> QED BY <4>1, <4>2
    <3> QED BY <3>1, <3>2
  <2> QED BY <1>1, <2>1, <2>2, <2>3 DEF Standing
<1>3. ASSUME NEW k \in DOMAIN u, Standing(u, k) PROVE k \in DOMAIN t /\ Standing(t, k)
  <2>1. k \in 1..(Len(t) + Len(n)) /\ u[k] = "import"
    BY <1>1, <1>3 DEF Standing
  <2>2. k \in 1..Len(t)
    <3>1. \A i \in 1..Len(n) : n[i] = "nl"
      BY <1>1 DEF Blank
    <3>2. k - Len(t) \in 1..Len(n) => u[k] # n[k - Len(t)]
      BY <2>1, <3>1
    <3> QED BY <1>1, <2>1, <3>2
  <2>3. t[k] = "import"
    BY <1>1, <2>1, <2>2
  <2>4. k > 1 => t[k - 1] = "nl"
    <3> HAVE k > 1
    <3>1. k - 1 \in 1..Len(t) /\ u[k - 1] = "nl"
      BY <1>1, <1>3, <2>2 DEF Standing
    <3> QED BY <1>1, <3>1
  <2>5. k < Len(t) => t[k + 1] = "nl"
    <3> HAVE k < Len(t)
    <3>1. k + 1 \in 1..Len(t) /\ k < Len(u)
      BY <1>1, <2>2
    <3>2. u[k + 1] = "nl"
      BY <1>3, <3>1 DEF Standing
    <3> QED BY <1>1, <3>1, <3>2
  <2> QED BY <1>1, <2>2, <2>3, <2>4, <2>5 DEF Standing
<1> QED BY <1>2, <1>3, ImportsIs

LEMMA BlankImports ==
    ASSUME NEW t \in Texts, Blank(t)
    PROVE  ~Imports(t)
BY DEF Blank, Imports

LEMMA ImportsOfZastosuj ==
    ASSUME NEW f \in Names, NEW t \in Texts, Sound(t)
    PROVE  Imports(Usun(Zastosuj(f, t))) <=> Imports(Usun(t))
<1>1. PICK z : z = Zastosuj(f, t)
  OBVIOUS
<1>2. /\ HasBlock(t) => Usun(z) = Usun(t)
      /\ ~HasBlock(t) => Usun(z) = IF StripRight(t) = <<>> THEN <<>> ELSE StripRight(t) \o Newline
  BY <1>1, UsunOfZastosuj
<1>3. CASE HasBlock(t)
  BY <1>1, <1>2, <1>3, Zenon
<1>4. CASE ~HasBlock(t)
  <2>1. Usun(t) = t
    BY <1>4, UsunIs
  <2>2. PICK n \in Texts : Blank(n) /\ t = StripRight(t) \o n
    BY StripRightSplit
  <2>3. StripRight(t) \in Texts
    BY StripRightSplit
  <2>4. CASE StripRight(t) = <<>>
    <3>1. Blank(t) /\ Usun(z) = <<>>
      BY <1>2, <1>4, <2>4, StripKeeps
    <3>2. ~Imports(t) /\ ~Imports(<<>>)
      BY <3>1, BlankImports, Empty
    <3> QED BY <1>1, <2>1, <3>1, <3>2, Zenon
  <2>5. CASE StripRight(t) # <<>>
    <3>1. PICK h : h = StripRight(t)
      OBVIOUS
    <3>2. h \in Texts /\ t = h \o n /\ Usun(z) = h \o Newline
      BY <1>2, <1>4, <2>2, <2>3, <2>5, <3>1, Zenon
    <3>3. Imports(t) <=> Imports(h)
      BY <2>2, <3>2, ImportsAndNewlines
    <3>4. Imports(h \o Newline) <=> Imports(h)
      BY <3>2, NewlineIs, ImportsAndNewlines
    <3> QED BY <1>1, <2>1, <3>2, <3>3, <3>4, Zenon
  <2> QED BY <2>4, <2>5
<1> QED BY <1>3, <1>4

\* The block holds the contract, or an import that stands on its own.
LEMMA BlockInstalls ==
    ASSUME NEW b \in Texts, NEW c \in Texts, NEW f \in Names, NEW z, Parts(z, b, Core(f), c)
    PROVE  IF f = "AGENTS" THEN Contains(z, "contract") ELSE Imports(z)
<1>1. PICK m : m = Core(f)
  OBVIOUS
<1>2. m \in Texts
  BY <1>1, CoreIs
<1>3. b \o m \in Texts
  BY <1>2, CatAt
<1>4. z = (b \o m) \o c
  BY <1>1, Zenon DEF Parts
<1>5. Len(b) \in Nat /\ z \in Texts /\ Len(z) \in Nat /\ DOMAIN z = 1..Len(z)
  <2>1. z \in Texts
    BY <1>3, <1>4, CatAt
  <2> QED BY <2>1, LenZero
<1>6. \A k \in DOMAIN m : Len(b) + k \in DOMAIN z /\ z[Len(b) + k] = m[k]
  <2> TAKE k \in DOMAIN m
  <2>1. Len(b) + k \in DOMAIN (b \o m) /\ (b \o m)[Len(b) + k] = m[k]
    BY <1>2, CatSecond
  <2> QED BY <1>3, <1>4, <2>1, CatFirst
<1>7. CASE f = "AGENTS"
  <2>1. 3 \in DOMAIN m /\ m[3] = "contract"
    BY <1>1, <1>7 DEF Core
  <2>2. Len(b) + 3 \in 1..Len(z) /\ z[Len(b) + 3] = "contract"
    BY <1>5, <1>6, <2>1
  <2> QED BY <1>7, <2>2 DEF Contains
<1>8. CASE f # "AGENTS"
  <2>1. /\ 2 \in DOMAIN m /\ 3 \in DOMAIN m /\ 4 \in DOMAIN m
        /\ m[2] = "nl" /\ m[3] = "import" /\ m[4] = "nl"
    BY <1>1, <1>8 DEF Core
  <2>2. /\ Len(b) + 3 \in DOMAIN z /\ z[Len(b) + 2] = "nl" /\ z[Len(b) + 3] = "import"
        /\ z[Len(b) + 4] = "nl"
    BY <1>6, <2>1
  <2>3. (Len(b) + 3) - 1 = Len(b) + 2 /\ (Len(b) + 3) + 1 = Len(b) + 4
    BY <1>5
  <2>4. Standing(z, Len(b) + 3)
    BY <2>2, <2>3 DEF Standing
  <2> QED BY <1>8, <2>2, <2>4, ImportsIs
<1> QED BY <1>7, <1>8

-----------------------------------------------------------------------------
(* What a run wants. *)

LEMMA WantedKeeps ==
    ASSUME NEW f \in Names, NEW remove \in BOOLEAN, NEW t \in Texts, NEW w,
           Sound(t), w = Wanted(f, remove, t)
    PROVE  /\ w \in Texts /\ Sound(w) /\ Outside(w) = Outside(t)
           /\ Wanted(f, remove, w) = w
           /\ StripRight(Usun(w)) = StripRight(Usun(t))
           /\ remove \/ IF f = "AGENTS" THEN Contains(w, "contract") ELSE Imports(w)
           /\ HasBlock(w) \/ (Usun(w) = w /\ (remove \/ Imports(w)))
<1> DEFINE only == remove \/ (f = "CLAUDE" /\ Imports(Usun(t)))
<1>1. CASE only
  <2>1. w = Usun(t)
    BY <1>1, Zenon DEF Wanted
  <2>2. w \in Texts /\ Sound(w) /\ Outside(w) = Outside(t) /\ Usun(w) = w
    BY <2>1, UsunKeeps
  <2>3. remove \/ (f = "CLAUDE" /\ Imports(Usun(w)))
    BY <1>1, <2>1, <2>2, Zenon
  <2>4. Wanted(f, remove, w) = w
    BY <2>2, <2>3, Zenon DEF Wanted
  <2>5. StripRight(Usun(w)) = StripRight(Usun(t))
    BY <2>1, <2>2, Zenon
  <2>6. "AGENTS" # "CLAUDE"
    OBVIOUS
  <2>7. remove \/ (f = "CLAUDE" /\ Imports(w))
    BY <2>2, <2>3, Zenon
  <2>8. remove \/ IF f = "AGENTS" THEN Contains(w, "contract") ELSE Imports(w)
    BY <2>6, <2>7, Zenon
  <2> QED BY <2>2, <2>4, <2>5, <2>7, <2>8, Zenon
<1>2. CASE ~only
  <2>1. w = Zastosuj(f, t)
    BY <1>2, Zenon DEF Wanted
  <2>2. /\ w \in Texts /\ Sound(w) /\ HasBlock(w) /\ Outside(w) = Outside(t) /\ Zastosuj(f, w) = w
        /\ \E b \in Texts, c \in Texts : Parts(w, b, Core(f), c)
    BY <2>1, ZastosujKeeps
  <2>3. Imports(Usun(w)) <=> Imports(Usun(t))
    BY <2>1, ImportsOfZastosuj
  <2>4. ~(remove \/ (f = "CLAUDE" /\ Imports(Usun(w))))
    BY <1>2, <2>3, Zenon
  <2>5. Wanted(f, remove, w) = w
    BY <2>2, <2>4, Zenon DEF Wanted
  <2>6. StripRight(Usun(w)) = StripRight(Usun(t))
    BY <2>1, UsunOfZastosuj
  <2>7. IF f = "AGENTS" THEN Contains(w, "contract") ELSE Imports(w)
    BY <2>2, BlockInstalls
  <2> QED BY <2>2, <2>5, <2>6, <2>7, Zenon
<1> QED BY <1>1, <1>2

\* A text of nothing but newlines has nothing of the owner.
LEMMA OnlyOursIs ==
    ASSUME NEW t \in Texts, StripLeft(t) = <<>>
    PROVE  Blank(t) /\ Outside(t) = {} /\ Sound(t) /\ ~HasBlock(t) /\ StripRight(Usun(t)) = <<>>
<1>1. Blank(t)
  BY StripKeeps
<1>2. Plain(t) /\ Words(t) = {}
  BY <1>1, BlankIs
<1>3. Sound(t) /\ ~HasBlock(t) /\ Outside(t) = Words(t)
  BY <1>2, PlainForm
<1>4. Usun(t) = t
  BY <1>3, UsunIs
<1>5. StripRight(t) = <<>>
  BY <1>1, StripKeeps
<1> QED BY <1>1, <1>2, <1>3, <1>4, <1>5

LEMMA EmptyIs == /\ <<>> \in Texts /\ Sound(<<>>) /\ ~HasBlock(<<>>) /\ Outside(<<>>) = {}
                 /\ Usun(<<>>) = <<>> /\ StripRight(<<>>) = <<>> /\ ~Imports(<<>>)
                 /\ ~Contains(<<>>, "contract")
<1>1. Sound(<<>>) /\ ~HasBlock(<<>>) /\ Outside(<<>>) = {}
  BY Empty, PlainForm
<1>2. Usun(<<>>) = <<>>
  BY <1>1, Empty, UsunIs
<1>3. StripRight(<<>>) = <<>>
  BY Empty, StripKeeps
<1>4. ~Imports(<<>>)
  BY Empty, BlankImports
<1>5. ~Contains(<<>>, "contract")
  BY Empty DEF Contains
<1> QED BY <1>1, <1>2, <1>3, <1>4, <1>5, Empty

\* A line of the owner at either end is outside the block, and what was outside
\* stays there.
LEMMA AroundIsOutside ==
    ASSUME NEW p \in Texts, NEW t \in Texts, NEW s \in Texts, NEW u,
           Plain(p), Plain(s), Parts(u, p, t, s)
    PROVE  u \in Texts /\ Outside(t) \cup Words(p) \cup Words(s) \subseteq Outside(u)
<1>1. p \o t \in Texts
  BY CatAt
<1>2. u \in Texts
  BY <1>1, CatAt DEF Parts
<1>3. Words(u) = Words(p) \cup Words(t) \cup Words(s)
  <2>1. Words(u) = Words(p \o t) \cup Words(s)
    BY <1>1, CatWords DEF Parts
  <2>2. Words(p \o t) = Words(p) \cup Words(t)
    BY CatWords
  <2> QED BY <2>1, <2>2
<1>4. CASE HasBlock(t) /\ Sound(t)
  <2>1. PICK m : BlockForm(t, m)
    BY <1>4, SoundForm
  <2>2. PICK a, c : a = Before(t) /\ c = After(t)
    OBVIOUS
  <2>3. /\ a \in Texts /\ c \in Texts /\ m \in Texts /\ Plain(a) /\ Plain(c) /\ Whole(m)
    BY <2>1, <2>2, Zenon DEF BlockForm
  <2>4. /\ p \o a \in Texts /\ Plain(p \o a) /\ c \o s \in Texts /\ Plain(c \o s)
        /\ Words(p \o a) = Words(p) \cup Words(a) /\ Words(c \o s) = Words(c) \cup Words(s)
    BY <2>3, CatAt, CatPlain, CatWords
  <2>5. Parts(u, p \o a, m, c \o s)
    <3>1. PICK x, y : x = a \o m /\ y = p \o x
      OBVIOUS
    <3>2. x \in Texts /\ y \in Texts
      BY <2>3, <3>1, CatAt
    <3>3. (p \o x) \o c = p \o (x \o c)
      <4>1. Associate(p, x, c)
        BY <2>3, <3>2, CatAssociate
      <4> QED BY <4>1, Zenon DEF Associate
    <3>4. (p \o a) \o m = p \o (a \o m)
      <4>1. Associate(p, a, m)
        BY <2>3, CatAssociate
      <4> QED BY <4>1, Zenon DEF Associate
    <3>5. (y \o c) \o s = y \o (c \o s)
      <4>1. Associate(y, c, s)
        BY <2>3, <3>2, CatAssociate
      <4> QED BY <4>1, Zenon DEF Associate
    <3>6. t = (a \o m) \o c /\ u = (p \o t) \o s
      BY <2>1, <2>2, Zenon DEF BlockForm, Parts
    <3>7. y = (p \o a) \o m /\ u = (y \o c) \o s
      BY <3>1, <3>3, <3>4, <3>6, Zenon
    <3>8. u = ((p \o a) \o m) \o (c \o s)
      BY <3>5, <3>7, Zenon
    <3> QED BY <3>8, Zenon DEF Parts
  <2>6. Sound(u) /\ HasBlock(u) /\ Before(u) = p \o a /\ After(u) = c \o s
    <3>1. PICK x, y : x = p \o a /\ y = c \o s
      OBVIOUS
    <3>2. x \in Texts /\ Plain(x) /\ y \in Texts /\ Plain(y) /\ Parts(u, x, m, y)
      BY <2>4, <2>5, <3>1, Zenon
    <3>3. Sound(u) /\ HasBlock(u) /\ Before(u) = x /\ After(u) = y
      BY <2>3, <3>2, Form
    <3> QED BY <3>1, <3>3, Zenon
  <2>7. Outside(u) = Words(p \o a) \cup Words(c \o s)
    BY <2>6, Zenon DEF Outside
  <2>8. Outside(t) = Words(a) \cup Words(c)
    BY <1>4, <2>2, Zenon DEF Outside
  <2> QED BY <1>2, <2>4, <2>7, <2>8
<1>5. CASE ~(HasBlock(t) /\ Sound(t))
  <2>1. Outside(t) = Words(t)
    BY <1>5 DEF Outside
  <2>2. ~(HasBlock(u) /\ Sound(u))
    <3> SUFFICES ASSUME HasBlock(u), Sound(u) PROVE HasBlock(t) /\ Sound(t)
      BY <1>5
    <3>1. PICK P, Q \in DOMAIN u : /\ P < Q
              /\ u[P] = "start" /\ (\A k \in DOMAIN u : u[k] = "start" => k = P)
              /\ u[Q] = "end" /\ (\A k \in DOMAIN u : u[k] = "end" => k = Q)
      BY <1>2, SoundMarkers
    <3>2. Len(p) \in Nat /\ Len(t) \in Nat /\ DOMAIN t = 1..Len(t) /\ DOMAIN u \subseteq Nat
      BY <1>2, LenZero
    <3>3. \A k \in DOMAIN t : Len(p) + k \in DOMAIN u /\ u[Len(p) + k] = t[k]
      <4> TAKE k \in DOMAIN t
      <4>1. Len(p) + k \in DOMAIN (p \o t) /\ (p \o t)[Len(p) + k] = t[k]
        BY CatSecond
      <4> QED BY <1>1, <4>1, CatFirst DEF Parts
    <3>4. \A k \in DOMAIN u : u[k] \in Markers => k - Len(p) \in DOMAIN t
      <4> SUFFICES ASSUME NEW k \in DOMAIN u, u[k] \in Markers PROVE k - Len(p) \in DOMAIN t
        OBVIOUS
      <4>1. \/ k \in DOMAIN (p \o t) /\ u[k] = (p \o t)[k]
            \/ k - Len(p \o t) \in DOMAIN s /\ u[k] = s[k - Len(p \o t)]
        BY <1>1, CatEither DEF Parts
      <4>2. k \in DOMAIN (p \o t) /\ u[k] = (p \o t)[k]
        BY <4>1 DEF Plain
      <4>3. \/ k \in DOMAIN p /\ u[k] = p[k]
            \/ k - Len(p) \in DOMAIN t
        BY <4>2, CatEither
      <4> QED BY <4>3 DEF Plain
    <3> DEFINE x == P - Len(p)
               y == Q - Len(p)
    <3>5. x \in DOMAIN t /\ y \in DOMAIN t
      BY <3>1, <3>4 DEF Markers
    <3>6. x < y /\ Len(p) + x = P /\ Len(p) + y = Q
      BY <3>1, <3>2
    <3>7. t[x] = "start" /\ t[y] = "end"
      BY <3>1, <3>3, <3>5, <3>6
    <3>8. \A k \in DOMAIN t : (t[k] = "start" => k = x) /\ (t[k] = "end" => k = y)
      <4> TAKE k \in DOMAIN t
      <4>1. Len(p) + k \in DOMAIN u /\ u[Len(p) + k] = t[k] /\ k \in Nat
        BY <3>2, <3>3
      <4>2. t[k] = "start" => Len(p) + k = P
        BY <3>1, <4>1
      <4>3. t[k] = "end" => Len(p) + k = Q
        BY <3>1, <4>1
      <4>4. P \in Nat /\ Q \in Nat
        BY <3>1, <3>2
      <4> QED BY <3>2, <4>1, <4>2, <4>3, <4>4
    <3> HIDE DEF x, y
    <3> QED BY <3>5, <3>6, <3>7, <3>8, MarkersAt
  <2>3. Outside(u) = Words(u)
    BY <2>2 DEF Outside
  <2> QED BY <1>2, <1>3, <2>1, <2>3
<1> QED BY <1>4, <1>5

-----------------------------------------------------------------------------
(* The plan of a run. *)

\* What a plan is about, no file of it twice.
Entries == [name : Names, text : Texts]
Plans == Seq(Entries)
Planned(s) == {s[k] : k \in DOMAIN s}
Distinct(s) == \A j, k \in DOMAIN s : s[j].name = s[k].name => j = k

LEMMA PlanEmpty == <<>> \in Plans /\ Planned(<<>>) = {} /\ Distinct(<<>>)
<1>1. <<>> \in Plans /\ DOMAIN <<>> = {}
  BY EmptySeq, LenProperties DEF Plans
<1> QED BY <1>1 DEF Planned, Distinct

LEMMA PlannedTyped ==
    ASSUME NEW s \in Plans
    PROVE  \A p \in Planned(s) : p \in Entries /\ p.name \in Names /\ p.text \in Texts
<1>1. \A k \in DOMAIN s : s[k] \in Entries
  <2>1. s \in Seq(Entries)
    BY DEF Plans
  <2>2. Len(s) \in Nat /\ DOMAIN s = 1..Len(s)
    BY <2>1, LenProperties
  <2> QED BY <2>1, <2>2, ElementOfSeq
<1> QED BY <1>1 DEF Planned, Entries

LEMMA PlanTail ==
    ASSUME NEW s \in Plans, s # <<>>, Distinct(s)
    PROVE  /\ Head(s) \in Planned(s) /\ Tail(s) \in Plans /\ Distinct(Tail(s)) /\ Tail(s) # s
           /\ \A p \in Planned(Tail(s)) : p \in Planned(s) /\ p.name # Head(s).name
           /\ \A p \in Planned(s) : p = Head(s) \/ p \in Planned(Tail(s))
<1>1. /\ Len(s) \in Nat /\ DOMAIN s = 1..Len(s) /\ Len(s) >= 1 /\ Head(s) = s[1]
  <2>1. Len(s) \in Nat /\ DOMAIN s = 1..Len(s) /\ Head(s) = s[1]
    BY LenProperties, HeadTailProperties DEF Plans
  <2>2. Len(s) # 0
    BY EmptySeq, LenProperties DEF Plans
  <2> QED BY <2>1, <2>2
<1>2. /\ Tail(s) \in Plans /\ Len(Tail(s)) = Len(s) - 1
      /\ \A k \in 1..Len(Tail(s)) : Tail(s)[k] = s[k + 1]
  BY HeadTailProperties DEF Plans
<1>3. DOMAIN Tail(s) = 1..(Len(s) - 1)
  <2>1. DOMAIN Tail(s) = 1..Len(Tail(s))
    BY <1>2, LenProperties DEF Plans
  <2> QED BY <1>2, <2>1
<1>4. \A k \in DOMAIN Tail(s) : k + 1 \in DOMAIN s /\ k + 1 # 1 /\ Tail(s)[k] = s[k + 1] /\ k \in Nat
  BY <1>1, <1>2, <1>3
<1>5. 1 \in DOMAIN s
  BY <1>1
<1>6. Head(s) \in Planned(s)
  BY <1>1, <1>5 DEF Planned
<1>7. Distinct(Tail(s))
  <2> SUFFICES ASSUME NEW j \in DOMAIN Tail(s), NEW k \in DOMAIN Tail(s),
                      Tail(s)[j].name = Tail(s)[k].name
               PROVE  j = k
    BY DEF Distinct
  <2>1. j + 1 = k + 1
    BY <1>4 DEF Distinct
  <2> QED BY <1>4, <2>1
<1>8. Tail(s) # s
  <2>1. \A n \in Nat : n - 1 # n
    OBVIOUS
  <2> QED BY <1>1, <1>2, <2>1, Zenon
<1>9. ASSUME NEW p \in Planned(Tail(s)) PROVE p \in Planned(s) /\ p.name # Head(s).name
  <2>1. PICK k \in DOMAIN Tail(s) : p = Tail(s)[k]
    BY DEF Planned
  <2>2. k + 1 \in DOMAIN s /\ k + 1 # 1 /\ p = s[k + 1]
    BY <1>4, <2>1
  <2>3. p.name # s[1].name
    BY <1>5, <2>2 DEF Distinct
  <2> QED BY <1>1, <2>2, <2>3 DEF Planned
<1>10. ASSUME NEW p \in Planned(s) PROVE p = Head(s) \/ p \in Planned(Tail(s))
  <2>1. PICK k \in DOMAIN s : p = s[k]
    BY DEF Planned
  <2>2. CASE k = 1
    BY <1>1, <2>1, <2>2
  <2>3. CASE k # 1
    <3>1. k - 1 \in DOMAIN Tail(s) /\ (k - 1) + 1 = k
      BY <1>1, <1>3, <2>3
    <3>2. Tail(s)[k - 1] = p
      BY <1>4, <2>1, <3>1
    <3> QED BY <3>1, <3>2 DEF Planned
  <2> QED BY <2>2, <2>3
<1> QED BY <1>2, <1>6, <1>7, <1>8, <1>9, <1>10, ZenonT(60)

LEMMA PlanAppend ==
    ASSUME NEW s \in Plans, NEW e \in Entries, Distinct(s), \A p \in Planned(s) : p.name # e.name
    PROVE  /\ s \o <<e>> \in Plans /\ Distinct(s \o <<e>>)
           /\ Planned(s \o <<e>>) = Planned(s) \cup {e}
<1>1. /\ Len(s) \in Nat /\ DOMAIN s = 1..Len(s)
      /\ <<e>> \in Plans /\ Len(<<e>>) = 1
  BY LenProperties DEF Plans
<1> PICK d : d = s \o <<e>>
  OBVIOUS
<1>2. /\ d \in Plans /\ Len(d) = Len(s) + 1
      /\ \A k \in 1..Len(s) + 1 : d[k] = IF k <= Len(s) THEN s[k] ELSE <<e>>[k - Len(s)]
  BY <1>1, ConcatProperties DEF Plans
<1>3. DOMAIN d = 1..(Len(s) + 1)
  BY <1>2, LenProperties DEF Plans
<1>4. \A k \in DOMAIN s : k \in DOMAIN d /\ d[k] = s[k] /\ k # Len(s) + 1
  BY <1>1, <1>2, <1>3
<1>5. Len(s) + 1 \in DOMAIN d /\ d[Len(s) + 1] = e
  <2>1. Len(s) + 1 \in 1..Len(s) + 1 /\ ~(Len(s) + 1 <= Len(s)) /\ (Len(s) + 1) - Len(s) = 1
    BY <1>1
  <2>2. <<e>>[1] = e
    OBVIOUS
  <2> QED BY <1>2, <1>3, <2>1, <2>2
<1>6. \A k \in DOMAIN d : k \in DOMAIN s \/ k = Len(s) + 1
  BY <1>1, <1>3
<1>7. Distinct(d)
  <2> SUFFICES ASSUME NEW j \in DOMAIN d, NEW k \in DOMAIN d, d[j].name = d[k].name
               PROVE  j = k
    BY DEF Distinct
  <2>1. ASSUME NEW y \in DOMAIN s PROVE d[y].name # d[Len(s) + 1].name
    BY <1>4, <1>5 DEF Planned
  <2>2. CASE j \in DOMAIN s /\ k \in DOMAIN s
    BY <1>4, <2>2 DEF Distinct
  <2> QED BY <1>6, <2>1, <2>2
<1>8. Planned(d) = Planned(s) \cup {e}
  <2>1. ASSUME NEW p \in Planned(d) PROVE p \in Planned(s) \cup {e}
    <3>1. PICK k \in DOMAIN d : p = d[k]
      BY DEF Planned
    <3> QED BY <1>4, <1>5, <1>6, <3>1 DEF Planned
  <2>2. ASSUME NEW p \in Planned(s) PROVE p \in Planned(d)
    <3>1. PICK k \in DOMAIN s : p = s[k]
      BY DEF Planned
    <3> QED BY <1>4, <3>1 DEF Planned
  <2>3. e \in Planned(d)
    BY <1>5 DEF Planned
  <2> QED BY <2>1, <2>2, <2>3
<1> QED BY <1>2, <1>7, <1>8

-----------------------------------------------------------------------------
(* The invariant. *)

RunTypes ==
    [pc : {"idle", "reading", "writing", "refused", "failed", "done"}, remove : BOOLEAN,
     read : SUBSET Names, plan : Plans, alone : BOOLEAN]

TypeOK ==
    /\ file \in [Names -> Files]
    /\ run \in [Runs -> RunTypes]
    /\ starts \in Nat /\ edits \in Nat /\ faults \in Nat
    /\ origin \in [Names -> Files]
    /\ owned \in [Names -> SUBSET OwnerWords]
    /\ raced \in SUBSET OwnerWords

\* A run that has not started, or has ended.
Stopped(r) == r.pc \in {"idle", "refused", "failed", "done"}

\* The phases of a run r: it writes when it has judged both files, and what it
\* plans is about files that it has read, each once.
Ordered(r) ==
    /\ r.pc = "reading" => "CLAUDE" \notin r.read
    /\ r.pc \in {"writing", "done"} => r.read = Names
    /\ r.pc = "done" => r.plan = <<>>
    /\ Distinct(r.plan)
    /\ \A p \in Planned(r.plan) : p.name \in r.read

\* What a run has planned is sound and keeps the words of the owner, except
\* those that came after it read the file.
Keeps(r, own, rac) ==
    ~Stopped(r) => \A p \in Planned(r.plan) :
        Sound(p.text) /\ own[p.name] \subseteq Outside(p.text) \cup rac

\* A file e of name f cannot be judged, or there is nothing to do to it.
Bad(f, e) ==
    \/ e.kind = "alien"
    \/ e.kind = "link" /\ f = "AGENTS"
    \/ e.kind = "regular" /\ ~Sound(e.text)
Nothing(f, e, remove) ==
    e.kind = "link" \/ (remove /\ e.kind = "absent") \/ Wanted(f, remove, e.text) = e.text

\* A run that is alone has planned what there is to do to the files it has read.
SettledFile(r, f, e) ==
    /\ ~Bad(f, e)
    /\ \A p \in Planned(r.plan) : p.name = f =>
          e.kind \in {"regular", "absent"} /\ p.text = Wanted(f, r.remove, e.text)
    /\ (\A p \in Planned(r.plan) : p.name # f) => Nothing(f, e, r.remove)
Settled(r, files) ==
    r.alone /\ r.pc \in {"reading", "writing", "done"} =>
        \A f \in r.read : SettledFile(r, f, files[f])

\* Without edits, what a run writes can be taken back.
Back(o, t) == StripRight(Usun(t)) = StripRight(Usun(o.text))
Returns(r, found) ==
    ~Stopped(r) => \A p \in Planned(r.plan) :
        /\ Back(found[p.name], p.text)
        /\ found[p.name].kind = "absent" => HasBlock(p.text) \/ OnlyOurs(r.remove, p.text)

WordsSafe == \A f \in Names : owned[f] \subseteq Outside(file[f].text) \cup raced
FilesReturn ==
    edits = 0 => \A f \in Names :
        /\ Back(origin[f], file[f].text)
        /\ origin[f].kind = "absent" => file[f].kind = "absent" \/ HasBlock(file[f].text)
RunsOrdered == \A i \in Runs : Ordered(run[i])
RunsKeep == \A i \in Runs : Keeps(run[i], owned, raced)
RunsSettled == \A i \in Runs : Settled(run[i], file)
RunsReturn == edits = 0 => \A i \in Runs : Returns(run[i], origin)

ContractInv ==
    /\ TypeOK /\ RunsOrdered /\ WordsSafe /\ RunsKeep /\ RunsSettled
    /\ FilesReturn /\ RunsReturn

-----------------------------------------------------------------------------
(* The state. *)

LEMMA FileIs ==
    ASSUME NEW e \in Files
    PROVE  /\ e.text \in Texts /\ e.kind \in {"regular", "absent", "link", "alien"}
           /\ e.kind # "regular" => e.text = <<>>
<1>1. CASE e \in [kind : {"regular"}, text : Seq(Tokens)]
  BY <1>1 DEF Texts
<1>2. CASE e \in [kind : {"absent", "link", "alien"}, text : {<<>>}]
  BY <1>2, Empty
<1> QED BY <1>1, <1>2 DEF Files

LEMMA FileMake ==
    ASSUME NEW t \in Texts
    PROVE  /\ [kind |-> "regular", text |-> t] \in Files
           /\ [kind |-> "absent", text |-> <<>>] \in Files
BY DEF Files, Texts

LEMMA RefusedIs ==
    ASSUME NEW f
    PROVE  Refused(f) <=> Bad(f, file[f])
BY Zenon DEF Refused, Bad

\* What is not refused is sound.
LEMMA NotBad ==
    ASSUME NEW f \in Names, NEW e \in Files, ~Bad(f, e)
    PROVE  Sound(e.text)
BY FileIs, EmptyIs DEF Bad

LEMMA PlanForIs ==
    ASSUME NEW f \in Names, NEW i \in Runs, file[f] \in Files
    PROVE  PlanFor(i, f) = IF Nothing(f, file[f], run[i].remove) THEN <<>>
                           ELSE <<[name |-> f, text |-> Wanted(f, run[i].remove, file[f].text)]>>
<1>1. (IF file[f].kind = "regular" THEN file[f].text ELSE <<>>) = file[f].text
  BY FileIs
<1> QED BY <1>1, Zenon DEF PlanFor, Nothing

LEMMA OutsideTyped == ASSUME NEW t PROVE Outside(t) \subseteq OwnerWords
BY DEF Outside, Words

-----------------------------------------------------------------------------
(* The steps, run by run. *)

LEMMA RunIs ==
    ASSUME NEW r \in RunTypes
    PROVE  /\ r.pc \in {"idle", "reading", "writing", "refused", "failed", "done"}
           /\ r.remove \in BOOLEAN /\ r.read \in SUBSET Names /\ r.plan \in Plans
           /\ r.alone \in BOOLEAN
BY DEF RunTypes

\* Everything about a run r but the files and the words.
Run(r, files, own, rac, found, ed) ==
    /\ Ordered(r) /\ Keeps(r, own, rac) /\ Settled(r, files)
    /\ ed = 0 => Returns(r, found)

LEMMA RunsIs ==
    RunsOrdered /\ RunsKeep /\ RunsSettled /\ RunsReturn
    <=> \A i \in Runs : Run(run[i], file, owned, raced, origin, edits)
BY DEF RunsOrdered, RunsKeep, RunsSettled, RunsReturn, Run

\* A run that starts has read nothing.
LEMMA RunStarts ==
    ASSUME NEW r, NEW files, NEW own, NEW rac, NEW found, NEW ed,
           r.read = {}, r.plan = <<>>, r.pc = "reading"
    PROVE  Run(r, files, own, rac, found, ed)
<1>1. Planned(r.plan) = {} /\ Distinct(r.plan)
  BY PlanEmpty
<1>2. Ordered(r)
  BY <1>1 DEF Ordered
<1>3. Keeps(r, own, rac) /\ Settled(r, files) /\ Returns(r, found)
  BY <1>1 DEF Keeps, Settled, Returns
<1> QED BY <1>2, <1>3 DEF Run

LEMMA RunIdle ==
    ASSUME NEW r, NEW files, NEW own, NEW rac, NEW found, NEW ed, r = NotRunning
    PROVE  Run(r, files, own, rac, found, ed)
<1>1. Planned(r.plan) = {} /\ Distinct(r.plan)
  BY PlanEmpty DEF NotRunning
<1>2. r.pc = "idle"
  BY DEF NotRunning
<1>3. Ordered(r)
  BY <1>1, <1>2 DEF Ordered
<1>4. Keeps(r, own, rac) /\ Settled(r, files) /\ Returns(r, found)
  BY <1>1, <1>2 DEF Keeps, Settled, Returns
<1> QED BY <1>3, <1>4 DEF Run

\* A run that stops has nothing to write any more.
LEMMA RunStops ==
    ASSUME NEW r, NEW s, NEW files, NEW own, NEW rac, NEW found, NEW ed,
           Run(r, files, own, rac, found, ed),
           s.read = r.read, s.plan = r.plan, s.remove = r.remove, s.alone = r.alone,
           s.pc \in {"refused", "failed"} \/ (s.pc = "done" /\ r.pc = "writing" /\ r.plan = <<>>)
    PROVE  Run(s, files, own, rac, found, ed)
<1>1. Ordered(r) /\ Settled(r, files)
  BY DEF Run
<1>2. Stopped(s)
  BY DEF Stopped
<1>3. Keeps(s, own, rac) /\ Returns(s, found)
  BY <1>2 DEF Keeps, Returns
<1>4. Ordered(s)
  BY <1>1 DEF Ordered
<1>5. Settled(s, files)
  BY <1>1 DEF Settled, SettledFile
<1> QED BY <1>3, <1>4, <1>5 DEF Run

\* The words of the files that a run r holds are kept, or came later.
Kept(r, own, rac, own_, rac_) ==
    /\ rac \subseteq rac_
    /\ ~Stopped(r) => \A f \in r.read : own_[f] \subseteq own[f] \cup rac_

\* A run that is no longer alone, whatever was written: the words that it does not
\* keep are new ones, and they came after its read.
LEMMA RunNotAlone ==
    ASSUME NEW r, NEW s, NEW files, NEW own, NEW rac, NEW found, NEW ed,
           NEW files_, NEW own_, NEW rac_, NEW ed_,
           Run(r, files, own, rac, found, ed),
           s.pc = r.pc, s.read = r.read, s.plan = r.plan, s.remove = r.remove, s.alone = FALSE,
           Kept(r, own, rac, own_, rac_), ed_ = 0 => ed = 0
    PROVE  Run(s, files_, own_, rac_, found, ed_)
<1>1. Ordered(r) /\ Keeps(r, own, rac) /\ (ed = 0 => Returns(r, found))
  BY DEF Run
<1>2. Ordered(s)
  BY <1>1 DEF Ordered
<1>3. Settled(s, files_)
  BY DEF Settled
<1>4. Keeps(s, own_, rac_)
  <2> SUFFICES ASSUME ~Stopped(r), NEW p \in Planned(r.plan)
               PROVE  Sound(p.text) /\ own_[p.name] \subseteq Outside(p.text) \cup rac_
    BY DEF Keeps, Stopped
  <2>1. Sound(p.text) /\ own[p.name] \subseteq Outside(p.text) \cup rac
    BY <1>1 DEF Keeps
  <2>2. p.name \in r.read
    BY <1>1 DEF Ordered
  <2>3. own_[p.name] \subseteq own[p.name] \cup rac_
    BY <2>2 DEF Kept
  <2>4. rac \subseteq rac_
    BY DEF Kept
  <2> QED BY <2>1, <2>3, <2>4
<1>5. ed_ = 0 => Returns(s, found)
  BY <1>1 DEF Returns, Stopped
<1> QED BY <1>2, <1>3, <1>4, <1>5 DEF Run

\* A run reads a sound file and plans what there is to do.
LEMMA RunReads ==
    ASSUME NEW r \in RunTypes, NEW s, NEW f \in Names, NEW e, NEW plan,
           NEW files \in [Names -> Files], NEW own, NEW rac, NEW found, NEW ed,
           Run(r, files, own, rac, found, ed), r.pc = "reading", f \notin r.read,
           f = "CLAUDE" => "AGENTS" \in r.read,
           e = files[f], ~Bad(f, e),
           plan = IF Nothing(f, e, r.remove) THEN <<>>
                  ELSE <<[name |-> f, text |-> Wanted(f, r.remove, e.text)]>>,
           s.pc = IF f = "CLAUDE" THEN "writing" ELSE "reading",
           s.read = r.read \cup {f}, s.plan = r.plan \o plan,
           s.remove = r.remove, s.alone = r.alone,
           own[f] \subseteq Outside(e.text) \cup rac,
           ed = 0 => /\ Back(found[f], e.text)
                     /\ found[f].kind = "absent" => e.kind = "absent" \/ HasBlock(e.text),
           found[f].kind = "absent" => found[f].text = <<>>
    PROVE  Run(s, files, own, rac, found, ed) /\ s.plan \in Plans
<1>1. /\ Ordered(r) /\ Keeps(r, own, rac) /\ Settled(r, files) /\ (ed = 0 => Returns(r, found))
      /\ r.plan \in Plans /\ r.remove \in BOOLEAN
  BY RunIs DEF Run
<1>2. /\ e \in Files /\ e.text \in Texts /\ Sound(e.text)
      /\ e.kind \in {"regular", "absent", "link", "alien"} /\ (e.kind # "regular" => e.text = <<>>)
  BY FileIs, NotBad
<1> PICK w : w = Wanted(f, r.remove, e.text)
  OBVIOUS
<1>3. /\ w \in Texts /\ Sound(w) /\ Outside(w) = Outside(e.text)
      /\ StripRight(Usun(w)) = StripRight(Usun(e.text))
      /\ HasBlock(w) \/ (Usun(w) = w /\ (r.remove \/ Imports(w)))
  BY <1>1, <1>2, WantedKeeps
<1>4. /\ r.read = IF f = "CLAUDE" THEN {"AGENTS"} ELSE {}
      /\ s.read = IF f = "CLAUDE" THEN Names ELSE {f}
  <2>1. r.read \subseteq {"AGENTS", "CLAUDE"} /\ "CLAUDE" \notin r.read
    BY <1>1, RunIs DEF Ordered, Names
  <2>2. CASE f = "CLAUDE"
    <3>1. r.read = {"AGENTS"}
      BY <2>1, <2>2
    <3> QED BY <2>2, <3>1 DEF Names
  <2>3. CASE f # "CLAUDE"
    <3>1. f = "AGENTS"
      BY <2>3 DEF Names
    <3>2. r.read = {}
      BY <2>1, <3>1
    <3> QED BY <2>3, <3>2
  <2> QED BY <2>2, <2>3
<1>5. \A p \in Planned(r.plan) : p.name \in r.read /\ p.name # f
  BY <1>1 DEF Ordered
<1> DEFINE new == [name |-> f, text |-> w]
<1>6. /\ s.plan \in Plans /\ Distinct(s.plan)
      /\ Planned(s.plan) = IF Nothing(f, e, r.remove) THEN Planned(r.plan) ELSE Planned(r.plan) \cup {new}
  <2>1. Distinct(r.plan)
    BY <1>1 DEF Ordered
  <2>2. CASE Nothing(f, e, r.remove)
    <3>1. s.plan = r.plan
      BY <1>1, <2>2, ConcatEmptySeq DEF Plans
    <3> QED BY <1>1, <2>1, <2>2, <3>1
  <2>3. CASE ~Nothing(f, e, r.remove)
    <3>1. plan = <<new>>
      BY <2>3
    <3>2. new \in Entries /\ new.name = f
      BY <1>3 DEF Entries
    <3> HIDE DEF new
    <3>3. s.plan = r.plan \o <<new>>
      BY <3>1, Zenon
    <3>4. \A p \in Planned(r.plan) : p.name # new.name
      BY <1>5, <3>2
    <3>5. /\ r.plan \o <<new>> \in Plans /\ Distinct(r.plan \o <<new>>)
          /\ Planned(r.plan \o <<new>>) = Planned(r.plan) \cup {new}
      BY <1>1, <2>1, <3>2, <3>4, PlanAppend
    <3> QED BY <2>3, <3>3, <3>5, Zenon
  <2> QED BY <2>2, <2>3
<1>7. \A p \in Planned(s.plan) : p \in Planned(r.plan) \/ (p.name = f /\ p.text = w /\ ~Nothing(f, e, r.remove))
  BY <1>6
<1>8. Ordered(s)
  BY <1>4, <1>5, <1>6, <1>7 DEF Ordered
<1>9. Keeps(s, own, rac)
  <2>1. \A p \in Planned(r.plan) : Sound(p.text) /\ own[p.name] \subseteq Outside(p.text) \cup rac
    BY <1>1 DEF Keeps, Stopped
  <2>2. \A p \in Planned(s.plan) : Sound(p.text) /\ own[p.name] \subseteq Outside(p.text) \cup rac
    BY <1>3, <1>7, <2>1
  <2> QED BY <2>2 DEF Keeps
<1>10. ed = 0 => Returns(s, found)
  <2> SUFFICES ASSUME ed = 0, NEW p \in Planned(s.plan)
               PROVE  /\ Back(found[p.name], p.text)
                      /\ found[p.name].kind = "absent" => HasBlock(p.text) \/ OnlyOurs(s.remove, p.text)
    BY DEF Returns
  <2>1. CASE p \in Planned(r.plan)
    BY <1>1, <2>1 DEF Returns, Stopped
  <2>2. CASE p.name = f /\ p.text = w /\ ~Nothing(f, e, r.remove)
    <3>1. Back(found[f], w)
      BY <1>3 DEF Back
    <3>2. ASSUME found[f].kind = "absent", ~HasBlock(w) PROVE OnlyOurs(r.remove, w)
      <4>1. StripRight(Usun(w)) = <<>>
        BY <3>1, <3>2, EmptyIs DEF Back
      <4>2. StripRight(w) = <<>>
        BY <1>3, <3>2, <4>1
      <4>3. Blank(w) /\ StripLeft(w) = <<>>
        BY <1>3, <4>2, StripKeeps
      <4>4. ~Imports(w)
        BY <1>3, <4>3, BlankImports
      <4> QED BY <1>3, <3>2, <4>3, <4>4 DEF OnlyOurs
    <3> QED BY <2>2, <3>1, <3>2
  <2> QED BY <1>7, <2>1, <2>2
<1>11. Settled(s, files)
  <2> SUFFICES ASSUME r.alone, NEW g \in s.read PROVE SettledFile(s, g, files[g])
    BY DEF Settled
  <2>1. CASE g = f
    <3>1. \A p \in Planned(s.plan) : p.name = f =>
             e.kind \in {"regular", "absent"} /\ p.text = Wanted(f, r.remove, e.text)
      BY <1>2, <1>5, <1>7 DEF Nothing, Bad
    <3>2. (\A p \in Planned(s.plan) : p.name # f) => Nothing(f, e, r.remove)
      BY <1>6
    <3> QED BY <2>1, <3>1, <3>2 DEF SettledFile
  <2>2. CASE g # f
    <3>1. SettledFile(r, g, files[g])
      BY <1>1, <2>2 DEF Settled
    <3>2. \A p \in Planned(s.plan) : p.name = g => p \in Planned(r.plan)
      BY <1>7, <2>2
    <3>3. \A p \in Planned(r.plan) : p \in Planned(s.plan)
      BY <1>6
    <3> QED BY <3>1, <3>2, <3>3 DEF SettledFile
  <2> QED BY <2>1, <2>2
<1> QED BY <1>6, <1>8, <1>9, <1>10, <1>11 DEF Run

\* A file e in the place of f keeps the words of the owner and can be taken back.
Fits(f, e, own, rac, found, ed) ==
    /\ own[f] \subseteq Outside(e.text) \cup rac
    /\ ed = 0 =>
          /\ Back(found[f], e.text)
          /\ found[f].kind = "absent" => e.kind = "absent" \/ HasBlock(e.text)
Replaced(files, f, e) == [files EXCEPT ![f] = e]

\* A run writes the first file of its plan, or removes it.
Written(remove, t) ==
    IF OnlyOurs(remove, t) THEN [kind |-> "absent", text |-> <<>>] ELSE [kind |-> "regular", text |-> t]

WritesFirst(r, s, p, e) ==
    /\ r.pc = "writing" /\ r.plan # <<>>
    /\ p = Head(r.plan) /\ e = Written(r.remove, p.text)
    /\ s.pc = r.pc /\ s.read = r.read /\ s.remove = r.remove /\ s.alone = r.alone
    /\ s.plan = Tail(r.plan)

LEMMA RunWrites ==
    ASSUME NEW r \in RunTypes, NEW s, NEW p, NEW e,
           NEW files \in [Names -> Files], NEW own, NEW rac, NEW found, NEW ed,
           Run(r, files, own, rac, found, ed), WritesFirst(r, s, p, e)
    PROVE  /\ Run(s, Replaced(files, p.name, e), own, rac, found, ed)
           /\ p.name \in Names /\ e \in Files /\ s.plan \in Plans /\ s.plan # r.plan
           /\ Sound(e.text) /\ Fits(p.name, e, own, rac, found, ed)
<1> DEFINE unlink == OnlyOurs(r.remove, p.text)
<1>0. /\ r.pc = "writing" /\ r.plan # <<>>
      /\ p = Head(r.plan) /\ e = Written(r.remove, p.text)
      /\ s.pc = r.pc /\ s.read = r.read /\ s.remove = r.remove /\ s.alone = r.alone
      /\ s.plan = Tail(r.plan)
  BY DEF WritesFirst
<1>1. /\ Ordered(r) /\ Keeps(r, own, rac) /\ Settled(r, files) /\ (ed = 0 => Returns(r, found))
      /\ r.plan \in Plans /\ r.remove \in BOOLEAN /\ r.read = Names /\ ~Stopped(r)
  BY <1>0, RunIs DEF Run, Ordered, Stopped
<1>2. /\ p \in Planned(r.plan) /\ s.plan \in Plans /\ Distinct(s.plan) /\ s.plan # r.plan
      /\ \A q \in Planned(s.plan) : q \in Planned(r.plan) /\ q.name # p.name
      /\ \A q \in Planned(r.plan) : q = p \/ q \in Planned(s.plan)
  BY <1>0, <1>1, PlanTail DEF Ordered
<1>3. p.name \in Names /\ p.text \in Texts /\ p.name \in r.read
  BY <1>1, <1>2, PlannedTyped DEF Ordered
<1>4. Sound(p.text) /\ own[p.name] \subseteq Outside(p.text) \cup rac
  BY <1>1, <1>2 DEF Keeps
<1>5. unlink => /\ r.remove /\ Outside(p.text) = {} /\ ~HasBlock(p.text)
                /\ StripRight(Usun(p.text)) = <<>>
  BY <1>3, OnlyOursIs DEF OnlyOurs
<1>6. /\ e.kind = IF unlink THEN "absent" ELSE "regular"
      /\ e.text = IF unlink THEN <<>> ELSE p.text
  BY <1>0 DEF Written
<1>7. e \in Files
  BY <1>0, <1>3, FileMake DEF Written
<1> HIDE DEF unlink
<1>8. Sound(e.text) /\ own[p.name] \subseteq Outside(e.text) \cup rac
  BY <1>4, <1>5, <1>6, EmptyIs
<1>9. ed = 0 => /\ Back(found[p.name], e.text)
                /\ found[p.name].kind = "absent" => e.kind = "absent" \/ HasBlock(e.text)
  <2> HAVE ed = 0
  <2>1. /\ Back(found[p.name], p.text)
        /\ found[p.name].kind = "absent" => HasBlock(p.text) \/ unlink
    BY <1>0, <1>1, <1>2 DEF Returns, unlink
  <2>2. CASE unlink
    <3>1. e.text = <<>> /\ e.kind = "absent"
      BY <1>6, <2>2
    <3>2. Back(found[p.name], <<>>)
      BY <1>5, <2>1, <2>2, EmptyIs DEF Back
    <3> QED BY <3>1, <3>2
  <2>3. CASE ~unlink
    BY <1>6, <2>1, <2>3
  <2> QED BY <2>2, <2>3
<1>10. Ordered(s)
  BY <1>0, <1>1, <1>2 DEF Ordered
<1>11. Keeps(s, own, rac)
  BY <1>0, <1>1, <1>2 DEF Keeps, Stopped
<1>12. ed = 0 => Returns(s, found)
  BY <1>0, <1>1, <1>2 DEF Returns, Stopped
<1> PICK after : after = Replaced(files, p.name, e)
  OBVIOUS
<1>13. after[p.name] = e /\ \A g \in Names : g # p.name => after[g] = files[g]
  BY <1>3 DEF Replaced
<1>14. Settled(s, after)
  <2> SUFFICES ASSUME r.alone, NEW g \in Names PROVE SettledFile(s, g, after[g])
    BY <1>0, <1>1 DEF Settled
  <2>1. SettledFile(r, g, files[g])
    BY <1>0, <1>1 DEF Settled
  <2>2. CASE g # p.name
    <3>1. after[g] = files[g]
      BY <1>13, <2>2
    <3>2. \A q \in Planned(r.plan) : q.name = g => q \in Planned(s.plan)
      BY <1>2, <2>2
    <3>3. \A q \in Planned(s.plan) : q \in Planned(r.plan)
      BY <1>2
    <3> QED BY <1>0, <2>1, <3>1, <3>2, <3>3 DEF SettledFile
  <2>3. CASE g = p.name
    <3>1. \A q \in Planned(s.plan) : q.name # g
      BY <1>2, <2>3
    <3>2. ~Bad(g, e)
      BY <1>6, <1>8 DEF Bad
    <3>3. /\ ~Bad(g, files[g]) /\ p.text = Wanted(g, r.remove, files[g].text)
      BY <1>2, <2>1, <2>3 DEF SettledFile
    <3>4. files[g] \in Files
      OBVIOUS
    <3>5. Sound(files[g].text) /\ files[g].text \in Texts
      BY <3>3, <3>4, NotBad, FileIs
    <3>6. Wanted(g, r.remove, p.text) = p.text
      BY <1>1, <3>3, <3>5, WantedKeeps
    <3>7. Nothing(g, e, r.remove)
      BY <1>5, <1>6, <3>6 DEF Nothing
    <3> QED BY <1>0, <1>13, <2>3, <3>1, <3>2, <3>7 DEF SettledFile
  <2> QED BY <2>2, <2>3
<1>15. Fits(p.name, e, own, rac, found, ed)
  BY <1>8, <1>9 DEF Fits
<1>16. Run(s, after, own, rac, found, ed)
  BY <1>10, <1>11, <1>12, <1>14 DEF Run
<1> QED BY <1>2, <1>3, <1>7, <1>8, <1>15, <1>16

LEMMA RunGoesOn ==
    ASSUME NEW r \in RunTypes
    PROVE  /\ [r EXCEPT !.alone = FALSE] \in RunTypes
           /\ LET s == [r EXCEPT !.alone = FALSE]
              IN  /\ s.pc = r.pc /\ s.read = r.read /\ s.plan = r.plan /\ s.remove = r.remove
                  /\ s.alone = FALSE
           /\ \A c \in {"refused", "failed", "done"} :
                LET s == [r EXCEPT !.pc = c]
                IN  /\ s \in RunTypes
                    /\ s.pc = c /\ s.read = r.read /\ s.plan = r.plan /\ s.remove = r.remove
                    /\ s.alone = r.alone
BY DEF RunTypes

-----------------------------------------------------------------------------
(* The steps. *)

LEMMA OneRunChanges ==
    ASSUME ContractInv, NEW i \in Runs, NEW s \in RunTypes, run' = [run EXCEPT ![i] = s],
           UNCHANGED <<file, edits, origin, owned, raced>>, starts' \in Nat, faults' \in Nat,
           Run(s, file, owned, raced, origin, edits)
    PROVE  ContractInv'
<1>1. TypeOK /\ WordsSafe /\ FilesReturn /\ \A j \in Runs : Run(run[j], file, owned, raced, origin, edits)
  BY RunsIs DEF ContractInv
<1>2. run' \in [Runs -> RunTypes] /\ \A j \in Runs : run'[j] = IF j = i THEN s ELSE run[j]
  BY <1>1 DEF TypeOK
<1>3. TypeOK'
  BY <1>1, <1>2 DEF TypeOK
<1>4. WordsSafe' /\ FilesReturn'
  BY <1>1 DEF WordsSafe, FilesReturn
<1>5. \A j \in Runs : Run(run'[j], file, owned, raced, origin, edits)
  BY <1>1, <1>2
<1>6. RunsOrdered' /\ RunsKeep' /\ RunsSettled' /\ RunsReturn'
  BY <1>5 DEF RunsOrdered, RunsKeep, RunsSettled, RunsReturn, Run
<1> QED BY <1>3, <1>4, <1>6 DEF ContractInv

LEMMA OneFileChanges ==
    ASSUME ContractInv, NEW f \in Names, NEW e \in Files, file' = [file EXCEPT ![f] = e],
           run' \in [Runs -> RunTypes], starts' \in Nat, edits' \in Nat, faults' \in Nat,
           owned' \in [Names -> SUBSET OwnerWords], raced' \in SUBSET OwnerWords, origin' = origin,
           raced \subseteq raced', owned'[f] \subseteq Outside(e.text) \cup raced',
           \A g \in Names : g # f => owned'[g] = owned[g],
           edits' = 0 =>
              /\ edits = 0 /\ Back(origin[f], e.text)
              /\ origin[f].kind = "absent" => e.kind = "absent" \/ HasBlock(e.text),
           \A j \in Runs : Run(run'[j], file', owned', raced', origin, edits')
    PROVE  ContractInv'
<1>1. TypeOK /\ WordsSafe /\ FilesReturn
  BY DEF ContractInv
<1>2. file' \in [Names -> Files] /\ \A g \in Names : file'[g] = IF g = f THEN e ELSE file[g]
  BY <1>1 DEF TypeOK
<1>3. TypeOK'
  BY <1>1, <1>2 DEF TypeOK
<1>4. WordsSafe'
  <2> SUFFICES ASSUME NEW g \in Names PROVE owned'[g] \subseteq Outside(file'[g].text) \cup raced'
    BY DEF WordsSafe
  <2>1. CASE g = f
    BY <1>2, <2>1
  <2>2. CASE g # f
    <3>1. owned[g] \subseteq Outside(file[g].text) \cup raced
      BY <1>1 DEF WordsSafe
    <3>2. owned'[g] = owned[g] /\ file'[g] = file[g]
      BY <1>2, <2>2
    <3> QED BY <3>1, <3>2
  <2> QED BY <2>1, <2>2
<1>5. FilesReturn'
  <2> SUFFICES ASSUME edits' = 0, NEW g \in Names
               PROVE  /\ Back(origin[g], file'[g].text)
                      /\ origin[g].kind = "absent" => file'[g].kind = "absent" \/ HasBlock(file'[g].text)
    BY DEF FilesReturn
  <2>1. CASE g = f
    BY <1>2, <2>1
  <2>2. CASE g # f
    <3>1. file'[g] = file[g] /\ edits = 0
      BY <1>2, <2>2
    <3>2. /\ Back(origin[g], file[g].text)
          /\ origin[g].kind = "absent" => file[g].kind = "absent" \/ HasBlock(file[g].text)
      BY <1>1, <3>1 DEF FilesReturn
    <3> QED BY <3>1, <3>2
  <2> QED BY <2>1, <2>2
<1>6. RunsOrdered' /\ RunsKeep' /\ RunsSettled' /\ RunsReturn'
  BY DEF RunsOrdered, RunsKeep, RunsSettled, RunsReturn, Run
<1> QED BY <1>3, <1>4, <1>5, <1>6 DEF ContractInv

LEMMA InvFacts ==
    ASSUME ContractInv
    PROVE  /\ file \in [Names -> Files] /\ run \in [Runs -> RunTypes]
           /\ starts \in Nat /\ edits \in Nat /\ faults \in Nat
           /\ origin \in [Names -> Files]
           /\ owned \in [Names -> SUBSET OwnerWords] /\ raced \in SUBSET OwnerWords
           /\ WordsSafe /\ FilesReturn
           /\ \A i \in Runs : Run(run[i], file, owned, raced, origin, edits)
BY RunsIs DEF ContractInv, TypeOK

LEMMA StartStep ==
    ASSUME ContractInv, NEW i \in Runs, NEW remove \in BOOLEAN, Start(i, remove)
    PROVE  ContractInv'
<1> PICK s : s = [NotRunning EXCEPT !.pc = "reading", !.remove = remove]
  OBVIOUS
<1>1. s \in RunTypes /\ s.read = {} /\ s.plan = <<>> /\ s.pc = "reading"
  <2>1. <<>> \in Plans
    BY PlanEmpty
  <2> QED BY <2>1 DEF NotRunning, RunTypes
<1>2. starts \in Nat /\ faults \in Nat
  BY InvFacts
<1>3. /\ run' = [run EXCEPT ![i] = s] /\ UNCHANGED <<file, edits, origin, owned, raced>>
      /\ starts' \in Nat /\ faults' \in Nat
  BY <1>2 DEF Start
<1>4. Run(s, file, owned, raced, origin, edits)
  BY <1>1, RunStarts
<1> QED BY <1>1, <1>3, <1>4, OneRunChanges

\* A run that stops: Refuse, NothingToUnlink, Finish and Fault.
LEMMA StopStep ==
    ASSUME ContractInv, NEW i \in Runs, NEW c, run' = [run EXCEPT ![i].pc = c],
           c \in {"refused", "failed"} \/ (c = "done" /\ run[i].pc = "writing" /\ run[i].plan = <<>>),
           UNCHANGED <<file, edits, origin, owned, raced>>, starts' \in Nat, faults' \in Nat
    PROVE  ContractInv'
<1>1. run[i] \in RunTypes /\ Run(run[i], file, owned, raced, origin, edits)
  BY InvFacts
<1> PICK s : s = [run[i] EXCEPT !.pc = c]
  OBVIOUS
<1>2. c \in {"refused", "failed", "done"}
  OBVIOUS
<1>3. /\ s \in RunTypes /\ s.pc = c /\ s.read = run[i].read /\ s.plan = run[i].plan
      /\ s.remove = run[i].remove /\ s.alone = run[i].alone
  BY <1>1, <1>2, RunGoesOn
<1>4. Run(s, file, owned, raced, origin, edits)
  BY <1>1, <1>3, RunStops, ZenonT(60)
<1>5. run' = [run EXCEPT ![i] = s]
  BY InvFacts
<1> QED BY <1>3, <1>4, <1>5, OneRunChanges

LEMMA ReadStep ==
    ASSUME ContractInv, NEW i \in Runs, NEW f \in Names, Read(i, f)
    PROVE  ContractInv'
<1>1. /\ run[i] \in RunTypes /\ Run(run[i], file, owned, raced, origin, edits)
      /\ file \in [Names -> Files] /\ origin \in [Names -> Files]
      /\ starts \in Nat /\ faults \in Nat /\ WordsSafe /\ FilesReturn /\ run \in [Runs -> RunTypes]
  BY InvFacts
<1>2. /\ run[i].pc = "reading" /\ f \notin run[i].read /\ (f = "CLAUDE" => "AGENTS" \in run[i].read)
      /\ ~Bad(f, file[f])
      /\ UNCHANGED <<file, starts, edits, faults, origin, owned, raced>>
  BY RefusedIs, Zenon DEF Read, Reads
<1> PICK e, plan, c : /\ e = file[f] /\ plan = PlanFor(i, f)
                      /\ c = IF f = "CLAUDE" THEN "writing" ELSE "reading"
  OBVIOUS
<1>3. e \in Files /\ ~Bad(f, e)
  BY <1>1, <1>2
<1>4. plan = IF Nothing(f, e, run[i].remove) THEN <<>>
             ELSE <<[name |-> f, text |-> Wanted(f, run[i].remove, e.text)]>>
  BY <1>3, PlanForIs, Zenon
<1> PICK s : s = [run[i] EXCEPT !.read = @ \cup {f}, !.plan = @ \o plan, !.pc = c]
  OBVIOUS
<1>5. /\ s.pc = c /\ s.read = run[i].read \cup {f} /\ s.plan = run[i].plan \o plan
      /\ s.remove = run[i].remove /\ s.alone = run[i].alone
  BY <1>1 DEF RunTypes
<1>6. owned[f] \subseteq Outside(e.text) \cup raced
  BY <1>1 DEF WordsSafe
<1>7. edits = 0 => /\ Back(origin[f], e.text)
                   /\ origin[f].kind = "absent" => e.kind = "absent" \/ HasBlock(e.text)
  BY <1>1 DEF FilesReturn
<1>8. origin[f].kind = "absent" => origin[f].text = <<>>
  BY <1>1, FileIs
<1>9. Run(s, file, owned, raced, origin, edits) /\ s.plan \in Plans
  BY <1>1, <1>2, <1>3, <1>4, <1>5, <1>6, <1>7, <1>8, RunReads, ZenonT(60)
<1>10. s \in RunTypes
  <2>1. s.plan \in Plans /\ run[i].plan \o plan = s.plan
    BY <1>5, <1>9
  <2>2. s = [run[i] EXCEPT !.read = @ \cup {f}, !.plan = s.plan, !.pc = c]
    BY <2>1, Zenon
  <2> QED BY <1>1, <2>1, <2>2 DEF RunTypes
<1>11. run' = [run EXCEPT ![i] = s]
  BY <1>1 DEF Read
<1> QED BY <1>1, <1>2, <1>9, <1>10, <1>11, OneRunChanges

\* What a write does, to the files and to each run.
LEMMA WriteParts ==
    ASSUME ContractInv, NEW i \in Runs, Write(i)
    PROVE  \E f \in Names, e \in Files :
              /\ file' = [file EXCEPT ![f] = e] /\ Sound(e.text)
              /\ run[i].read = Names /\ run'[i].plan # run[i].plan
              /\ Fits(f, e, owned, raced, origin, edits)
              /\ run' \in [Runs -> RunTypes]
              /\ \A j \in Runs : Run(run'[j], file', owned, raced, origin, edits)
<1>1. /\ run[i] \in RunTypes /\ Run(run[i], file, owned, raced, origin, edits)
      /\ file \in [Names -> Files] /\ run \in [Runs -> RunTypes] /\ edits \in Nat
      /\ \A j \in Runs : Run(run[j], file, owned, raced, origin, edits)
  BY InvFacts
<1> PICK r : r = run[i]
  OBVIOUS
<1>2. PICK p, e, s : /\ p = Head(r.plan) /\ e = Written(r.remove, p.text)
                     /\ s = [r EXCEPT !.plan = Tail(@)]
  OBVIOUS
<1>3. /\ r.pc = "writing" /\ r.plan # <<>>
      /\ file' = [file EXCEPT ![p.name] = e]
      /\ run' = [NotAlone(i) EXCEPT ![i].plan = Tail(@)]
  BY <1>2, Zenon DEF Write, Written
<1>4. WritesFirst(r, s, p, e)
  <2>1. /\ s.pc = r.pc /\ s.read = r.read /\ s.remove = r.remove
        /\ s.alone = r.alone /\ s.plan = Tail(r.plan)
    BY <1>1, <1>2 DEF RunTypes
  <2> QED BY <1>2, <1>3, <2>1, Zenon DEF WritesFirst
<1>5. /\ Run(s, Replaced(file, p.name, e), owned, raced, origin, edits)
      /\ p.name \in Names /\ e \in Files /\ s.plan \in Plans /\ s.plan # r.plan
      /\ Sound(e.text) /\ Fits(p.name, e, owned, raced, origin, edits)
  BY <1>1, <1>4, RunWrites
<1>6. \A j \in Runs : run'[j] = IF j = i THEN s ELSE [run[j] EXCEPT !.alone = FALSE]
  BY <1>2, <1>3 DEF NotAlone
<1>7. s \in RunTypes
  <2>1. s.plan \in Plans /\ s.plan = Tail(r.plan)
    BY <1>4, <1>5 DEF WritesFirst
  <2>2. Tail(r.plan) \in Plans
    BY <2>1, Zenon
  <2> QED BY <1>1, <1>2, <2>2 DEF RunTypes
<1>8. run' \in [Runs -> RunTypes]
  <2>1. run' = [j \in Runs |-> run'[j]]
    BY <1>3 DEF NotAlone
  <2>2. ASSUME NEW j \in Runs PROVE run'[j] \in RunTypes
    <3>1. [run[j] EXCEPT !.alone = FALSE] \in RunTypes
      BY <1>1, RunGoesOn
    <3> QED BY <1>6, <1>7, <3>1, Zenon
  <2> QED BY <2>1, <2>2
<1>9. ASSUME NEW j \in Runs PROVE Run(run'[j], file', owned, raced, origin, edits)
  <2>1. CASE j = i
    BY <1>3, <1>5, <1>6, <2>1, Zenon DEF Replaced
  <2>2. CASE j # i
    <3> PICK o, q : o = run[j] /\ q = [o EXCEPT !.alone = FALSE]
      OBVIOUS
    <3>1. o \in RunTypes /\ Run(o, file, owned, raced, origin, edits)
      BY <1>1
    <3>2. /\ q.pc = o.pc /\ q.read = o.read /\ q.plan = o.plan /\ q.remove = o.remove
          /\ q.alone = FALSE
      BY <3>1, RunGoesOn
    <3>3. Kept(o, owned, raced, owned, raced)
      BY DEF Kept
    <3>4. Run(q, file', owned, raced, origin, edits)
      BY <3>1, <3>2, <3>3, RunNotAlone
    <3> QED BY <1>6, <2>2, <3>4
  <2> QED BY <2>1, <2>2
<1>10. run'[i].plan # run[i].plan /\ run[i].read = Names
  <2>1. run'[i] = s
    BY <1>6
  <2>2. Ordered(run[i])
    BY <1>1 DEF Run
  <2> QED BY <1>3, <1>5, <2>1, <2>2 DEF Ordered
<1> QED BY <1>3, <1>5, <1>8, <1>9, <1>10

LEMMA WriteStep ==
    ASSUME ContractInv, NEW i \in Runs, Write(i)
    PROVE  ContractInv'
<1>1. PICK f \in Names, e \in Files :
              /\ file' = [file EXCEPT ![f] = e]
              /\ Fits(f, e, owned, raced, origin, edits)
              /\ run' \in [Runs -> RunTypes]
              /\ \A j \in Runs : Run(run'[j], file', owned, raced, origin, edits)
  BY WriteParts
<1>2. UNCHANGED <<starts, edits, faults, origin, owned, raced>>
  BY Zenon DEF Write
<1>3. /\ starts \in Nat /\ edits \in Nat /\ faults \in Nat
      /\ owned \in [Names -> SUBSET OwnerWords] /\ raced \in SUBSET OwnerWords
  BY InvFacts
<1>4. /\ starts' \in Nat /\ edits' \in Nat /\ faults' \in Nat /\ origin' = origin
      /\ owned' \in [Names -> SUBSET OwnerWords] /\ raced' \in SUBSET OwnerWords
      /\ raced \subseteq raced' /\ owned'[f] \subseteq Outside(e.text) \cup raced'
      /\ \A g \in Names : g # f => owned'[g] = owned[g]
  BY <1>1, <1>2, <1>3 DEF Fits
<1>5. edits' = 0 =>
         /\ edits = 0 /\ Back(origin[f], e.text)
         /\ origin[f].kind = "absent" => e.kind = "absent" \/ HasBlock(e.text)
  BY <1>1, <1>2 DEF Fits
<1>6. \A j \in Runs : Run(run'[j], file', owned', raced', origin, edits')
  BY <1>1, <1>2
<1> QED BY <1>1, <1>4, <1>5, <1>6, OneFileChanges

\* An edit of the owner: AddWord, BreakBlock and DeleteFile.
LEMMA EditStep ==
    ASSUME ContractInv, NEW f \in Names, NEW e \in Files, Edits(f, e),
           owned' \in [Names -> SUBSET OwnerWords], raced' \in SUBSET OwnerWords,
           raced \subseteq raced', owned'[f] \subseteq Outside(e.text) \cup raced',
           \A g \in Names : g # f => owned'[g] = owned[g],
           Held(f) => owned'[f] \subseteq owned[f] \cup raced'
    PROVE  ContractInv'
<1>1. /\ file \in [Names -> Files] /\ run \in [Runs -> RunTypes]
      /\ starts \in Nat /\ edits \in Nat /\ faults \in Nat
      /\ \A j \in Runs : Run(run[j], file, owned, raced, origin, edits)
  BY InvFacts
<1>2. /\ edits' = edits + 1 /\ file' = [file EXCEPT ![f] = e]
      /\ run' = [j \in Runs |-> [run[j] EXCEPT !.alone = FALSE]]
      /\ UNCHANGED <<starts, faults, origin>>
  BY Zenon DEF Edits
<1>3. edits' \in Nat /\ edits' # 0 /\ starts' \in Nat /\ faults' \in Nat /\ origin' = origin
  BY <1>1, <1>2
<1>4. run' \in [Runs -> RunTypes]
  BY <1>1, <1>2, RunGoesOn
<1>5. ASSUME NEW j \in Runs PROVE Run(run'[j], file', owned', raced', origin, edits')
  <2> PICK r, q : r = run[j] /\ q = [r EXCEPT !.alone = FALSE]
    OBVIOUS
  <2>1. r \in RunTypes /\ Run(r, file, owned, raced, origin, edits)
    BY <1>1
  <2>2. /\ q.pc = r.pc /\ q.read = r.read /\ q.plan = r.plan /\ q.remove = r.remove
        /\ q.alone = FALSE
    BY <2>1, RunGoesOn
  <2>3. ASSUME ~Stopped(r), NEW g \in r.read PROVE owned'[g] \subseteq owned[g] \cup raced'
    <3>1. g \in Names
      BY <2>1, RunIs
    <3>2. CASE g = f
      <4>1. Held(f)
        BY <2>3, <3>2 DEF Held, Ended, Stopped
      <4> QED BY <3>2, <4>1
    <3>3. CASE g # f
      BY <3>1, <3>3
    <3> QED BY <3>2, <3>3
  <2>4. edits' = 0 => edits = 0
    BY <1>3
  <2>5. Kept(r, owned, raced, owned', raced')
    BY <2>3 DEF Kept
  <2>6. Run(q, file', owned', raced', origin, edits')
    BY <2>1, <2>2, <2>4, <2>5, RunNotAlone
  <2>7. run'[j] = q
    BY <1>2
  <2> QED BY <2>6, <2>7
<1>6. edits' = 0 =>
         /\ edits = 0 /\ Back(origin[f], e.text)
         /\ origin[f].kind = "absent" => e.kind = "absent" \/ HasBlock(e.text)
  BY <1>3
<1> QED BY <1>2, <1>3, <1>4, <1>5, <1>6, OneFileChanges

\* A word is a token, and no marker.
LEMMA LineIs ==
    ASSUME NEW w \in OwnerWords
    PROVE  /\ <<w, "nl">> \in Texts /\ Plain(<<w, "nl">>) /\ w \in Words(<<w, "nl">>)
           /\ <<w>> \in Texts /\ Plain(<<w>>) /\ w \in Words(<<w>>)
<1>1. w \in Tokens /\ "nl" \in Tokens /\ w \notin Markers /\ "nl" \notin Markers
  BY ContractAssumption DEF Tokens, Markers
<1>2. <<w, "nl">> \in Texts /\ <<w>> \in Texts
  BY <1>1 DEF Texts
<1>3. /\ DOMAIN <<w, "nl">> = {1, 2} /\ <<w, "nl">>[1] = w /\ <<w, "nl">>[2] = "nl"
      /\ DOMAIN <<w>> = {1} /\ <<w>>[1] = w
  OBVIOUS
<1>4. Plain(<<w, "nl">>) /\ Plain(<<w>>)
  BY <1>1, <1>3 DEF Plain
<1>5. w \in Words(<<w, "nl">>) /\ w \in Words(<<w>>)
  BY <1>3 DEF Words
<1> QED BY <1>2, <1>4, <1>5

LEMMA AddedLine ==
    ASSUME NEW t \in Texts, NEW w \in OwnerWords, NEW u \in {<<w, "nl">> \o t, Append(t, w)}
    PROVE  u \in Texts /\ Outside(t) \cup {w} \subseteq Outside(u)
<1>1. CASE u = <<w, "nl">> \o t
  <2> PICK l : l = <<w, "nl">>
    OBVIOUS
  <2>1. l \in Texts /\ Plain(l) /\ w \in Words(l)
    BY LineIs, Zenon
  <2>2. Parts(u, l, t, <<>>)
    <3>1. l \o t \in Texts
      BY <2>1, CatAt
    <3>2. (l \o t) \o <<>> = l \o t
      BY <3>1, CatEmpty
    <3> QED BY <1>1, <3>2, Zenon DEF Parts
  <2>3. u \in Texts /\ Outside(t) \cup Words(l) \cup Words(<<>>) \subseteq Outside(u)
    BY <2>1, <2>2, Empty, AroundIsOutside
  <2> QED BY <2>1, <2>3
<1>2. CASE u = Append(t, w)
  <2> PICK l : l = <<w>>
    OBVIOUS
  <2>1. l \in Texts /\ Plain(l) /\ w \in Words(l)
    BY LineIs, Zenon
  <2>2. Parts(u, <<>>, t, l)
    <3>1. w \in Tokens
      BY DEF Tokens
    <3>2. Append(t, w) = t \o l
      BY <3>1, AppendIsConcat DEF Texts
    <3>3. <<>> \o t = t
      BY CatEmpty
    <3> QED BY <1>2, <3>2, <3>3, Zenon DEF Parts
  <2>3. u \in Texts /\ Outside(t) \cup Words(<<>>) \cup Words(l) \subseteq Outside(u)
    BY <2>1, <2>2, Empty, AroundIsOutside
  <2> QED BY <2>1, <2>3
<1> QED BY <1>1, <1>2

LEMMA AddWordStep ==
    ASSUME ContractInv, NEW f \in Names, NEW w \in OwnerWords, AddWord(f, w)
    PROVE  ContractInv'
<1>1. /\ file \in [Names -> Files] /\ owned \in [Names -> SUBSET OwnerWords]
      /\ raced \in SUBSET OwnerWords /\ WordsSafe
  BY InvFacts
<1>2. PICK text \in {<<w, "nl">> \o file[f].text, Append(file[f].text, w)} :
         Edits(f, [kind |-> "regular", text |-> text])
  BY Zenon DEF AddWord
<1>3. /\ owned' = [owned EXCEPT ![f] = @ \cup {w}]
      /\ raced' = IF Held(f) THEN raced \cup {w} ELSE raced
  BY Zenon DEF AddWord
<1>4. file[f].text \in Texts
  BY <1>1, FileIs
<1>5. text \in Texts /\ Outside(file[f].text) \cup {w} \subseteq Outside(text)
  BY <1>2, <1>4, AddedLine
<1> PICK e : e = [kind |-> "regular", text |-> text]
  OBVIOUS
<1>6. e \in Files /\ e.text = text /\ Edits(f, e)
  BY <1>2, <1>5, FileMake
<1>7. /\ owned' \in [Names -> SUBSET OwnerWords] /\ raced' \in SUBSET OwnerWords
      /\ raced \subseteq raced' /\ owned'[f] = owned[f] \cup {w}
      /\ \A g \in Names : g # f => owned'[g] = owned[g]
      /\ Held(f) => w \in raced'
  BY <1>1, <1>3
<1>8. owned[f] \subseteq Outside(file[f].text) \cup raced
  BY <1>1 DEF WordsSafe
<1>9. owned'[f] \subseteq Outside(e.text) \cup raced'
  BY <1>5, <1>6, <1>7, <1>8
<1>10. Held(f) => owned'[f] \subseteq owned[f] \cup raced'
  BY <1>7
<1> QED BY <1>6, <1>7, <1>9, <1>10, EditStep

LEMMA RemovedIs ==
    ASSUME NEW t \in Texts, NEW k \in DOMAIN t
    PROVE  RemoveAt(t, k) \in Texts
<1>1. Len(t) \in Nat /\ k \in 1..Len(t)
  BY LenZero
<1>2. SubSeq(t, 1, k - 1) \in Texts
  <2>1. 1 \in 1..Len(t) + 1 /\ k - 1 \in 0..Len(t) /\ 1 <= (k - 1) + 1
    BY <1>1
  <2> QED BY <2>1, PartAt
<1>3. SubSeq(t, k + 1, Len(t)) \in Texts
  <2>1. k + 1 \in 1..Len(t) + 1 /\ Len(t) \in 0..Len(t) /\ k + 1 <= Len(t) + 1
    BY <1>1
  <2> QED BY <2>1, PartAt
<1>4. RemoveAt(t, k) = SubSeq(t, 1, k - 1) \o SubSeq(t, k + 1, Len(t))
  BY Zenon DEF RemoveAt
<1> QED BY <1>2, <1>3, <1>4, CatAt

LEMMA BreakBlockStep ==
    ASSUME ContractInv, NEW f \in Names, BreakBlock(f)
    PROVE  ContractInv'
<1>1. /\ file \in [Names -> Files] /\ owned \in [Names -> SUBSET OwnerWords]
      /\ raced \in SUBSET OwnerWords /\ WordsSafe
  BY InvFacts
<1>2. PICK k \in DOMAIN file[f].text :
         /\ Edits(f, [file[f] EXCEPT !.text = RemoveAt(file[f].text, k)])
         /\ owned' = [owned EXCEPT ![f] = @ \cap Outside(RemoveAt(file[f].text, k))]
  BY Zenon DEF BreakBlock
<1>3. raced' = raced
  BY Zenon DEF BreakBlock
<1> PICK new : new = RemoveAt(file[f].text, k)
  OBVIOUS
<1>4. file[f] \in Files /\ file[f].text \in Texts /\ file[f].text # <<>>
  BY <1>1, <1>2, FileIs, Empty
<1>5. new \in Texts
  BY <1>4, RemovedIs
<1> PICK e : e = [file[f] EXCEPT !.text = new]
  OBVIOUS
<1>6. e \in Files /\ e.text = new
  <2>1. file[f] \in [kind : {"regular"}, text : Seq(Tokens)]
    BY <1>4 DEF Files
  <2>2. e \in [kind : {"regular"}, text : Seq(Tokens)] /\ e.text = new
    BY <1>5, <2>1 DEF Texts
  <2> QED BY <2>2 DEF Files
<1>7. Edits(f, e) /\ owned' = [owned EXCEPT ![f] = @ \cap Outside(new)]
  BY <1>2, Zenon
<1>8. /\ owned' \in [Names -> SUBSET OwnerWords] /\ owned'[f] = owned[f] \cap Outside(new)
      /\ \A g \in Names : g # f => owned'[g] = owned[g]
  BY <1>1, <1>7
<1>9. owned'[f] \subseteq Outside(e.text) \cup raced' /\ owned'[f] \subseteq owned[f] \cup raced'
  BY <1>6, <1>8
<1> QED BY <1>1, <1>3, <1>6, <1>7, <1>8, <1>9, EditStep

LEMMA DeleteFileStep ==
    ASSUME ContractInv, NEW f \in Names, DeleteFile(f)
    PROVE  ContractInv'
<1>1. /\ owned \in [Names -> SUBSET OwnerWords] /\ raced \in SUBSET OwnerWords
  BY InvFacts
<1> PICK e : e = [kind |-> "absent", text |-> <<>>]
  OBVIOUS
<1>2. /\ Edits(f, e) /\ owned' = [owned EXCEPT ![f] = {}] /\ raced' = raced
  BY Zenon DEF DeleteFile
<1>3. e \in Files
  BY Empty, FileMake
<1>4. /\ owned' \in [Names -> SUBSET OwnerWords] /\ owned'[f] = {}
      /\ \A g \in Names : g # f => owned'[g] = owned[g]
  BY <1>1, <1>2
<1> QED BY <1>1, <1>2, <1>3, <1>4, EditStep

LEMMA InitInv == Init => ContractInv
<1> SUFFICES ASSUME Init PROVE ContractInv
  OBVIOUS
<1>1. /\ file \in [Names -> Files] /\ run = [i \in Runs |-> NotRunning]
      /\ starts = 0 /\ edits = 0 /\ faults = 0 /\ origin = file
      /\ owned = [f \in Names |-> Outside(file[f].text)] /\ raced = {}
  BY ContractAssumption, Zenon DEF Init
<1>2. NotRunning \in RunTypes
  BY PlanEmpty DEF NotRunning, RunTypes
<1>3. TypeOK
  BY <1>1, <1>2, OutsideTyped DEF TypeOK
<1>4. WordsSafe
  BY <1>1 DEF WordsSafe
<1>5. FilesReturn
  BY <1>1 DEF FilesReturn, Back
<1>6. ASSUME NEW i \in Runs PROVE Run(run[i], file, owned, raced, origin, edits)
  <2>1. run[i] = NotRunning
    BY <1>1
  <2> QED BY <2>1, RunIdle
<1>7. RunsOrdered /\ RunsKeep /\ RunsSettled /\ RunsReturn
  BY <1>6, RunsIs
<1> QED BY <1>3, <1>4, <1>5, <1>7 DEF ContractInv

LEMMA NextInv == ContractInv /\ [Next]_vars => ContractInv'
<1> SUFFICES ASSUME ContractInv, [Next]_vars PROVE ContractInv'
  OBVIOUS
<1>0. starts \in Nat /\ faults \in Nat
  BY InvFacts
<1>1. ASSUME NEW i \in Runs, NEW remove \in BOOLEAN, Start(i, remove) PROVE ContractInv'
  BY <1>1, StartStep
<1>2. ASSUME NEW i \in Runs, NEW f \in Names, Refuse(i, f) PROVE ContractInv'
  <2>1. /\ run' = [run EXCEPT ![i].pc = "refused"]
        /\ UNCHANGED <<file, starts, edits, faults, origin, owned, raced>>
    BY <1>2, Zenon DEF Refuse
  <2> QED BY <1>0, <2>1, StopStep
<1>3. ASSUME NEW i \in Runs, NEW f \in Names, Read(i, f) PROVE ContractInv'
  BY <1>3, ReadStep
<1>4. ASSUME NEW i \in Runs, Write(i) PROVE ContractInv'
  BY <1>4, WriteStep
<1>5. ASSUME NEW i \in Runs, NothingToUnlink(i) PROVE ContractInv'
  <2>1. /\ run' = [run EXCEPT ![i].pc = "failed"]
        /\ UNCHANGED <<file, starts, edits, faults, origin, owned, raced>>
    BY <1>5, Zenon DEF NothingToUnlink
  <2> QED BY <1>0, <2>1, StopStep
<1>6. ASSUME NEW i \in Runs, Finish(i) PROVE ContractInv'
  <2>1. /\ run[i].pc = "writing" /\ run[i].plan = <<>> /\ run' = [run EXCEPT ![i].pc = "done"]
        /\ UNCHANGED <<file, starts, edits, faults, origin, owned, raced>>
    BY <1>6, Zenon DEF Finish
  <2> QED BY <1>0, <2>1, StopStep
<1>7. ASSUME NEW i \in Runs, Fault(i) PROVE ContractInv'
  <2> PICK c : c = IF run[i].pc = "reading" THEN "refused" ELSE "failed"
    OBVIOUS
  <2>1. /\ run \in [Runs -> RunTypes] /\ run' = [run EXCEPT ![i].pc = IF @ = "reading" THEN "refused" ELSE "failed"]
        /\ faults' = faults + 1 /\ UNCHANGED <<file, starts, edits, origin, owned, raced>>
    BY <1>7, InvFacts, Zenon DEF Fault
  <2>2. run' = [run EXCEPT ![i].pc = c]
    BY <2>1 DEF RunTypes
  <2>3. c \in {"refused", "failed"} /\ starts' \in Nat /\ faults' \in Nat
    BY <1>0, <2>1
  <2> QED BY <2>1, <2>2, <2>3, StopStep
<1>8. ASSUME NEW f \in Names, NEW w \in OwnerWords, AddWord(f, w) PROVE ContractInv'
  BY <1>8, AddWordStep
<1>9. ASSUME NEW f \in Names, BreakBlock(f) PROVE ContractInv'
  BY <1>9, BreakBlockStep
<1>10. ASSUME NEW f \in Names, DeleteFile(f) PROVE ContractInv'
  BY <1>10, DeleteFileStep
<1>11. CASE UNCHANGED vars
  BY <1>11 DEF vars, ContractInv, TypeOK, RunsOrdered, WordsSafe, RunsKeep, RunsSettled,
        FilesReturn, RunsReturn
<1> QED BY <1>1, <1>2, <1>3, <1>4, <1>5, <1>6, <1>7, <1>8, <1>9, <1>10, <1>11 DEF Next

-----------------------------------------------------------------------------
(* The theorems. *)

\* What a step without an edit does to a file is a write of a run that has
\* judged both files, and leaves its markers sound.
LEMMA OnlyWritesWrite ==
    ASSUME ContractInv, Next, edits' = edits, NEW f \in Names, file'[f] # file[f]
    PROVE  /\ Sound(file'[f].text)
           /\ \E i \in Runs : run[i].read = Names /\ run'[i].plan # run[i].plan
<1>1. edits \in Nat /\ file \in [Names -> Files]
  BY InvFacts
<1>2. ASSUME NEW i \in Runs, Write(i)
      PROVE  /\ Sound(file'[f].text)
             /\ run[i].read = Names /\ run'[i].plan # run[i].plan
  <2>1. PICK g \in Names, e \in Files :
              /\ file' = [file EXCEPT ![g] = e] /\ Sound(e.text)
              /\ run[i].read = Names /\ run'[i].plan # run[i].plan
    BY <1>2, WriteParts
  <2>2. g = f /\ file'[f] = e
    BY <1>1, <2>1
  <2> QED BY <2>1, <2>2
<1>3. ASSUME NEW g, NEW e PROVE ~Edits(g, e)
  BY <1>1 DEF Edits
<1>4. ASSUME NEW g \in Names, NEW w \in OwnerWords PROVE ~AddWord(g, w)
  BY <1>3, Zenon DEF AddWord
<1>5. ASSUME NEW g \in Names PROVE ~BreakBlock(g) /\ ~DeleteFile(g)
  BY <1>3, Zenon DEF BreakBlock, DeleteFile
<1>6. ASSUME NEW i \in Runs, NEW remove \in BOOLEAN PROVE ~Start(i, remove)
  BY Zenon DEF Start
<1>7. ASSUME NEW i \in Runs, NEW g \in Names PROVE ~Refuse(i, g) /\ ~Read(i, g)
  BY Zenon DEF Refuse, Read
<1>8. ASSUME NEW i \in Runs PROVE ~NothingToUnlink(i) /\ ~Finish(i) /\ ~Fault(i)
  BY Zenon DEF NothingToUnlink, Finish, Fault
<1>9. \E i \in Runs : Write(i)
  BY <1>4, <1>5, <1>6, <1>7, <1>8, Zenon DEF Next
<1> QED BY <1>2, <1>9

LEMMA OutsideIsWords ==
    ASSUME NEW t \in Texts
    PROVE  Outside(t) \subseteq Words(t)
<1>1. CASE HasBlock(t) /\ Sound(t)
  <2>1. PICK m : BlockForm(t, m)
    BY <1>1, SoundForm
  <2>2. PICK a, c : a = Before(t) /\ c = After(t)
    OBVIOUS
  <2>3. a \in Texts /\ c \in Texts /\ m \in Texts /\ Parts(t, a, m, c)
    BY <2>1, <2>2, Zenon DEF BlockForm
  <2>4. a \o m \in Texts
    BY <2>3, CatAt
  <2>5. Words(t) = Words(a \o m) \cup Words(c)
    BY <2>3, <2>4, CatWords, Zenon DEF Parts
  <2>6. Words(a \o m) = Words(a) \cup Words(m)
    BY <2>3, CatWords
  <2>7. Outside(t) = Words(a) \cup Words(c)
    BY <1>1, <2>2, Zenon DEF Outside
  <2> QED BY <2>5, <2>6, <2>7
<1>2. CASE ~(HasBlock(t) /\ Sound(t))
  BY <1>2, Zenon DEF Outside
<1> QED BY <1>1, <1>2

\* A run that is done, and was alone, has left nothing to do.
LEMMA DoneIsSettled ==
    ASSUME ContractInv, NEW i \in Runs, run[i].pc = "done", run[i].alone, NEW f \in Names
    PROVE  /\ file[f] \in Files /\ run[i].remove \in BOOLEAN
           /\ ~Bad(f, file[f]) /\ Nothing(f, file[f], run[i].remove)
           /\ Sound(file[f].text)
<1>1. /\ file[f] \in Files /\ run[i] \in RunTypes
      /\ Run(run[i], file, owned, raced, origin, edits)
  BY InvFacts
<1>2. run[i].read = Names /\ run[i].plan = <<>>
  BY <1>1 DEF Run, Ordered
<1>3. SettledFile(run[i], f, file[f])
  BY <1>1, <1>2 DEF Run, Settled
<1>4. ~Bad(f, file[f]) /\ Nothing(f, file[f], run[i].remove)
  BY <1>2, <1>3, PlanEmpty DEF SettledFile
<1> QED BY <1>1, <1>4, NotBad, RunIs

LEMMA InvConverges ==
    ASSUME ContractInv, NEW i \in Runs, run[i].pc = "done", run[i].alone
    PROVE  /\ \A f \in Names : PlanFor(i, f) = <<>>
           /\ ~run[i].remove => Installed
<1>1. ASSUME NEW f \in Names PROVE PlanFor(i, f) = <<>>
  BY DoneIsSettled, PlanForIs
<1>2. ASSUME ~run[i].remove PROVE Installed
  <2>1. ASSUME NEW f \in Names, file[f].kind # "link"
        PROVE  IF f = "AGENTS" THEN Contains(file[f].text, "contract") ELSE Imports(file[f].text)
    <3>1. /\ Sound(file[f].text) /\ Nothing(f, file[f], run[i].remove) /\ file[f].text \in Texts
          /\ run[i].remove \in BOOLEAN
      BY DoneIsSettled, FileIs
    <3>2. Wanted(f, run[i].remove, file[f].text) = file[f].text
      BY <1>2, <2>1, <3>1, Zenon DEF Nothing
    <3> QED BY <1>2, <3>1, <3>2, WantedKeeps
  <2>2. "AGENTS" \in Names /\ "CLAUDE" \in Names /\ "AGENTS" # "CLAUDE"
    BY DEF Names
  <2>3. file["AGENTS"].kind # "link"
    BY <2>2, DoneIsSettled DEF Bad
  <2>4. Contains(file["AGENTS"].text, "contract")
    BY <2>1, <2>2, <2>3
  <2>5. file["CLAUDE"].kind = "link" \/ Imports(file["CLAUDE"].text)
    BY <2>1, <2>2
  <2> QED BY <2>4, <2>5, Zenon DEF Installed
<1> QED BY <1>1, <1>2

LEMMA InvReverses ==
    ASSUME ContractInv, NEW i \in Runs, run[i].pc = "done", run[i].alone, run[i].remove,
           edits = 0, NEW f \in Names
    PROVE  /\ StripRight(file[f].text) = StripRight(Usun(origin[f].text))
           /\ origin[f].kind = "absent" => file[f].kind = "absent"
<1> PICK e : e = file[f]
  OBVIOUS
<1>1. /\ e \in Files /\ e.text \in Texts /\ (e.kind # "regular" => e.text = <<>>)
      /\ Nothing(f, e, run[i].remove) /\ Sound(e.text)
  BY DoneIsSettled, FileIs
<1>2. Usun(e.text) = e.text
  <2>1. CASE e.kind = "regular"
    <3>1. Wanted(f, run[i].remove, e.text) = e.text
      BY <1>1, <2>1, Zenon DEF Nothing
    <3> QED BY <3>1, Zenon DEF Wanted
  <2>2. CASE e.kind # "regular"
    BY <1>1, <2>2, EmptyIs
  <2> QED BY <2>1, <2>2
<1>3. ~HasBlock(e.text)
  BY <1>1, <1>2, UsunKeeps
<1>4. /\ Back(origin[f], e.text)
      /\ origin[f].kind = "absent" => e.kind = "absent" \/ HasBlock(e.text)
  BY InvFacts DEF FilesReturn
<1>5. StripRight(e.text) = StripRight(Usun(origin[f].text))
  BY <1>2, <1>4, Zenon DEF Back
<1> QED BY <1>3, <1>4, <1>5

\* Every variable keeps its type; the texts of regular files are sequences of
\* tokens, and what is not a regular file has none.
THEOREM ContractTyped == Spec => []TypeOK
<1>1. ContractInv => TypeOK
  BY DEF ContractInv
<1> QED BY <1>1, InitInv, NextInv, PTL DEF Spec

\* The inductive invariant: what the runs hold is sound, keeps the owner's
\* words, can be taken back, and settles the files that a run alone has read.
THEOREM ContractInvariant == Spec => []ContractInv
BY InitInv, NextInv, PTL DEF Spec

\* No word of the owner outside the block is lost to any number of runs, whole,
\* killed or side by side, except one written between a run's read of the file
\* and its write (zastosuj, usun and the two phases of main).
THEOREM OwnerIsKept == Spec => []OwnerKept
<1>1. ASSUME ContractInv PROVE OwnerKept
  <2>1. ASSUME NEW f \in Names PROVE owned[f] \subseteq Words(file[f].text) \cup raced
    <3>1. file[f].text \in Texts /\ owned[f] \subseteq Outside(file[f].text) \cup raced
      BY <1>1, InvFacts, FileIs DEF WordsSafe
    <3> QED BY <3>1, OutsideIsWords
  <2> QED BY <2>1 DEF OwnerKept
<1> QED BY <1>1, InitInv, NextInv, PTL DEF Spec

\* Every write is that of a run that judged both files before its first one, and
\* the markers it leaves are none or one pair in order, whatever the file has
\* become since it was read (phase 1 of main, _sprawdz_markery).
THEOREM WritesSound == Spec => WritesAreSound
<1>1. ASSUME ContractInv, [Next]_vars
      PROVE  [\A f \in Names : file'[f] # file[f] /\ edits' = edits =>
                /\ Sound(file'[f].text)
                /\ \E i \in Runs : run[i].read = Names /\ run'[i].plan # run[i].plan]_vars
  BY <1>1, OnlyWritesWrite, Zenon
<1> QED BY <1>1, InitInv, NextInv, PTL DEF Spec, WritesAreSound

\* A run that ends well, and was alone, has nothing left to do to either file,
\* whatever earlier runs left half done; after an installation both harnesses
\* read the contract (main).
THEOREM RunsConverge == Spec => []Converges
<1>1. ContractInv => Converges
  BY InvConverges, Zenon DEF Converges
<1> QED BY <1>1, InitInv, NextInv, PTL DEF Spec

\* Without edits a whole --remove gives back the files as they were found,
\* without a block, up to newlines at their ends, and a file that the installer
\* made is gone again, however many runs came before (usun, kasujemy).
THEOREM RemovalReverses == Spec => []Reversible
<1>1. ContractInv => Reversible
  BY InvReverses, Zenon DEF Reversible
<1> QED BY <1>1, InitInv, NextInv, PTL DEF Spec
=============================================================================
