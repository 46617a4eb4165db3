---------------------------- MODULE SequenceFacts ---------------------------
(***************************************************************************)
(* Facts about finite sequences that the proofs about queues and lines     *)
(* share.  A queue is looked at through two predicates: what is in it, and *)
(* that it is there only once.                                             *)
(***************************************************************************)
EXTENDS Naturals, Sequences, FiniteSets, SequencesExt, SequenceTheorems,
        WellFoundedInduction, FiniteSetTheorems, TLAPS

In(q, x)   == \E i \in DOMAIN q : q[i] = x
Once(q, x) == \A i, j \in DOMAIN q : q[i] = x /\ q[j] = x => i = j

\* A nonempty set of naturals has a least element.
LEMMA LeastNatural ==
  ASSUME NEW S \in SUBSET Nat, S # {}
  PROVE  \E x \in S : \A y \in S : x <= y
  <1>1. PICK x \in S : \A y \in S : ~(<<y, x>> \in OpToRel(<, Nat))
    BY NatLessThanWellFounded, WFMin
  <1>2. \A y \in S : ~(y < x)
    BY <1>1 DEF OpToRel
  <1> QED  BY <1>2

\* An element is appended (push_back).
LEMMA AppendIn ==
  ASSUME NEW S, NEW s \in Seq(S), NEW e \in S, NEW x
  PROVE  /\ Append(s, e) \in Seq(S)
         /\ In(Append(s, e), x) <=> (In(s, x) \/ x = e)
         /\ Once(s, x) /\ (x = e => ~In(s, x)) => Once(Append(s, e), x)
  BY DEF In, Once

\* Two sequences are joined.
LEMMA ConcatIn ==
  ASSUME NEW S, NEW s \in Seq(S), NEW r \in Seq(S), NEW x
  PROVE  /\ s \o r \in Seq(S)
         /\ In(s \o r, x) <=> (In(s, x) \/ In(r, x))
         /\ Once(s, x) /\ Once(r, x) /\ ~(In(s, x) /\ In(r, x)) => Once(s \o r, x)
  <1> DEFINE q == s \o r
  <1>1. /\ q \in Seq(S) /\ DOMAIN q = 1 .. (Len(s) + Len(r))
        /\ DOMAIN s = 1 .. Len(s) /\ DOMAIN r = 1 .. Len(r)
        /\ Len(s) \in Nat /\ Len(r) \in Nat
    OBVIOUS
  <1>2. \A i \in DOMAIN q : q[i] = IF i <= Len(s) THEN s[i] ELSE r[i - Len(s)]
    BY <1>1, ConcatProperties
  <1>3. \A i \in DOMAIN s : q[i] = s[i] /\ i \in DOMAIN q
    BY <1>1, <1>2
  <1>4. \A i \in DOMAIN r : q[Len(s) + i] = r[i] /\ Len(s) + i \in DOMAIN q
    BY <1>1, <1>2
  <1>5. \A i \in DOMAIN q : i \in DOMAIN s \/ i - Len(s) \in DOMAIN r
    BY <1>1
  <1> HIDE DEF q
  <1>6. In(q, x) <=> (In(s, x) \/ In(r, x))
    BY <1>1, <1>2, <1>3, <1>4, <1>5 DEF In
  <1>7. Once(s, x) /\ Once(r, x) /\ ~(In(s, x) /\ In(r, x)) => Once(q, x)
    BY <1>1, <1>2, <1>5 DEF In, Once
  <1> QED  BY <1>1, <1>6, <1>7 DEF q

\* An element is put in front (push_front).
LEMMA ConsIn ==
  ASSUME NEW S, NEW s \in Seq(S), NEW e \in S, NEW x
  PROVE  /\ <<e>> \o s \in Seq(S)
         /\ In(<<e>> \o s, x) <=> (In(s, x) \/ x = e)
         /\ Once(s, x) /\ (x = e => ~In(s, x)) => Once(<<e>> \o s, x)
  <1>1. <<e>> \in Seq(S) /\ (In(<<e>>, x) <=> x = e) /\ Once(<<e>>, x)
    BY DEF In, Once
  <1> QED  BY <1>1, ConcatIn

\* The first element is taken (front, pop_front).
LEMMA TailIn ==
  ASSUME NEW S, NEW s \in Seq(S), s # <<>>, NEW x
  PROVE  /\ Head(s) \in S /\ Tail(s) \in Seq(S)
         /\ In(s, x) <=> (x = Head(s) \/ In(Tail(s), x))
         /\ Once(s, x) => Once(Tail(s), x) /\ (x = Head(s) => ~In(Tail(s), x))
  <1>1. /\ Head(s) \in S /\ Tail(s) \in Seq(S)
        /\ Len(s) \in Nat \ {0} /\ DOMAIN s = 1 .. Len(s)
        /\ DOMAIN Tail(s) = 1 .. (Len(s) - 1) /\ Head(s) = s[1]
        /\ \A i \in DOMAIN Tail(s) : Tail(s)[i] = s[i + 1]
    BY HeadTailProperties
  <1>2. \A i \in DOMAIN s : i = 1 \/ (i - 1 \in DOMAIN Tail(s) /\ Tail(s)[i - 1] = s[i])
    BY <1>1
  <1>3. \A i \in DOMAIN Tail(s) : i + 1 \in DOMAIN s /\ i + 1 # 1
    BY <1>1
  <1>4. In(s, x) <=> (x = Head(s) \/ In(Tail(s), x))
    BY <1>1, <1>2, <1>3 DEF In
  <1>5. Once(s, x) => Once(Tail(s), x) /\ (x = Head(s) => ~In(Tail(s), x))
    BY <1>1, <1>3 DEF In, Once
  <1> QED  BY <1>1, <1>4, <1>5

\* The element at one place is erased.
LEMMA RemoveAtIn ==
  ASSUME NEW S, NEW s \in Seq(S), NEW k \in DOMAIN s, NEW x
  PROVE  /\ RemoveAt(s, k) \in Seq(S)
         /\ x # s[k] => (In(RemoveAt(s, k), x) <=> In(s, x))
         /\ Once(s, x) => Once(RemoveAt(s, k), x)
         /\ Once(s, x) /\ x = s[k] => ~In(RemoveAt(s, k), x)
  <1> DEFINE a == SubSeq(s, 1, k - 1)
             b == SubSeq(s, k + 1, Len(s))
  <1>0. Len(s) \in Nat /\ DOMAIN s = 1 .. Len(s) /\ k \in 1 .. Len(s)
        /\ \A i \in DOMAIN s : s[i] \in S
    OBVIOUS
  <1>1. /\ a \in Seq(S) /\ DOMAIN a = 1 .. (k - 1) /\ \A i \in DOMAIN a : a[i] = s[i]
    <2>1. a \in Seq(S) /\ Len(a) = k - 1 /\ \A i \in 1 .. (k - 1) : a[i] = s[i]
      BY <1>0, SubSeqProperties
    <2> QED  BY <2>1
  <1>2. /\ b \in Seq(S) /\ DOMAIN b = 1 .. (Len(s) - k) /\ \A i \in DOMAIN b : b[i] = s[k + i]
    <2>1. /\ b \in Seq(S) /\ Len(b) = Len(s) - k
          /\ \A i \in 1 .. (Len(s) - k) : b[i] = s[k + i]
      BY <1>0, SubSeqProperties
    <2> QED  BY <2>1
  <1>3. RemoveAt(s, k) = a \o b  BY DEF RemoveAt
  <1> HIDE DEF a, b
  <1>4. \A i \in DOMAIN a : i \in DOMAIN s /\ i < k
    BY <1>0, <1>1
  <1>5. \A i \in DOMAIN b : k + i \in DOMAIN s /\ k + i > k
    BY <1>0, <1>2
  <1>6. \A i \in DOMAIN s : i = k \/ i \in DOMAIN a \/ (i - k \in DOMAIN b /\ b[i - k] = s[i])
    BY <1>0, <1>1, <1>2
  <1>7. x # s[k] => (In(s, x) <=> (In(a, x) \/ In(b, x)))
    BY <1>1, <1>2, <1>4, <1>5, <1>6 DEF In
  <1>8. Once(s, x) => Once(a, x) /\ Once(b, x) /\ ~(In(a, x) /\ In(b, x))
    <2> SUFFICES ASSUME Once(s, x)
                 PROVE  Once(a, x) /\ Once(b, x) /\ ~(In(a, x) /\ In(b, x))
      OBVIOUS
    <2>1. Once(a, x)  BY <1>1, <1>4 DEF Once
    <2>2. Once(b, x)  BY <1>0, <1>2, <1>5 DEF Once
    <2>3. ~(In(a, x) /\ In(b, x))
      BY <1>0, <1>1, <1>2, <1>4, <1>5 DEF In, Once
    <2> QED  BY <2>1, <2>2, <2>3
  <1>9. Once(s, x) /\ x = s[k] => ~In(a, x) /\ ~In(b, x)
    BY <1>0, <1>1, <1>2, <1>4, <1>5 DEF In, Once
  <1> QED  BY <1>1, <1>2, <1>3, <1>7, <1>8, <1>9, ConcatIn

\* Erasing the first occurrence is erasing at one place, or nothing.
LEMMA RemoveFirstPlace ==
  ASSUME NEW S, NEW s \in Seq(S), NEW e
  PROVE  \/ ~In(s, e) /\ RemoveFirst(s, e) = s
         \/ \E k \in DOMAIN s : s[k] = e /\ RemoveFirst(s, e) = RemoveAt(s, k)
  <1> DEFINE I == {i \in 1 .. Len(s) : s[i] = e}
             k == CHOOSE i \in I : \A j \in I : i <= j
  <1>0. Len(s) \in Nat /\ DOMAIN s = 1 .. Len(s)  OBVIOUS
  <1>1. CASE I = {}
    <2>1. ~In(s, e)  BY <1>0, <1>1 DEF In
    <2>2. RemoveFirst(s, e) = s  BY <1>1 DEF RemoveFirst
    <2> QED  BY <2>1, <2>2
  <1>2. CASE I # {}
    <2>1. k \in I
      <3>1. I \in SUBSET Nat  BY <1>0
      <3>2. \E i \in I : \A j \in I : i <= j  BY <3>1, <1>2, LeastNatural
      <3> QED  BY <3>2
    <2>2. SelectInSeq(s, LAMBDA v : v = e) = k
      BY <1>2 DEF SelectInSeq, Min
    <2>3. RemoveFirst(s, e) = RemoveAt(s, k)
      BY <1>2, <2>2 DEF RemoveFirst
    <2>4. k \in DOMAIN s /\ s[k] = e  BY <1>0, <2>1
    <2> HIDE DEF k, I
    <2> QED  BY <2>3, <2>4
  <1> QED  BY <1>1, <1>2

\* The first occurrence of an element is erased.
LEMMA RemoveFirstIn ==
  ASSUME NEW S, NEW s \in Seq(S), NEW e, NEW x
  PROVE  /\ RemoveFirst(s, e) \in Seq(S)
         /\ x # e => (In(RemoveFirst(s, e), x) <=> In(s, x))
         /\ Once(s, x) => Once(RemoveFirst(s, e), x)
         /\ Once(s, x) /\ x = e => ~In(RemoveFirst(s, e), x)
  BY RemoveFirstPlace, RemoveAtIn

\* Nothing is in an empty sequence.
LEMMA EmptyIn == \A x : ~In(<<>>, x) /\ Once(<<>>, x)
  BY DEF In, Once

\* A set of one element at most has cardinality 0 or 1.
LEMMA SmallSet ==
  ASSUME NEW S, \A x, y \in S : x = y
  PROVE  Cardinality(S) = IF S = {} THEN 0 ELSE 1
  <1>1. CASE S = {}  BY <1>1, FS_EmptySet
  <1>2. CASE S # {}
    <2> PICK x \in S : TRUE  BY <1>2
    <2>1. S = {x}  OBVIOUS
    <2> QED  BY <1>2, <2>1, FS_Singleton
  <1> QED  BY <1>1, <1>2
=============================================================================
