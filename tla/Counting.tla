------------------------------ MODULE Counting ------------------------------
(***************************************************************************)
(* How many elements of a queue are of some kind, and what sending,        *)
(* receiving and losing one does to that number: the lemmas that proofs    *)
(* about lines and handshakes under way need.                              *)
(***************************************************************************)
EXTENDS Integers, Sequences, FiniteSets, SequencesExt, SequenceTheorems, FiniteSetTheorems, TLAPS

Places(s, K) == {i \in DOMAIN s : s[i] \in K}
CountIn(s, K) == Cardinality(Places(s, K))
OneIf(b) == IF b THEN 1 ELSE 0

LEMMA CountType == ASSUME NEW T, NEW s \in Seq(T), NEW K
                   PROVE  IsFiniteSet(Places(s, K)) /\ CountIn(s, K) \in Nat
<1>1. IsFiniteSet(1 .. Len(s))
  BY FS_Interval
<1>2. Places(s, K) \in SUBSET (1 .. Len(s))
  BY DEF Places
<1>3. IsFiniteSet(Places(s, K))
  BY <1>1, <1>2, FS_Subset
<1> QED BY <1>3, FS_CardinalityType DEF CountIn

\* There is none exactly if none is found.
LEMMA CountZero == ASSUME NEW T, NEW s \in Seq(T), NEW K
                   PROVE  CountIn(s, K) = 0 <=> \A i \in DOMAIN s : s[i] \notin K
<1>1. CountIn(s, K) = 0 <=> Places(s, K) = {}
  BY CountType, FS_EmptySet DEF CountIn
<1> QED BY <1>1 DEF Places

LEMMA CountEmpty == \A K : CountIn(<<>>, K) = 0
  BY FS_EmptySet DEF CountIn, Places

LEMMA CountAppend == ASSUME NEW T, NEW s \in Seq(T), NEW e \in T, NEW K
                     PROVE  CountIn(Append(s, e), K) = CountIn(s, K) + OneIf(e \in K)
<1>1. /\ DOMAIN Append(s, e) = DOMAIN s \cup {Len(s) + 1} /\ Len(s) + 1 \notin DOMAIN s
      /\ \A i \in DOMAIN s : Append(s, e)[i] = s[i]
      /\ Append(s, e)[Len(s) + 1] = e
  BY AppendProperties
<1>2. CASE e \in K
  <2>1. Places(Append(s, e), K) = Places(s, K) \cup {Len(s) + 1} /\ Len(s) + 1 \notin Places(s, K)
    BY <1>1, <1>2 DEF Places
  <2> QED BY <1>2, <2>1, CountType, FS_AddElement DEF CountIn, OneIf
<1>3. CASE e \notin K
  <2>1. Places(Append(s, e), K) = Places(s, K)
    BY <1>1, <1>3 DEF Places
  <2> QED BY <1>3, <2>1, CountType DEF CountIn, OneIf
<1> QED BY <1>2, <1>3

LEMMA CountTail == ASSUME NEW T, NEW s \in Seq(T), s # <<>>, NEW K
                   PROVE  CountIn(s, K) = CountIn(Tail(s), K) + OneIf(Head(s) \in K)
<1>1. /\ Tail(s) \in Seq(T) /\ Len(s) \in Nat \ {0} /\ Len(Tail(s)) = Len(s) - 1
      /\ \A i \in 1 .. Len(Tail(s)) : Tail(s)[i] = s[i + 1]
      /\ Head(s) = s[1]
      /\ DOMAIN s = 1 .. Len(s) /\ DOMAIN Tail(s) = 1 .. Len(Tail(s))
  BY HeadTailProperties, EmptySeq
<1> DEFINE P == Places(Tail(s), K)
           Q == Places(s, K) \ {1}
           f == [i \in P |-> i + 1]
<1>2. f \in Bijection(P, Q)
  <2>1. f \in [P -> Q]
    BY <1>1 DEF Places
  <2>2. \A i, j \in P : f[i] = f[j] => i = j
    BY <1>1 DEF Places
  <2>3. \A j \in Q : \E i \in P : f[i] = j
    <3> TAKE j \in Q
    <3>1. j \in Int /\ j > 1 /\ j <= Len(s) /\ s[j] \in K
      BY <1>1 DEF Places
    <3>2. j - 1 \in 1 .. Len(Tail(s)) /\ (j - 1) + 1 = j
      BY <1>1, <3>1
    <3>3. j - 1 \in P
      BY <1>1, <3>1, <3>2 DEF Places
    <3> QED BY <3>2, <3>3
  <2> HIDE DEF P, Q, f
  <2> QED BY <2>1, <2>2, <2>3 DEF Bijection, Injection, Surjection, IsInjective
<1>3. IsFiniteSet(P) /\ IsFiniteSet(Places(s, K))
  BY <1>1, CountType
<1>4. IsFiniteSet(Q) /\ Cardinality(Q) = Cardinality(P)
  BY <1>2, <1>3, FS_Bijection DEF ExistsBijection
<1>5. CASE s[1] \in K
  <2>1. Places(s, K) = Q \cup {1} /\ 1 \notin Q
    BY <1>1, <1>5 DEF Places
  <2> QED BY ZenonT(60), <1>1, <1>3, <1>4, <1>5, <2>1, FS_AddElement DEF CountIn, OneIf
<1>6. CASE s[1] \notin K
  <2>1. Places(s, K) = Q
    BY <1>6 DEF Places
  <2>2. CountIn(Tail(s), K) \in Nat
    BY <1>1, CountType
  <2>3. CountIn(s, K) = Cardinality(P)
    BY <1>4, <2>1 DEF CountIn
  <2>4. CountIn(s, K) = CountIn(Tail(s), K)
    BY <2>3 DEF CountIn
  <2> QED BY <1>1, <1>6, <2>2, <2>4 DEF OneIf
<1> QED BY <1>5, <1>6

\* A queue without one of its elements.
LEMMA RemoveAtType == ASSUME NEW T, NEW s \in Seq(T), NEW n \in 1 .. Len(s)
                      PROVE  /\ RemoveAt(s, n) \in Seq(T)
                             /\ Len(RemoveAt(s, n)) = Len(s) - 1
                             /\ \A i \in 1 .. Len(s) - 1 :
                                  RemoveAt(s, n)[i] = IF i < n THEN s[i] ELSE s[i + 1]
<1> DEFINE a == SubSeq(s, 1, n - 1)
           b == SubSeq(s, n + 1, Len(s))
<1>1. n \in Int /\ 1 <= n /\ n <= Len(s) /\ Len(s) \in Nat
  OBVIOUS
<1>2. a \in Seq(T) /\ Len(a) = n - 1 /\ \A i \in 1 .. n - 1 : a[i] = s[i]
  BY <1>1, SubSeqProperties
<1>3. b \in Seq(T) /\ Len(b) = Len(s) - n /\ \A i \in 1 .. Len(s) - n : b[i] = s[n + i]
  BY <1>1, SubSeqProperties
<1> HIDE DEF a, b
<1>4. /\ a \o b \in Seq(T) /\ Len(a \o b) = Len(s) - 1
      /\ \A i \in 1 .. Len(s) - 1 : (a \o b)[i] = IF i <= n - 1 THEN a[i] ELSE b[i - (n - 1)]
  <2>1. /\ a \o b \in Seq(T) /\ Len(a \o b) = Len(a) + Len(b)
        /\ \A i \in 1 .. Len(a) + Len(b) : (a \o b)[i] = IF i <= Len(a) THEN a[i] ELSE b[i - Len(a)]
    BY <1>2, <1>3, ConcatProperties
  <2>2. Len(a) + Len(b) = Len(s) - 1
    BY <1>1, <1>2, <1>3
  <2> QED BY <1>2, <2>1, <2>2
<1>5. \A i \in 1 .. Len(s) - 1 : (a \o b)[i] = IF i < n THEN s[i] ELSE s[i + 1]
  <2> TAKE i \in 1 .. Len(s) - 1
  <2>1. CASE i < n
    BY <1>1, <1>2, <1>4, <2>1
  <2>2. CASE ~(i < n)
    <3>1. i - (n - 1) \in 1 .. Len(s) - n /\ n + (i - (n - 1)) = i + 1
      BY <1>1, <2>2
    <3> QED BY <1>1, <1>3, <1>4, <2>2, <3>1
  <2> QED BY <2>1, <2>2
<1> QED BY <1>4, <1>5 DEF RemoveAt, a, b

LEMMA CountRemoveAt == ASSUME NEW T, NEW s \in Seq(T), NEW n \in 1 .. Len(s), NEW K
                       PROVE  CountIn(RemoveAt(s, n), K) <= CountIn(s, K)
<1> DEFINE r == RemoveAt(s, n)
           P == Places(r, K)
           Q == Places(s, K)
           f == [i \in P |-> IF i < n THEN i ELSE i + 1]
<1>1. /\ r \in Seq(T) /\ Len(r) = Len(s) - 1 /\ Len(s) \in Nat /\ n \in Int
      /\ \A i \in 1 .. Len(s) - 1 : r[i] = IF i < n THEN s[i] ELSE s[i + 1]
      /\ DOMAIN s = 1 .. Len(s) /\ DOMAIN r = 1 .. Len(s) - 1
  BY RemoveAtType
<1> HIDE DEF r
<1>2. \A i \in P : i \in 1 .. Len(s) - 1 /\ r[i] \in K
  BY <1>1 DEF Places
<1>3. f \in [P -> Q]
  BY <1>1, <1>2 DEF Places
<1>4. \A i, j \in P : f[i] = f[j] => i = j
  BY <1>1, <1>2
<1>5. IsFiniteSet(Q)
  BY CountType
<1> HIDE DEF P, Q, f
<1>6. f \in Injection(P, Q)
  BY <1>3, <1>4 DEF Injection, IsInjective
<1>7. Cardinality(P) <= Cardinality(Q)
  BY <1>5, <1>6, FS_Injection
<1> QED BY <1>7 DEF P, Q, r, CountIn
=============================================================================
