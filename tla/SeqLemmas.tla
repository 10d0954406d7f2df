----------------------------- MODULE SeqLemmas -----------------------------
(***************************************************************************)
(* Facts about lists and counting that the proofs share.                    *)
(***************************************************************************)
EXTENDS Integers, FiniteSets, SequencesExt, SequenceTheorems, FiniteSetTheorems,
        WellFoundedInduction, TLAPS

\* What RemoveAt does to a list, slot by slot.
LEMMA RemoveAtFacts ==
    ASSUME NEW S, NEW s \in Seq(S), NEW k \in 1..Len(s)
    PROVE  /\ RemoveAt(s, k) \in Seq(S)
           /\ Len(RemoveAt(s, k)) = Len(s) - 1
           /\ \A i \in 1..(Len(s) - 1) :
                 RemoveAt(s, k)[i] = IF i < k THEN s[i] ELSE s[i + 1]
<1> DEFINE p == SubSeq(s, 1, k - 1)
           q == SubSeq(s, k + 1, Len(s))
<1>0. Len(s) \in Nat /\ k \in Nat /\ k >= 1 /\ k <= Len(s)
      /\ \A i \in 1..Len(s) : s[i] \in S
  BY LenProperties, ElementOfSeq
<1>1. p \in Seq(S) /\ Len(p) = k - 1 /\ \A i \in 1..(k - 1) : p[i] = s[i]
  <2>1. \A i \in 1..(k - 1) : s[i] \in S
    BY <1>0
  <2> QED BY <1>0, <2>1, SubSeqProperties
<1>2. q \in Seq(S) /\ Len(q) = Len(s) - k /\ \A i \in 1..(Len(s) - k) : q[i] = s[k + i]
  <2>1. \A i \in (k + 1)..Len(s) : s[i] \in S
    BY <1>0
  <2> QED BY <1>0, <2>1, SubSeqProperties
<1>3. RemoveAt(s, k) = p \o q
  BY DEF RemoveAt
<1> HIDE DEF p, q
<1>4. p \o q \in Seq(S) /\ Len(p \o q) = Len(s) - 1
      /\ \A i \in 1..(Len(s) - 1) : (p \o q)[i] = IF i <= k - 1 THEN p[i] ELSE q[i - (k - 1)]
  BY <1>0, <1>1, <1>2, ConcatProperties
<1>5. ASSUME NEW i \in 1..(Len(s) - 1)
      PROVE  (p \o q)[i] = IF i < k THEN s[i] ELSE s[i + 1]
  <2>2. CASE i < k
    BY <1>0, <1>1, <1>4, <2>2
  <2>3. CASE ~(i < k)
    <3>1. i - (k - 1) \in 1..(Len(s) - k) /\ k + (i - (k - 1)) = i + 1
      BY <1>0, <2>3
    <3> QED BY <1>0, <1>2, <1>4, <2>3, <3>1
  <2> QED BY <2>2, <2>3
<1> QED BY <1>3, <1>4, <1>5

\* A function on 1..n is a list of n elements.
LEMMA RebuildFacts ==
    ASSUME NEW S, NEW n \in Nat, NEW f \in [1..n -> S]
    PROVE  f \in Seq(S) /\ Len(f) = n
<1>1. f \in Seq(S)
  BY SeqDef
<1>2. DOMAIN f = 1..Len(f) /\ Len(f) \in Nat /\ DOMAIN f = 1..n
  BY <1>1, LenProperties
<1> QED BY <1>1, <1>2

\* A set of naturals that is not empty has a least element.
LEMMA LeastNumber ==
    ASSUME NEW S, S \subseteq Nat, S # {}
    PROVE  \E m \in S : \A x \in S : m <= x
<1> DEFINE R == OpToRel(<, Nat)
<1>1. \A x, y \in Nat : <<x, y>> \in R <=> x < y
  BY DEF OpToRel
<1>2. IsWellFoundedOn(R, Nat)
  BY NatLessThanWellFounded
<1> HIDE DEF R
<1>3. \E m \in S : \A x \in S : ~(<<x, m>> \in R)
  BY <1>2, WFMin
<1>4. PICK m \in S : \A x \in S : ~(<<x, m>> \in R)
  BY <1>3
<1>5. \A x \in S : ~(x < m)
  BY <1>1, <1>4, Zenon
<1> QED BY ONLY <1>5, S \subseteq Nat, m \in S


\* What InsertAt does to a list, slot by slot.
LEMMA InsertAtFacts ==
    ASSUME NEW S, NEW s \in Seq(S), NEW k \in 1..(Len(s) + 1), NEW e \in S
    PROVE  /\ InsertAt(s, k, e) \in Seq(S)
           /\ Len(InsertAt(s, k, e)) = Len(s) + 1
           /\ \A i \in 1..(Len(s) + 1) :
                 InsertAt(s, k, e)[i] = IF i < k THEN s[i] ELSE IF i = k THEN e ELSE s[i - 1]
<1> DEFINE p == SubSeq(s, 1, k - 1)
           q == SubSeq(s, k, Len(s))
           pe == p \o <<e>>
<1>0. Len(s) \in Nat /\ k \in Nat /\ k >= 1 /\ k <= Len(s) + 1
      /\ \A i \in 1..Len(s) : s[i] \in S
  BY LenProperties, ElementOfSeq
<1>1. p \in Seq(S) /\ Len(p) = k - 1 /\ \A i \in 1..(k - 1) : p[i] = s[i]
  <2>1. \A i \in 1..(k - 1) : s[i] \in S
    BY <1>0
  <2> QED BY <1>0, <2>1, SubSeqProperties
<1>2. q \in Seq(S) /\ Len(q) = Len(s) - k + 1 /\ \A i \in 1..(Len(s) - k + 1) : q[i] = s[k + i - 1]
  <2>1. \A i \in k..Len(s) : s[i] \in S
    BY <1>0
  <2> QED BY <1>0, <2>1, SubSeqProperties
<1>3. InsertAt(s, k, e) = pe \o q
  BY DEF InsertAt
<1> HIDE DEF p, q
<1>4. <<e>> \in Seq(S) /\ Len(<<e>>) = 1 /\ <<e>>[1] = e
  OBVIOUS
<1>5. pe \in Seq(S) /\ Len(pe) = k
      /\ \A i \in 1..k : pe[i] = IF i <= k - 1 THEN p[i] ELSE <<e>>[i - (k - 1)]
  BY <1>0, <1>1, <1>4, ConcatProperties
<1> HIDE DEF pe
<1>6. pe \o q \in Seq(S) /\ Len(pe \o q) = Len(s) + 1
      /\ \A i \in 1..(Len(s) + 1) : (pe \o q)[i] = IF i <= k THEN pe[i] ELSE q[i - k]
  BY <1>0, <1>2, <1>5, ConcatProperties
<1>7. ASSUME NEW i \in 1..(Len(s) + 1)
      PROVE  (pe \o q)[i] = IF i < k THEN s[i] ELSE IF i = k THEN e ELSE s[i - 1]
  <2>1. CASE i < k
    BY <1>0, <1>1, <1>5, <1>6, <2>1
  <2>2. CASE i = k
    <3>1. i - (k - 1) = 1
      BY <1>0, <2>2
    <3> QED BY <1>0, <1>4, <1>5, <1>6, <2>2, <3>1
  <2>3. CASE i > k
    <3>1. i - k \in 1..(Len(s) - k + 1) /\ k + (i - k) - 1 = i - 1 /\ ~(i <= k)
      BY <1>0, <2>3
    <3>2. (pe \o q)[i] = q[i - k]
      BY <1>6, <3>1
    <3>3. q[i - k] = s[i - 1]
      BY <1>2, <3>1
    <3> QED BY <1>0, <2>3, <3>2, <3>3
  <2>4. i < k \/ i = k \/ i > k
    BY <1>0
  <2> QED BY <2>1, <2>2, <2>3, <2>4
<1> QED BY <1>3, <1>6, <1>7

\* The slots of list s that hold v.
Occurs(s, v) == {i \in 1..Len(s) : s[i] = v}

\* There are finitely many, and none exactly when the count is zero.
LEMMA CountFacts ==
    ASSUME NEW S, NEW s \in Seq(S), NEW v
    PROVE  /\ IsFiniteSet(Occurs(s, v))
           /\ Cardinality(Occurs(s, v)) \in Nat
           /\ Cardinality(Occurs(s, v)) = 0 <=> \A i \in 1..Len(s) : s[i] # v
<1>1. Len(s) \in Nat
  BY LenProperties
<1>2. IsFiniteSet(1..Len(s))
  BY <1>1, FS_Interval
<1>3. IsFiniteSet(Occurs(s, v))
  <2>1. Occurs(s, v) \in SUBSET (1..Len(s))
    BY DEF Occurs
  <2> QED BY <1>2, <2>1, FS_Subset
<1>4. Cardinality(Occurs(s, v)) \in Nat
  BY <1>3, FS_CardinalityType
<1>5. Cardinality(Occurs(s, v)) = 0 <=> Occurs(s, v) = {}
  BY <1>3, FS_EmptySet
<1> QED BY <1>3, <1>4, <1>5 DEF Occurs

\* Setting a slot moves the counts of what it held and what it holds.
LEMMA CountSet ==
    ASSUME NEW S, NEW s \in Seq(S), NEW k \in 1..Len(s), NEW x \in S, NEW v,
           NEW t, t = [s EXCEPT ![k] = x]
    PROVE  /\ t \in Seq(S) /\ Len(t) = Len(s)
           /\ \A i \in 1..Len(s) : t[i] = IF i = k THEN x ELSE s[i]
           /\ v # x /\ v = s[k] => Cardinality(Occurs(t, v)) = Cardinality(Occurs(s, v)) - 1
           /\ v = x /\ v # s[k] => Cardinality(Occurs(t, v)) = Cardinality(Occurs(s, v)) + 1
           /\ v # x /\ v # s[k] => Cardinality(Occurs(t, v)) = Cardinality(Occurs(s, v))
<1>0. Len(s) \in Nat /\ DOMAIN s = 1..Len(s) /\ s \in [1..Len(s) -> S]
  BY LenProperties
<1>1. t \in [1..Len(s) -> S] /\ \A i \in 1..Len(s) : t[i] = IF i = k THEN x ELSE s[i]
  BY <1>0
<1>2. t \in Seq(S) /\ Len(t) = Len(s)
  BY <1>0, <1>1, RebuildFacts
<1>3. IsFiniteSet(Occurs(s, v))
  BY CountFacts
<1>4. ASSUME v # x, v = s[k] PROVE Cardinality(Occurs(t, v)) = Cardinality(Occurs(s, v)) - 1
  <2>1. Occurs(t, v) = Occurs(s, v) \ {k} /\ k \in Occurs(s, v)
    BY <1>1, <1>2, <1>4 DEF Occurs
  <2> QED BY <1>3, <2>1, FS_RemoveElement
<1>5. ASSUME v = x, v # s[k] PROVE Cardinality(Occurs(t, v)) = Cardinality(Occurs(s, v)) + 1
  <2>1. Occurs(t, v) = Occurs(s, v) \cup {k} /\ k \notin Occurs(s, v)
    BY <1>1, <1>2, <1>5 DEF Occurs
  <2> QED BY <1>3, <2>1, FS_AddElement
<1>6. ASSUME v # x, v # s[k] PROVE Cardinality(Occurs(t, v)) = Cardinality(Occurs(s, v))
  <2>1. Occurs(t, v) = Occurs(s, v)
    BY <1>1, <1>2, <1>6 DEF Occurs
  <2> QED BY <2>1
<1> QED BY <1>1, <1>2, <1>4, <1>5, <1>6

\* A slot that does not hold v gets x: v is counted once more exactly when it is x.
LEMMA CountFill ==
    ASSUME NEW S, NEW s \in Seq(S), NEW k \in 1..Len(s), NEW x \in S, NEW v, v # s[k]
    PROVE  /\ v = x => Cardinality(Occurs([s EXCEPT ![k] = x], v)) = Cardinality(Occurs(s, v)) + 1
           /\ v # x => Cardinality(Occurs([s EXCEPT ![k] = x], v)) = Cardinality(Occurs(s, v))
  BY CountSet

\* Dropping a slot that holds something else than v leaves v's count alone.
LEMMA CountRemove ==
    ASSUME NEW S, NEW s \in Seq(S), NEW k \in 1..Len(s), NEW v, s[k] # v
    PROVE  Cardinality(Occurs(RemoveAt(s, k), v)) = Cardinality(Occurs(s, v))
<1> DEFINE t == RemoveAt(s, k)
           f == [i \in Occurs(t, v) |-> IF i < k THEN i ELSE i + 1]
<1>0. Len(s) \in Nat /\ k \in Nat /\ k >= 1 /\ k <= Len(s)
  BY LenProperties
<1>1. /\ t \in Seq(S) /\ Len(t) = Len(s) - 1
      /\ \A i \in 1..(Len(s) - 1) : t[i] = IF i < k THEN s[i] ELSE s[i + 1]
  BY RemoveAtFacts
<1> HIDE DEF t
<1>2. f \in [Occurs(t, v) -> Occurs(s, v)]
  BY <1>0, <1>1 DEF Occurs
<1>3. \A i, j \in Occurs(t, v) : f[i] = f[j] => i = j
  BY <1>0, <1>1 DEF Occurs
<1>4. ASSUME NEW j \in Occurs(s, v) PROVE \E i \in Occurs(t, v) : f[i] = j
  <2>1. CASE j < k
    <3>1. j \in Occurs(t, v) /\ f[j] = j
      BY <1>0, <1>1, <2>1 DEF Occurs
    <3> QED BY <3>1
  <2>2. CASE j > k
    <3>1. j - 1 \in Occurs(t, v)
      BY <1>0, <1>1, <2>2 DEF Occurs
    <3>2. f[j - 1] = j
      BY <1>0, <2>2, <3>1 DEF Occurs
    <3> QED BY <3>1, <3>2
  <2>3. j # k /\ j \in Nat
    BY <1>0 DEF Occurs
  <2> QED BY <1>0, <2>1, <2>2, <2>3
<1>5. ExistsBijection(Occurs(t, v), Occurs(s, v))
  <2> HIDE DEF f
  <2>1. f \in Bijection(Occurs(t, v), Occurs(s, v))
    BY <1>2, <1>3, <1>4 DEF Bijection, Injection, Surjection, IsInjective
  <2> QED BY <2>1 DEF ExistsBijection
<1>6. IsFiniteSet(Occurs(t, v))
  BY <1>1, CountFacts
<1>7. Cardinality(Occurs(s, v)) = Cardinality(Occurs(t, v))
  BY <1>5, <1>6, FS_Bijection
<1> QED BY <1>7 DEF t

=============================================================================
