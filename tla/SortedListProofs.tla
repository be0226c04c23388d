-------------------------- MODULE SortedListProofs --------------------------
(***************************************************************************)
(* Proofs about SortedList, for every set of lists, of contexts and of     *)
(* priorities.                                                             *)
(***************************************************************************)
EXTENDS SortedList, FiniteSetTheorems, SequenceTheorems, WellFoundedInduction, TLAPS

\* A set of numbers has a least element: induction, for sets.
LEMMA LeastElement ==
  ASSUME NEW T \in SUBSET Nat, T # {}
  PROVE  \E m \in T : \A n \in T : m <= n
PROOF
  <1> DEFINE R == OpToRel(<, Nat)
  <1>1. IsWellFoundedOn(R, Nat) BY NatLessThanWellFounded
  <1>2. \A x, y \in Nat : y < x => <<y, x>> \in R BY DEF OpToRel
  <1> HIDE DEF R
  <1>3. PICK x \in T : \A y \in T : ~(<<y, x>> \in R) BY <1>1, WFMin
  <1>4. \A y \in T : ~(y < x) BY <1>2, <1>3
  <1>5. x \in Nat OBVIOUS
  <1>6. \A y \in T : x <= y BY <1>4, <1>5
  <1> QED BY <1>6

-----------------------------------------------------------------------------
(* Lists in memory.                                                        *)

\* What the walk finds at place k of the list q.
Pointed(q, k) == IF k \in 1 .. Len(q) THEN q[k] ELSE Null

\* From the pointer h the links lead through q to the null pointer.
Spells(q, h, nxt) ==
  /\ q \in Seq(Elements)
  /\ h = Pointed(q, 1)
  /\ \A k \in 1 .. Len(q) : nxt[q[k]] = Pointed(q, k + 1)

\* q holds nobody twice.
Distinct(q) == \A j, k \in 1 .. Len(q) : q[j] = q[k] => j = k

LEMMA DistinctFits ==
  ASSUME NEW q \in Seq(Elements), Distinct(q)
  PROVE  /\ Len(q) <= Cardinality(Elements) /\ Cardinality(Elements) \in Nat /\ Len(q) \in Nat
         /\ Cardinality(1 .. Len(q)) = Len(q)
PROOF
  <1>1. IsFiniteSet(Elements) BY ListAssumption
  <1>2. Len(q) \in Nat /\ q \in [1 .. Len(q) -> Elements] OBVIOUS
  <1>3. q \in Injection(1 .. Len(q), Elements)
    BY <1>2 DEF Injection, IsInjective, Distinct
  <1>4. Cardinality(1 .. Len(q)) <= Cardinality(Elements) BY <1>1, <1>3, FS_Injection
  <1>5. Cardinality(1 .. Len(q)) = Len(q) BY <1>2, FS_Interval
  <1>6. Cardinality(Elements) \in Nat BY <1>1, FS_CardinalityType
  <1> QED BY <1>2, <1>4, <1>5, <1>6

\* What Contents computes.
LEMMA ContentsAre ==
  ASSUME NEW l, NEW q, Spells(q, head[l], next), Distinct(q)
  PROVE  Contents(l) = q
PROOF
  <1> DEFINE N == Cardinality(Elements)
             D == 1 .. N + 1
             at == CHOOSE g : g = [k \in D |-> IF k = 1 THEN head[l] ELSE IF g[k - 1] = Null THEN Null ELSE next[g[k - 1]]]
  <1>1. q \in Seq(Elements) /\ head[l] = Pointed(q, 1) /\ \A k \in 1 .. Len(q) : next[q[k]] = Pointed(q, k + 1)
    BY DEF Spells
  <1>2. N \in Nat /\ Len(q) \in Nat /\ Len(q) <= N BY <1>1, DistinctFits
  <1>3. ASSUME NEW k \in D, k # 1
        PROVE  Pointed(q, k) = IF Pointed(q, k - 1) = Null THEN Null ELSE next[Pointed(q, k - 1)]
    <2>1. k - 1 \in Nat \ {0} /\ (k - 1) + 1 = k BY <1>2, <1>3
    <2>2. CASE k - 1 \in 1 .. Len(q)
      <3>1. Pointed(q, k - 1) = q[k - 1] /\ q[k - 1] \in Elements BY <1>1, <2>2 DEF Pointed
      <3>2. q[k - 1] # Null BY <3>1, ListAssumption
      <3>3. next[q[k - 1]] = Pointed(q, k) BY <1>1, <2>1, <2>2
      <3> QED BY <3>1, <3>2, <3>3
    <2>3. CASE k - 1 \notin 1 .. Len(q)
      <3>1. k \notin 1 .. Len(q) BY <1>2, <2>1, <2>3
      <3> QED BY <2>3, <3>1 DEF Pointed
    <2> QED BY <2>2, <2>3
  <1>4. \E g : g = [k \in D |-> IF k = 1 THEN head[l] ELSE IF g[k - 1] = Null THEN Null ELSE next[g[k - 1]]]
    <2> DEFINE g == [k \in D |-> Pointed(q, k)]
    <2>1. ASSUME NEW k \in D
          PROVE  Pointed(q, k) = IF k = 1 THEN head[l] ELSE IF g[k - 1] = Null THEN Null ELSE next[g[k - 1]]
      <3>1. CASE k = 1 BY <1>1, <3>1
      <3>2. CASE k # 1
        <4>1. k - 1 \in D BY <1>2, <3>2
        <4>2. g[k - 1] = Pointed(q, k - 1) BY <4>1
        <4> QED BY <1>3, <3>2, <4>2
      <3> QED BY <3>1, <3>2
    <2>2. g = [k \in D |-> IF k = 1 THEN head[l] ELSE IF g[k - 1] = Null THEN Null ELSE next[g[k - 1]]]
      BY <2>1, Zenon
    <2> QED BY <2>2
  <1>5. at = [k \in D |-> IF k = 1 THEN head[l] ELSE IF at[k - 1] = Null THEN Null ELSE next[at[k - 1]]]
    BY <1>4, Zenon
  <1>6. Contents(l) = [k \in 1 .. Cardinality({k \in DOMAIN at : at[k] # Null}) |-> at[k]]
    BY Zenon DEF Contents
  <1> HIDE DEF at
  <1>7. \A k \in D : at[k] = Pointed(q, k)
    <2> DEFINE T == {k \in D : at[k] # Pointed(q, k)}
    <2> SUFFICES ASSUME T # {} PROVE FALSE OBVIOUS
    <2>1. T \in SUBSET Nat BY <1>2
    <2>2. PICK m \in T : \A k \in T : m <= k
      <3> HIDE DEF T
      <3> QED BY <2>1, LeastElement
    <2>3. m \in D /\ at[m] # Pointed(q, m) OBVIOUS
    <2>4. m # 1 BY <1>1, <1>5, <2>3
    <2>5. m - 1 \in D /\ m - 1 \notin T BY <1>2, <2>2, <2>3, <2>4
    <2>6. at[m - 1] = Pointed(q, m - 1) BY <2>5
    <2>7. at[m] = IF at[m - 1] = Null THEN Null ELSE next[at[m - 1]] BY <1>5, <2>3, <2>4
    <2> QED BY <1>3, <2>3, <2>4, <2>6, <2>7
  <1>8. DOMAIN at = D BY <1>5
  <1>9. {k \in DOMAIN at : at[k] # Null} = 1 .. Len(q)
    <2>1. ASSUME NEW k \in D PROVE at[k] # Null <=> k \in 1 .. Len(q)
      <3>1. CASE k \in 1 .. Len(q)
        <4>1. q[k] \in Elements BY <1>1, <3>1
        <4> QED BY <1>7, <3>1, <4>1, ListAssumption DEF Pointed
      <3>2. CASE k \notin 1 .. Len(q) BY <1>7, <3>2 DEF Pointed
      <3> QED BY <3>1, <3>2
    <2>2. 1 .. Len(q) \subseteq D BY <1>2
    <2> QED BY <1>8, <2>1, <2>2
  <1>10. Cardinality(1 .. Len(q)) = Len(q) BY <1>1, DistinctFits
  <1>11. \A k \in 1 .. Len(q) : at[k] = q[k]
    <2>1. 1 .. Len(q) \subseteq D BY <1>2
    <2> QED BY <1>7, <2>1 DEF Pointed
  <1>12. Contents(l) = [k \in 1 .. Len(q) |-> q[k]]
    <2>1. Contents(l) = [k \in 1 .. Len(q) |-> at[k]] BY <1>6, <1>9, <1>10
    <2> QED BY <1>11, <2>1
  <1> QED BY <1>1, <1>12

ContentsFact == \A l, q : Spells(q, head[l], next) /\ Distinct(q) => Contents(l) = q

LEMMA ContentsNow == ContentsFact
PROOF BY ContentsAre DEF ContentsFact

LEMMA ContentsLater == ContentsFact'
PROOF BY ContentsNow, PTL

\* The list with e at place k.
With(q, k, e) == Queues!insert_elt(q, k, e)

LEMMA WithElements ==
  ASSUME NEW q \in Seq(Elements), NEW k \in 1 .. Len(q) + 1, NEW e \in Elements
  PROVE  /\ With(q, k, e) \in Seq(Elements)
         /\ Len(With(q, k, e)) = Len(q) + 1
         /\ \A i \in 1 .. Len(q) + 1 :
              With(q, k, e)[i] = IF i < k THEN q[i] ELSE IF i = k THEN e ELSE q[i - 1]
PROOF
  <1> DEFINE a == SubSeq(q, 1, k - 1)
             b == SubSeq(q, k, Len(q))
             u == <<e>>
             ae == a \o u
  <1>1. Len(q) \in Nat /\ \A i \in 1 .. Len(q) : q[i] \in Elements
    BY LenProperties, ElementOfSeq
  <1>2. /\ a \in Seq(Elements) /\ Len(a) = k - 1
        /\ \A i \in 1 .. k - 1 : a[i] = q[i]
    BY <1>1, SubSeqProperties
  <1>3. /\ b \in Seq(Elements) /\ Len(b) = Len(q) - k + 1
        /\ \A i \in 1 .. Len(q) - k + 1 : b[i] = q[k + i - 1]
    BY <1>1, SubSeqProperties
  <1>4. u \in Seq(Elements) /\ Len(u) = 1 /\ u[1] = e
    OBVIOUS
  <1>7. With(q, k, e) = ae \o b
    BY DEF With, Queues!insert_elt, Queues!InsertAt
  <1> HIDE DEF a, b, u
  <1>5. /\ ae \in Seq(Elements) /\ Len(ae) = k
        /\ \A i \in 1 .. k : ae[i] = IF i <= k - 1 THEN a[i] ELSE u[i - (k - 1)]
    <2>1. /\ ae \in Seq(Elements) /\ Len(ae) = Len(a) + Len(u)
          /\ \A i \in 1 .. Len(a) + Len(u) :
               ae[i] = IF i <= Len(a) THEN a[i] ELSE u[i - Len(a)]
      BY <1>2, <1>4, ConcatProperties
    <2>2. Len(a) + Len(u) = k BY <1>1, <1>2, <1>4
    <2> HIDE DEF ae
    <2> QED BY <2>1, <2>2, <1>2
  <1> HIDE DEF ae
  <1>6. /\ ae \o b \in Seq(Elements) /\ Len(ae \o b) = Len(q) + 1
        /\ \A i \in 1 .. Len(q) + 1 : (ae \o b)[i] = IF i <= k THEN ae[i] ELSE b[i - k]
    <2>1. /\ ae \o b \in Seq(Elements) /\ Len(ae \o b) = Len(ae) + Len(b)
          /\ \A i \in 1 .. Len(ae) + Len(b) :
               (ae \o b)[i] = IF i <= Len(ae) THEN ae[i] ELSE b[i - Len(ae)]
      BY <1>3, <1>5, ConcatProperties
    <2>2. Len(ae) + Len(b) = Len(q) + 1 BY <1>1, <1>3, <1>5
    <2>3. \A i \in 1 .. Len(q) + 1 : (ae \o b)[i] = IF i <= k THEN ae[i] ELSE b[i - k]
      BY <2>1, <2>2, <1>5, Zenon
    <2> QED BY <2>1, <2>2, <2>3
  <1> DEFINE r == ae \o b
  <1>9. \A i \in 1 .. Len(q) + 1 : r[i] = IF i <= k THEN ae[i] ELSE b[i - k]
    BY <1>6
  <1>10. r \in Seq(Elements) /\ Len(r) = Len(q) + 1 /\ With(q, k, e) = r
    BY <1>6, <1>7
  <1> HIDE DEF r
  <1>8. ASSUME NEW i \in 1 .. Len(q) + 1
        PROVE  r[i] = IF i < k THEN q[i] ELSE IF i = k THEN e ELSE q[i - 1]
    <2>1. CASE i < k
      <3>1. i \in 1 .. k /\ i <= k - 1 /\ i \in 1 .. k - 1 /\ i <= k BY <2>1, <1>1
      <3> QED BY <3>1, <2>1, <1>9, <1>5, <1>2
    <2>2. CASE i = k
      <3>1. i \in 1 .. k /\ ~(i <= k - 1) /\ i - (k - 1) = 1 BY <2>2, <1>1
      <3> QED BY <3>1, <2>2, <1>9, <1>5, <1>4
    <2>3. CASE i > k
      <3>1. /\ i - k \in 1 .. Len(q) - k + 1 /\ ~(i <= k) /\ k + (i - k) - 1 = i - 1
        BY <2>3, <1>1
      <3>2. r[i] = b[i - k] BY <3>1, <1>9
      <3> QED BY <3>1, <3>2, <2>3, <1>3
    <2> QED BY <2>1, <2>2, <2>3, <1>1
  <1> QED BY <1>8, <1>10

\* The places of q are those of With(q, k, e) but k.
LEMMA WithPlaces ==
  ASSUME NEW q \in Seq(Elements), NEW k \in 1 .. Len(q) + 1, NEW e \in Elements,
         NEW i \in 1 .. Len(q) + 1
  PROVE  \/ i = k /\ With(q, k, e)[i] = e
         \/ \E j \in 1 .. Len(q) : With(q, k, e)[i] = q[j] /\ i = (IF j < k THEN j ELSE j + 1)
PROOF
  <1>1. Len(q) \in Nat OBVIOUS
  <1>2. With(q, k, e)[i] = IF i < k THEN q[i] ELSE IF i = k THEN e ELSE q[i - 1]
    <2>1. \A m \in 1 .. Len(q) + 1 :
            With(q, k, e)[m] = IF m < k THEN q[m] ELSE IF m = k THEN e ELSE q[m - 1]
      BY WithElements
    <2> QED BY <2>1
  <1>3. CASE i < k
    <2>1. i \in 1 .. Len(q) /\ With(q, k, e)[i] = q[i] BY <1>1, <1>2, <1>3
    <2> QED BY <1>3, <2>1
  <1>4. CASE i = k BY <1>2, <1>4
  <1>5. CASE i > k
    <2>1. i - 1 \in 1 .. Len(q) /\ ~(i - 1 < k) /\ i = (i - 1) + 1 BY <1>1, <1>5
    <2>2. With(q, k, e)[i] = q[i - 1] BY <1>1, <1>2, <1>5
    <2> QED BY <2>1, <2>2
  <1> QED BY <1>3, <1>4, <1>5

LEMMA WithDistinct ==
  ASSUME NEW q \in Seq(Elements), NEW k \in 1 .. Len(q) + 1, NEW e \in Elements,
         Distinct(q), \A j \in 1 .. Len(q) : q[j] # e
  PROVE  Distinct(With(q, k, e))
PROOF
  <1> DEFINE r == With(q, k, e)
  <1>1. Len(r) = Len(q) + 1 BY WithElements
  <1>2. \A i \in 1 .. Len(q) + 1 :
          \/ i = k /\ r[i] = e
          \/ \E j \in 1 .. Len(q) : r[i] = q[j] /\ i = (IF j < k THEN j ELSE j + 1)
    BY WithPlaces
  <1> HIDE DEF r
  <1>3. ASSUME NEW i \in 1 .. Len(q) + 1, NEW m \in 1 .. Len(q) + 1, r[i] = r[m] PROVE i = m
    <2>1. CASE i = k /\ r[i] = e BY <1>2, <1>3, <2>1
    <2>2. ASSUME NEW j \in 1 .. Len(q), r[i] = q[j], i = (IF j < k THEN j ELSE j + 1) PROVE i = m
      <3>1. r[m] # e BY <1>3, <2>2
      <3>2. PICK j2 \in 1 .. Len(q) : r[m] = q[j2] /\ m = (IF j2 < k THEN j2 ELSE j2 + 1) BY <1>2, <3>1
      <3>3. j = j2 BY <1>3, <2>2, <3>2 DEF Distinct
      <3> QED BY <2>2, <3>2, <3>3
    <2> QED BY <1>2, <2>1, <2>2
  <1>4. Distinct(r) BY <1>1, <1>3 DEF Distinct
  <1> QED BY <1>4 DEF r

\* insert_elt's last writes: e between the elements at places k - 1 and k.
LEMMA WithSpells ==
  ASSUME NEW q, NEW h, NEW nxt, Spells(q, h, nxt), Distinct(q),
         NEW k \in 1 .. Len(q) + 1, NEW e \in Elements, \A j \in 1 .. Len(q) : q[j] # e,
         NEW nxt2, nxt2[e] = Pointed(q, k), k > 1 => nxt2[q[k - 1]] = e,
         \A j \in 1 .. Len(q) : j # k - 1 => nxt2[q[j]] = nxt[q[j]],
         NEW h2, h2 = IF k = 1 THEN e ELSE h, NEW r, r = With(q, k, e)
  PROVE  Spells(r, h2, nxt2)
PROOF
  <1>1. q \in Seq(Elements) /\ h = Pointed(q, 1) /\ \A j \in 1 .. Len(q) : nxt[q[j]] = Pointed(q, j + 1)
    BY DEF Spells
  <1>2. Len(q) \in Nat BY <1>1
  <1>3. /\ r \in Seq(Elements) /\ Len(r) = Len(q) + 1
        /\ \A i \in 1 .. Len(q) + 1 : r[i] = IF i < k THEN q[i] ELSE IF i = k THEN e ELSE q[i - 1]
    BY <1>1, WithElements
  <1>4. h2 = Pointed(r, 1)
    <2>1. Pointed(r, 1) = r[1] /\ 1 \in 1 .. Len(q) + 1 BY <1>2, <1>3 DEF Pointed
    <2>2. CASE k = 1 BY <1>3, <2>1, <2>2
    <2>3. CASE k # 1
      <3>1. 1 \in 1 .. Len(q) /\ 1 < k BY <1>2, <2>3
      <3>2. h = q[1] BY <1>1, <3>1 DEF Pointed
      <3> QED BY <1>3, <2>1, <2>3, <3>1, <3>2
    <2> QED BY <2>2, <2>3
  <1>5. ASSUME NEW i \in 1 .. Len(q) + 1 PROVE nxt2[r[i]] = Pointed(r, i + 1)
    <2>1. CASE i = k
      <3>1. r[i] = e BY <1>2, <1>3, <2>1
      <3>2. CASE k \in 1 .. Len(q)
        <4>1. i + 1 \in 1 .. Len(q) + 1 /\ (i + 1) - 1 = k /\ ~(i + 1 < k) /\ i + 1 # k BY <1>2, <2>1, <3>2
        <4>2. Pointed(r, i + 1) = q[k] BY <1>3, <4>1 DEF Pointed
        <4> QED BY <3>1, <3>2, <4>2 DEF Pointed
      <3>3. CASE k \notin 1 .. Len(q)
        <4>1. i + 1 \notin 1 .. Len(q) + 1 BY <1>2, <2>1, <3>3
        <4> QED BY <1>3, <3>1, <3>3, <4>1 DEF Pointed
      <3> QED BY <3>2, <3>3
    <2>2. CASE i < k
      <3>1. i \in 1 .. Len(q) /\ i + 1 \in 1 .. Len(q) + 1 BY <1>2, <2>2
      <3>2. r[i] = q[i] /\ Pointed(r, i + 1) = r[i + 1] BY <1>3, <2>2, <3>1 DEF Pointed
      <3>3. CASE i = k - 1
        <4>1. i + 1 = k /\ k > 1 BY <1>2, <3>1, <3>3
        <4>2. r[i + 1] = e BY <1>2, <1>3, <3>1, <4>1
        <4> QED BY <3>2, <3>3, <4>1, <4>2
      <3>4. CASE i # k - 1
        <4>1. i + 1 < k /\ i + 1 \in 1 .. Len(q) BY <1>2, <2>2, <3>4
        <4>2. r[i + 1] = q[i + 1] BY <1>3, <3>1, <4>1
        <4>3. nxt2[q[i]] = nxt[q[i]] BY <3>1, <3>4
        <4>4. nxt[q[i]] = q[i + 1] BY <1>1, <3>1, <4>1 DEF Pointed
        <4> QED BY <3>2, <4>2, <4>3, <4>4
      <3> QED BY <3>3, <3>4
    <2>3. CASE i > k
      <3>1. i - 1 \in 1 .. Len(q) /\ i - 1 # k - 1 /\ (i - 1) + 1 = i /\ ~(i < k) /\ i # k BY <1>2, <2>3
      <3>2. r[i] = q[i - 1] BY <1>3, <3>1
      <3>3. nxt2[q[i - 1]] = Pointed(q, i)
        <4>1. nxt2[q[i - 1]] = nxt[q[i - 1]] BY <3>1
        <4>2. nxt[q[i - 1]] = Pointed(q, (i - 1) + 1) BY <1>1, <3>1
        <4> QED BY <3>1, <4>1, <4>2
      <3>4. CASE i \in 1 .. Len(q)
        <4>1. i + 1 \in 1 .. Len(q) + 1 /\ (i + 1) - 1 = i /\ ~(i + 1 < k) /\ i + 1 # k BY <1>2, <2>3, <3>4
        <4>2. Pointed(r, i + 1) = q[i] BY <1>3, <4>1 DEF Pointed
        <4> QED BY <3>2, <3>3, <3>4, <4>2 DEF Pointed
      <3>5. CASE i \notin 1 .. Len(q)
        <4>1. i + 1 \notin 1 .. Len(q) + 1 BY <1>2, <2>3, <3>5
        <4> QED BY <1>3, <3>2, <3>3, <3>5, <4>1 DEF Pointed
      <3> QED BY <3>4, <3>5
    <2> QED BY <1>2, <2>1, <2>2, <2>3
  <1> QED BY <1>3, <1>4, <1>5 DEF Spells

\* remove_elt.
LEMMA TailSpells ==
  ASSUME NEW q, NEW h, NEW nxt, Spells(q, h, nxt), Distinct(q), q # <<>>
  PROVE  /\ h = q[1] /\ h \in Elements /\ 1 \in 1 .. Len(q)
         /\ Spells(Tail(q), nxt[h], nxt) /\ Distinct(Tail(q))
         /\ Len(Tail(q)) = Len(q) - 1
         /\ \A j \in 1 .. Len(Tail(q)) : Tail(q)[j] = q[j + 1] /\ j + 1 \in 1 .. Len(q)
PROOF
  <1>1. q \in Seq(Elements) /\ h = Pointed(q, 1) /\ \A j \in 1 .. Len(q) : nxt[q[j]] = Pointed(q, j + 1)
    BY DEF Spells
  <1>2. Len(q) \in Nat /\ Len(q) > 0 BY <1>1
  <1>3. h = q[1] /\ h \in Elements /\ 1 \in 1 .. Len(q) BY <1>1, <1>2 DEF Pointed
  <1>4. /\ Tail(q) \in Seq(Elements) /\ Len(Tail(q)) = Len(q) - 1
        /\ \A j \in 1 .. Len(q) - 1 : Tail(q)[j] = q[j + 1]
    BY <1>1, <1>2
  <1> DEFINE t == Tail(q)
  <1>5. /\ t \in Seq(Elements) /\ Len(t) = Len(q) - 1
        /\ \A j \in 1 .. Len(q) - 1 : t[j] = q[j + 1]
    BY <1>4
  <1> HIDE DEF t
  <1>6. \A j \in 1 .. Len(t) : t[j] = q[j + 1] /\ j + 1 \in 1 .. Len(q) BY <1>2, <1>5
  <1>7. Distinct(t)
    <2> SUFFICES ASSUME NEW j \in 1 .. Len(t), NEW k \in 1 .. Len(t), t[j] = t[k] PROVE j = k BY DEF Distinct
    <2>1. j + 1 = k + 1 BY <1>6 DEF Distinct
    <2> QED BY <1>2, <1>5, <2>1
  <1>8. \A j \in Nat \ {0} : Pointed(t, j) = Pointed(q, j + 1)
    <2> TAKE j \in Nat \ {0}
    <2>1. j \in 1 .. Len(t) <=> j + 1 \in 1 .. Len(q) BY <1>2, <1>5
    <2> QED BY <1>6, <2>1 DEF Pointed
  <1>9. nxt[h] = Pointed(t, 1)
    <2>1. nxt[h] = Pointed(q, 1 + 1) BY <1>1, <1>3
    <2>2. 1 \in Nat \ {0} OBVIOUS
    <2> QED BY <1>8, <2>1, <2>2
  <1>10. ASSUME NEW j \in 1 .. Len(t) PROVE nxt[t[j]] = Pointed(t, j + 1)
    <2>1. j + 1 \in Nat \ {0} BY <1>2, <1>5
    <2> QED BY <1>1, <1>6, <1>8, <2>1
  <1>11. Spells(t, nxt[h], nxt) BY <1>5, <1>9, <1>10 DEF Spells
  <1> QED BY <1>3, <1>5, <1>6, <1>7, <1>11 DEF t

-----------------------------------------------------------------------------
(* The inductive invariant: there are sequences that the links spell.      *)

Types ==
  /\ head \in [Lists -> Pointer]
  /\ size \in [Lists -> Nat]
  /\ next \in [Elements -> Pointer]
  /\ rank \in [Elements -> Ranks]
  /\ held \subseteq Elements
  /\ pc \in {"client", "walk"}
  /\ pc = "walk" => heap \in Lists /\ elt \in Elements /\ elt \notin held

\* Nobody is in two places of the lists.
Apart(Q) ==
  \A l, m \in Lists : \A i \in 1 .. Len(Q[l]), j \in 1 .. Len(Q[m]) :
    Q[l][i] = Q[m][j] => l = m /\ i = j

\* Nobody of S is in a list.
Without(Q, S) == \A l \in Lists : \A i \in 1 .. Len(Q[l]) : Q[l][i] \notin S

\* The elements whose fields the kernel may write: the ones that the scheduler
\* holds and the one that is being inserted.
Free == IF pc = "walk" THEN held \cup {elt} ELSE held

\* The loop of insert_elt has passed the first k elements of q, which all stay in
\* front of elt.
Passed(q, k) ==
  /\ prev = IF k = 0 THEN Null ELSE q[k]
  /\ cur = Pointed(q, k + 1)
  /\ \A j \in 1 .. k : ~is_gt_priority(rank[elt], rank[q[j]])

Represents(Q) ==
  /\ Q \in [Lists -> Seq(Elements)]
  /\ \A l \in Lists : Spells(Q[l], head[l], next) /\ size[l] = Len(Q[l])
  /\ Apart(Q)
  /\ Without(Q, Free)
  /\ pc = "walk" => \E k \in 0 .. Len(Q[heap]) : Passed(Q[heap], k)

ListInv == Types /\ \E Q : Represents(Q)

\* What a step does to the sequences.
Stays(Q, R) == R = Q /\ rank' = rank
Ranked(Q, R) ==
  /\ R = Q
  /\ \E e \in Elements, r \in Ranks : Without(Q, {e}) /\ rank' = [rank EXCEPT ![e] = r]
Grows(Q, R) ==
  /\ rank' = rank
  /\ \E l \in Lists, e \in Elements : \E k \in Queues!insert_places(rank, Q[l], e) :
       Without(Q, {e}) /\ R = [Q EXCEPT ![l] = With(Q[l], k, e)]
Shrinks(Q, R) ==
  /\ rank' = rank
  /\ \E l \in Lists : Q[l] # <<>> /\ R = [Q EXCEPT ![l] = Tail(Q[l])]

QueueStep(Q, R) == Stays(Q, R) \/ Ranked(Q, R) \/ Grows(Q, R) \/ Shrinks(Q, R)

LEMMA ApartDistinct ==
  ASSUME NEW Q, Apart(Q), NEW l \in Lists
  PROVE  Distinct(Q[l])
PROOF BY DEF Apart, Distinct

\* Writing the links of free elements changes no list.
LEMMA SpellsFrame ==
  ASSUME NEW q, NEW h, NEW nxt, Spells(q, h, nxt), NEW nxt2,
         \A j \in 1 .. Len(q) : nxt2[q[j]] = nxt[q[j]]
  PROVE  Spells(q, h, nxt2)
PROOF BY DEF Spells

LEMMA ListInvInit == Init => ListInv
PROOF
  <1> SUFFICES ASSUME Init PROVE ListInv OBVIOUS
  <1> DEFINE Q == [l \in Lists |-> <<>>]
  <1>1. <<>> \in Seq(Elements) /\ Len(<<>>) = 0 OBVIOUS
  <1>2. Q \in [Lists -> Seq(Elements)] /\ \A l \in Lists : Q[l] = <<>> BY <1>1
  <1>3. Pointed(<<>>, 1) = Null BY <1>1 DEF Pointed
  <1>4. \A l \in Lists : Spells(Q[l], head[l], next) /\ size[l] = Len(Q[l])
    BY <1>1, <1>2, <1>3 DEF Init, Spells
  <1> HIDE DEF Q
  <1>5. Apart(Q) /\ Without(Q, Free) BY <1>1, <1>2 DEF Apart, Without
  <1>6. Represents(Q) BY <1>2, <1>4, <1>5 DEF Init, Represents
  <1>7. Types
    <2>1. next \in [Elements -> Pointer]
      <3>1. PICK reserve \in SUBSET Elements : \E first \in reserve \cup {Null} :
              next = [e \in Elements |-> IF e \in reserve THEN first ELSE Null]
        BY DEF Init
      <3> QED BY <3>1 DEF Pointer
    <2> QED BY <2>1 DEF Init, Types, Pointer
  <1> QED BY <1>6, <1>7 DEF ListInv

LEMMA RankKeeps ==
  ASSUME Types, NEW Q, Represents(Q), NEW e \in Elements, NEW r \in Ranks, set_rank(e, r)
  PROVE  Types' /\ Represents(Q)' /\ QueueStep(Q, Q)
PROOF
  <1>1. /\ pc = "client" /\ e \in held /\ rank' = [rank EXCEPT ![e] = r]
        /\ UNCHANGED <<head, size, next, held, pc, heap, elt, cur, prev>>
    BY DEF set_rank, locals
  <1>2. Types' BY <1>1 DEF Types
  <1>3. Represents(Q)' BY <1>1 DEF Represents, Free
  <1>4. Without(Q, {e}) BY <1>1 DEF Represents, Without, Free
  <1> QED BY <1>1, <1>2, <1>3, <1>4 DEF QueueStep, Ranked

LEMMA CopyKeeps ==
  ASSUME Types, NEW Q, Represents(Q), NEW d \in Elements, NEW s \in Elements, copy_context(d, s)
  PROVE  Types' /\ Represents(Q)' /\ QueueStep(Q, Q)
PROOF
  <1>1. /\ pc = "client" /\ d \in held
        /\ rank' = [rank EXCEPT ![d] = rank[s]] /\ next' = [next EXCEPT ![d] = next[s]]
        /\ UNCHANGED <<head, size, held, pc, heap, elt, cur, prev>>
    BY DEF copy_context, locals
  <1>2. Types' BY <1>1 DEF Types
  <1>3. /\ Q \in [Lists -> Seq(Elements)] /\ Apart(Q) /\ Without(Q, held)
        /\ \A l \in Lists : Spells(Q[l], head[l], next) /\ size[l] = Len(Q[l])
    BY <1>1 DEF Represents, Free
  <1>4. ASSUME NEW l \in Lists PROVE Spells(Q[l], head[l], next')
    <2>1. \A j \in 1 .. Len(Q[l]) : Q[l][j] # d BY <1>1, <1>3 DEF Without
    <2>2. \A j \in 1 .. Len(Q[l]) : Q[l][j] \in Elements BY <1>3
    <2>3. \A j \in 1 .. Len(Q[l]) : next'[Q[l][j]] = next[Q[l][j]] BY <1>1, <2>1, <2>2 DEF Types
    <2> QED BY <1>3, <2>3, SpellsFrame
  <1>5. Represents(Q)' BY <1>1, <1>3, <1>4 DEF Represents, Free
  <1>6. Without(Q, {d}) BY <1>1, <1>3 DEF Without
  <1>7. rank[s] \in Ranks BY DEF Types
  <1> QED BY <1>1, <1>2, <1>5, <1>6, <1>7 DEF QueueStep, Ranked

\* What insert_elt writes to put e at place k of the list l, which spells q.
Splices(q, l, e, k) ==
  /\ k \in 1 .. Len(q) + 1
  /\ next'[e] = Pointed(q, k)
  /\ k > 1 => next'[q[k - 1]] = e
  /\ \A x \in Elements \ {e} : (k > 1 => x # q[k - 1]) => next'[x] = next[x]
  /\ head' = [head EXCEPT ![l] = IF k = 1 THEN e ELSE head[l]]
  /\ size' = [size EXCEPT ![l] = size[l] + 1]

Grown(Q, l, e, k) == [Q EXCEPT ![l] = With(Q[l], k, e)]

\* The memory holds the lists R once the step is done, and they leave out S.
Written(R, S) ==
  /\ R \in [Lists -> Seq(Elements)]
  /\ \A m \in Lists : Spells(R[m], head'[m], next') /\ size'[m] = Len(R[m])
  /\ Apart(R)
  /\ Without(R, S)
  /\ size' \in [Lists -> Nat]

\* The lists after an insertion.
LEMMA GrownLists ==
  ASSUME Types, NEW Q, Represents(Q), NEW l \in Lists, NEW e \in Elements,
         NEW S, Without(Q, S), Without(Q, {e}), e \notin S,
         NEW k, Splices(Q[l], l, e, k),
         NEW R, R = Grown(Q, l, e, k)
  PROVE  Written(R, S)
PROOF
  <1> USE DEF Splices, Grown
  <1> DEFINE q == Q[l]
             w == With(q, k, e)
  <1>1. /\ Q \in [Lists -> Seq(Elements)] /\ Apart(Q) /\ q \in Seq(Elements)
        /\ \A m \in Lists : Spells(Q[m], head[m], next) /\ size[m] = Len(Q[m])
    BY DEF Represents
  <1>2. Distinct(q) BY <1>1, ApartDistinct
  <1>3. Len(q) \in Nat /\ \A j \in 1 .. Len(q) : q[j] # e /\ q[j] \in Elements BY <1>1 DEF Without
  <1>4. w \in Seq(Elements) /\ Len(w) = Len(q) + 1 BY <1>1, WithElements
  <1>5. \A i \in 1 .. Len(q) + 1 :
          \/ i = k /\ w[i] = e
          \/ \E j \in 1 .. Len(q) : w[i] = q[j] /\ i = (IF j < k THEN j ELSE j + 1)
    BY <1>1, WithPlaces
  <1>6. Distinct(w) BY <1>1, <1>2, <1>3, WithDistinct
  <1>7. k - 1 \in 1 .. Len(q) \/ k = 1 BY <1>3
  <1>8. Spells(w, IF k = 1 THEN e ELSE head[l], next')
    <2>1. ASSUME NEW j \in 1 .. Len(q), j # k - 1 PROVE next'[q[j]] = next[q[j]]
      <3>1. k > 1 => q[j] # q[k - 1] BY <1>2, <1>3, <1>7, <2>1 DEF Distinct
      <3> QED BY <1>3, <3>1
    <2>2. Spells(q, head[l], next) BY <1>1
    <2>3. next'[e] = Pointed(q, k) /\ (k > 1 => next'[q[k - 1]] = e) OBVIOUS
    <2>4. PICK h2 : h2 = IF k = 1 THEN e ELSE head[l] OBVIOUS
    <2>5. w = With(q, k, e) /\ k \in 1 .. Len(q) + 1 /\ \A j \in 1 .. Len(q) : q[j] # e BY <1>3
    <2> HIDE DEF q, w
    <2>6. Spells(w, h2, next') BY <1>2, <2>1, <2>2, <2>3, <2>4, <2>5, WithSpells
    <2> QED BY <2>4, <2>6
  <1>9. R \in [Lists -> Seq(Elements)] /\ R[l] = w /\ \A m \in Lists : m # l => R[m] = Q[m]
    <2>1. R = [Q EXCEPT ![l] = w] OBVIOUS
    <2> HIDE DEF w
    <2> QED BY <1>1, <1>4, <2>1
  <1>10. ASSUME NEW m \in Lists, m # l PROVE Spells(Q[m], head[m], next')
    <2>1. \A j \in 1 .. Len(Q[m]) : Q[m][j] # e /\ Q[m][j] \in Elements BY <1>1 DEF Without
    <2>2. ASSUME NEW j \in 1 .. Len(Q[m]), k > 1 PROVE Q[m][j] # q[k - 1]
      <3>1. k - 1 \in 1 .. Len(q) BY <1>3, <2>2
      <3> QED BY <1>1, <1>10, <3>1 DEF Apart
    <2>3. \A j \in 1 .. Len(Q[m]) : next'[Q[m][j]] = next[Q[m][j]] BY <2>1, <2>2
    <2> QED BY <1>1, <2>3, SpellsFrame
  <1> HIDE DEF w
  <1>11. ASSUME NEW m \in Lists PROVE Spells(R[m], head'[m], next') /\ size'[m] = Len(R[m])
    <2>1. CASE m = l
      <3>1. head'[m] = IF k = 1 THEN e ELSE head[l] BY <2>1 DEF Types
      <3>2. size'[m] = size[l] + 1 BY <2>1 DEF Types
      <3>3. size[l] = Len(q) BY <1>1
      <3> QED BY <1>4, <1>8, <1>9, <2>1, <3>1, <3>2, <3>3
    <2>2. CASE m # l
      <3>1. head'[m] = head[m] /\ size'[m] = size[m] BY <2>2 DEF Types
      <3> QED BY <1>1, <1>9, <1>10, <2>2, <3>1
    <2> QED BY <2>1, <2>2
  <1>12. Apart(R)
    <2> SUFFICES ASSUME NEW m \in Lists, NEW o \in Lists,
                        NEW i \in 1 .. Len(R[m]), NEW j \in 1 .. Len(R[o]), R[m][i] = R[o][j]
                 PROVE  m = o /\ i = j
      BY DEF Apart
    <2>1. CASE m = l /\ o = l BY <1>6, <1>9, <2>1 DEF Distinct
    <2>2. CASE m = l /\ o # l
      <3>1. w[i] = Q[o][j] /\ i \in 1 .. Len(q) + 1 /\ j \in 1 .. Len(Q[o]) BY <1>4, <1>9, <2>2
      <3>2. Q[o][j] # e BY <3>1 DEF Without
      <3>3. PICK c \in 1 .. Len(q) : w[i] = q[c] BY <1>5, <3>1, <3>2
      <3>4. Q[l][c] = Q[o][j] /\ c \in 1 .. Len(Q[l]) BY <3>1, <3>3
      <3>5. l = o BY <1>1, <3>1, <3>4 DEF Apart
      <3> QED BY <2>2, <3>5
    <2>3. CASE m # l /\ o = l
      <3>1. w[j] = Q[m][i] /\ j \in 1 .. Len(q) + 1 /\ i \in 1 .. Len(Q[m]) BY <1>4, <1>9, <2>3
      <3>2. Q[m][i] # e BY <3>1 DEF Without
      <3>3. PICK c \in 1 .. Len(q) : w[j] = q[c] BY <1>5, <3>1, <3>2
      <3>4. Q[l][c] = Q[m][i] /\ c \in 1 .. Len(Q[l]) BY <3>1, <3>3
      <3>5. l = m BY <1>1, <3>1, <3>4 DEF Apart
      <3> QED BY <2>3, <3>5
    <2>4. CASE m # l /\ o # l BY <1>1, <1>9, <2>4 DEF Apart
    <2> QED BY <2>1, <2>2, <2>3, <2>4
  <1>13. Without(R, S)
    <2> SUFFICES ASSUME NEW m \in Lists, NEW i \in 1 .. Len(R[m]) PROVE R[m][i] \notin S BY DEF Without
    <2>1. CASE m = l
      <3>1. i \in 1 .. Len(q) + 1 /\ R[m][i] = w[i] BY <1>4, <1>9, <2>1
      <3>2. CASE w[i] = e BY <3>1, <3>2
      <3>3. CASE w[i] # e
        <4>1. PICK c \in 1 .. Len(q) : w[i] = q[c] BY <1>5, <3>1, <3>3
        <4> QED BY <3>1, <4>1 DEF Without
      <3> QED BY <3>2, <3>3
    <2>2. CASE m # l BY <1>9, <2>2 DEF Without
    <2> QED BY <2>1, <2>2
  <1>14. size' \in [Lists -> Nat] BY DEF Types
  <1> QED BY <1>9, <1>11, <1>12, <1>13, <1>14 DEF Written

\* insert_elt, when the list is empty.
LEMMA FirstKeeps ==
  ASSUME Types, NEW Q, Represents(Q), NEW l \in Lists, NEW e \in Elements,
         insert_elt(l, e), head[l] = Null
  PROVE  Types' /\ \E R : Represents(R)' /\ QueueStep(Q, R)
PROOF
  <1>1. /\ pc = "client" /\ e \in held /\ held' = held \ {e} /\ rank' = rank
        /\ head' = [head EXCEPT ![l] = e] /\ next' = [next EXCEPT ![e] = Null]
        /\ size' = [size EXCEPT ![l] = @ + 1]
        /\ UNCHANGED <<pc, heap, elt, cur, prev>>
    BY DEF insert_elt, locals
  <1>2. /\ Q \in [Lists -> Seq(Elements)] /\ Without(Q, held)
        /\ Spells(Q[l], head[l], next)
    BY <1>1 DEF Represents, Free
  <1>3. Q[l] \in Seq(Elements) /\ Len(Q[l]) \in Nat BY <1>2
  <1>4. Len(Q[l]) = 0
    <2> SUFFICES ASSUME Len(Q[l]) # 0 PROVE FALSE OBVIOUS
    <2>1. 1 \in 1 .. Len(Q[l]) BY <1>3
    <2>2. Q[l][1] \in Elements /\ head[l] = Q[l][1] BY <1>2, <1>3, <2>1 DEF Spells, Pointed
    <2> QED BY <2>2, ListAssumption
  <1>5. Without(Q, held') /\ Without(Q, {e}) /\ e \notin held' BY <1>1, <1>2 DEF Without
  <1>6. PICK k \in 1 .. Len(Q[l]) + 1 : k = 1 BY <1>4
  <1>7. PICK R : R = Grown(Q, l, e, k) OBVIOUS
  <1>8. next'[e] = Pointed(Q[l], k) BY <1>1, <1>4, <1>6 DEF Pointed, Types
  <1>9. ~(k > 1) BY <1>6
  <1>10. \A x \in Elements \ {e} : next'[x] = next[x] BY <1>1 DEF Types
  <1>11. head' = [head EXCEPT ![l] = IF k = 1 THEN e ELSE head[l]] BY <1>1, <1>6
  <1>12. size' = [size EXCEPT ![l] = size[l] + 1] BY <1>1 DEF Types
  <1>13. /\ R \in [Lists -> Seq(Elements)]
         /\ \A m \in Lists : Spells(R[m], head'[m], next') /\ size'[m] = Len(R[m])
         /\ Apart(R) /\ Without(R, held') /\ size' \in [Lists -> Nat]
    <2>1. Splices(Q[l], l, e, k) BY <1>8, <1>9, <1>10, <1>11, <1>12 DEF Splices
    <2>2. Written(R, held') BY <1>5, <1>7, <2>1, GrownLists
    <2> QED BY <2>2 DEF Written
  <1>14. Represents(R)' BY <1>1, <1>13 DEF Represents, Free
  <1>15. Types'
    <2>1. head' \in [Lists -> Pointer] /\ next' \in [Elements -> Pointer] BY <1>1 DEF Types, Pointer
    <2> QED BY <1>1, <1>13, <2>1 DEF Types
  <1>16. k \in Queues!insert_places(rank, Q[l], e) BY <1>4, <1>6 DEF Queues!insert_places
  <1>17. Grows(Q, R) BY <1>1, <1>5, <1>7, <1>16 DEF Grows, Grown
  <1> QED BY <1>14, <1>15, <1>17 DEF QueueStep

\* insert_elt, when it enters its loop.
LEMMA WalkStarts ==
  ASSUME Types, NEW Q, Represents(Q), NEW l \in Lists, NEW e \in Elements,
         insert_elt(l, e), head[l] # Null
  PROVE  Types' /\ Represents(Q)' /\ QueueStep(Q, Q)
PROOF
  <1>1. /\ pc = "client" /\ e \in held /\ held' = held \ {e} /\ rank' = rank
        /\ heap' = l /\ elt' = e /\ cur' = head[l] /\ prev' = Null /\ pc' = "walk"
        /\ UNCHANGED <<head, size, next>>
    BY DEF insert_elt
  <1>2. Types' BY <1>1 DEF Types
  <1>3. Free' = Free BY <1>1 DEF Free
  <1>4. Q \in [Lists -> Seq(Elements)] /\ Spells(Q[l], head[l], next) BY DEF Represents
  <1>5. 0 \in 0 .. Len(Q[l]) BY <1>4
  <1>6. Passed(Q[l], 0)' BY <1>1, <1>4 DEF Passed, Spells
  <1>7. Represents(Q)' BY <1>1, <1>3, <1>5, <1>6 DEF Represents
  <1> QED BY <1>1, <1>2, <1>7 DEF QueueStep, Stays

\* An iteration of the loop of insert_elt.
LEMMA NextKeeps ==
  ASSUME Types, NEW Q, Represents(Q), insert_elt_next
  PROVE  Types' /\ Represents(Q)' /\ QueueStep(Q, Q)
PROOF
  <1>1. /\ pc = "walk" /\ cur # Null /\ ~is_gt_priority(rank[elt], rank[cur])
        /\ prev' = cur /\ cur' = next[cur]
        /\ UNCHANGED <<head, size, next, rank, held, pc, heap, elt>>
    BY DEF insert_elt_next, goes_before
  <1>2. Types' /\ heap \in Lists BY <1>1 DEF Types
  <1>3. Free' = Free BY <1>1 DEF Free
  <1>4. Q \in [Lists -> Seq(Elements)] /\ Spells(Q[heap], head[heap], next) BY <1>2 DEF Represents
  <1>5. PICK k \in 0 .. Len(Q[heap]) : Passed(Q[heap], k) BY <1>1 DEF Represents
  <1>6. k + 1 \in 1 .. Len(Q[heap]) /\ cur = Q[heap][k + 1] BY <1>1, <1>5 DEF Passed, Pointed
  <1>7. Len(Q[heap]) \in Nat BY <1>2, <1>4
  <1>8. k + 1 \in 0 .. Len(Q[heap]) /\ k + 1 # 0 BY <1>6, <1>7
  <1>9. cur' = Pointed(Q[heap], (k + 1) + 1) BY <1>1, <1>4, <1>6 DEF Spells
  <1>10. \A j \in 1 .. k + 1 : ~is_gt_priority(rank[elt], rank[Q[heap][j]])
    <2> TAKE j \in 1 .. k + 1
    <2>1. j \in 1 .. k \/ j = k + 1 BY <1>7
    <2> QED BY <1>1, <1>5, <1>6, <2>1 DEF Passed
  <1>11. Passed(Q[heap], k + 1)' BY <1>1, <1>6, <1>8, <1>9, <1>10 DEF Passed
  <1>12. \E n \in 0 .. Len(Q[heap]) : Passed(Q[heap], n)' BY <1>8, <1>11
  <1>13. Represents(Q)' BY <1>1, <1>3, <1>12 DEF Represents
  <1> QED BY <1>1, <1>2, <1>13 DEF QueueStep, Stays

\* The end of insert_elt.
LEMMA EndKeeps ==
  ASSUME Types, NEW Q, Represents(Q), insert_elt_end
  PROVE  Types' /\ \E R : Represents(R)' /\ QueueStep(Q, R)
PROOF
  <1>1. /\ pc = "walk" /\ (cur = Null \/ is_gt_priority(rank[elt], rank[cur]))
        /\ head' = IF prev = Null THEN [head EXCEPT ![heap] = elt] ELSE head
        /\ next' = links /\ size' = [size EXCEPT ![heap] = @ + 1]
        /\ pc' = "client" /\ rank' = rank /\ held' = held
    BY DEF insert_elt_end, goes_before
  <1>2. PICK l \in Lists, e \in Elements : l = heap /\ e = elt BY <1>1 DEF Types
  <1>3. e \notin held BY <1>1, <1>2 DEF Types
  <1>4. /\ Q \in [Lists -> Seq(Elements)] /\ Spells(Q[l], head[l], next)
        /\ Without(Q, held \cup {e})
    BY <1>1, <1>2 DEF Represents, Free
  <1>5. PICK n \in 0 .. Len(Q[l]) : Passed(Q[l], n) BY <1>1, <1>2 DEF Represents
  <1>6. /\ prev = IF n = 0 THEN Null ELSE Q[l][n]
        /\ cur = Pointed(Q[l], n + 1)
        /\ \A j \in 1 .. n : ~is_gt_priority(rank[e], rank[Q[l][j]])
    BY <1>2, <1>5 DEF Passed
  <1>7. Q[l] \in Seq(Elements) /\ Len(Q[l]) \in Nat BY <1>4
  <1>8. PICK k \in 1 .. Len(Q[l]) + 1 : k = n + 1 BY <1>7
  <1>9. n \in Nat /\ k - 1 = n /\ (k > 1 <=> n # 0) /\ (k = 1 <=> n = 0) BY <1>7, <1>8
  <1>10. n # 0 => n \in 1 .. Len(Q[l]) /\ Q[l][n] \in Elements BY <1>7, <1>9
  <1>11. prev = Null <=> n = 0 BY <1>6, <1>10, ListAssumption
  <1>12. Without(Q, held) /\ Without(Q, {e}) BY <1>4 DEF Without
  <1>13. n # 0 => Q[l][n] # e BY <1>10, <1>12 DEF Without
  <1>14. cur \in Pointer
    <2>1. CASE n + 1 \in 1 .. Len(Q[l]) BY <1>6, <1>7, <2>1 DEF Pointed, Pointer
    <2>2. CASE n + 1 \notin 1 .. Len(Q[l]) BY <1>6, <2>2 DEF Pointed, Pointer
    <2> QED BY <2>1, <2>2
  <1>15. /\ next' \in [Elements -> Pointer]
         /\ next'[e] = Pointed(Q[l], k)
         /\ n # 0 => next'[Q[l][n]] = e
         /\ \A x \in Elements \ {e} : (n # 0 => x # Q[l][n]) => next'[x] = next[x]
    <2>1. CASE n = 0
      <3>1. next' = [next EXCEPT ![e] = cur] BY <1>1, <1>2, <1>11, <2>1 DEF links
      <3> QED BY <1>6, <1>8, <1>14, <2>1, <3>1 DEF Types
    <2>2. CASE n # 0
      <3>1. PICK p \in Elements : p = Q[l][n] /\ p # e BY <1>10, <1>13, <2>2
      <3>2. next' = [next EXCEPT ![p] = e, ![e] = cur] BY <1>1, <1>2, <1>6, <1>11, <2>2, <3>1 DEF links
      <3>3. next'[e] = cur /\ next'[p] = e /\ next' \in [Elements -> Pointer]
        BY <1>14, <3>1, <3>2 DEF Types, Pointer
      <3>4. \A x \in Elements \ {e} : x # p => next'[x] = next[x] BY <3>2 DEF Types
      <3> QED BY <1>6, <1>8, <2>2, <3>1, <3>3, <3>4
    <2> QED BY <2>1, <2>2
  <1>16. k > 1 => next'[Q[l][k - 1]] = e BY <1>9, <1>15
  <1>17. \A x \in Elements \ {e} : (k > 1 => x # Q[l][k - 1]) => next'[x] = next[x] BY <1>9, <1>15
  <1>18. head' = [head EXCEPT ![l] = IF k = 1 THEN e ELSE head[l]] BY <1>1, <1>2, <1>9, <1>11 DEF Types
  <1>19. size' = [size EXCEPT ![l] = size[l] + 1] BY <1>1, <1>2 DEF Types
  <1>20. PICK R : R = Grown(Q, l, e, k) OBVIOUS
  <1>21. next'[e] = Pointed(Q[l], k) BY <1>15
  <1>22. /\ R \in [Lists -> Seq(Elements)]
         /\ \A m \in Lists : Spells(R[m], head'[m], next') /\ size'[m] = Len(R[m])
         /\ Apart(R) /\ Without(R, held) /\ size' \in [Lists -> Nat]
    <2>1. Splices(Q[l], l, e, k) BY <1>16, <1>17, <1>18, <1>19, <1>21 DEF Splices
    <2>2. Written(R, held) BY <1>3, <1>12, <1>20, <2>1, GrownLists
    <2> QED BY <2>2 DEF Written
  <1>23. Represents(R)' BY <1>1, <1>22 DEF Represents, Free
  <1>24. Types'
    <2>1. head' \in [Lists -> Pointer] BY <1>18 DEF Types, Pointer
    <2> QED BY <1>1, <1>15, <1>22, <2>1 DEF Types
  <1>25. k \in Queues!insert_places(rank, Q[l], e)
    <2>1. \A j \in 1 .. k - 1 : ~(rank[e] < rank[Q[l][j]]) BY <1>6, <1>9 DEF is_gt_priority
    <2>2. ASSUME k <= Len(Q[l]) PROVE rank[e] < rank[Q[l][k]]
      <3>1. k \in 1 .. Len(Q[l]) BY <1>7, <2>2
      <3>2. cur = Q[l][k] /\ cur \in Elements BY <1>6, <1>7, <1>8, <3>1 DEF Pointed
      <3> QED BY <1>1, <1>2, <3>2, ListAssumption DEF is_gt_priority
    <2> QED BY <2>1, <2>2 DEF Queues!insert_places, Queues!is_gt_priority
  <1>26. Grows(Q, R) BY <1>1, <1>12, <1>20, <1>25 DEF Grows, Grown
  <1> QED BY <1>23, <1>24, <1>26 DEF QueueStep

\* remove_elt: its assertion holds.
LEMMA RemoveKeeps ==
  ASSUME Types, NEW Q, Represents(Q), NEW l \in Lists, remove_elt(l)
  PROVE  Types' /\ \E R : Represents(R)' /\ QueueStep(Q, R)
PROOF
  <1> DEFINE q == Q[l]
             t == Tail(q)
  <1>1. pc = "client" /\ size[l] > 0 /\ UNCHANGED <<next, rank, heap, elt, cur, prev>>
    BY DEF remove_elt, locals
  <1>2. /\ Q \in [Lists -> Seq(Elements)] /\ Apart(Q) /\ Without(Q, held) /\ q \in Seq(Elements)
        /\ \A m \in Lists : Spells(Q[m], head[m], next) /\ size[m] = Len(Q[m])
    BY <1>1 DEF Represents, Free
  <1>3. q # <<>> /\ Distinct(q) /\ Spells(q, head[l], next) BY <1>1, <1>2, ApartDistinct
  <1>4. /\ head[l] = q[1] /\ head[l] \in Elements /\ 1 \in 1 .. Len(q)
        /\ Spells(t, next[head[l]], next)
        /\ Len(t) = Len(q) - 1
        /\ \A j \in 1 .. Len(t) : t[j] = q[j + 1] /\ j + 1 \in 1 .. Len(q)
    BY <1>3, TailSpells
  <1>5. head[l] # Null BY <1>4, ListAssumption
  <1>6. /\ head' = [head EXCEPT ![l] = next[head[l]]] /\ size' = [size EXCEPT ![l] = @ - 1]
        /\ held' = held \cup {head[l]} /\ pc' = pc
    BY <1>5 DEF remove_elt
  <1>7. t \in Seq(Elements) /\ Len(t) \in Nat BY <1>2, <1>3
  <1>8. PICK R : R = [Q EXCEPT ![l] = t] OBVIOUS
  <1> HIDE DEF t
  <1>9. R \in [Lists -> Seq(Elements)] /\ R[l] = t /\ \A m \in Lists : m # l => R[m] = Q[m]
    BY <1>2, <1>7, <1>8
  <1>10. ASSUME NEW m \in Lists PROVE Spells(R[m], head'[m], next') /\ size'[m] = Len(R[m])
    <2>1. CASE m = l
      <3>1. head'[m] = next[head[l]] /\ size'[m] = size[l] - 1 BY <1>6, <2>1 DEF Types
      <3> QED BY <1>1, <1>2, <1>4, <1>9, <2>1, <3>1
    <2>2. CASE m # l BY <1>1, <1>2, <1>6, <1>9, <2>2 DEF Types
    <2> QED BY <2>1, <2>2
  \* Every place of R comes from one of Q, and not from the first of l.
  <1>11. ASSUME NEW m \in Lists, NEW i \in 1 .. Len(R[m])
         PROVE  \E c \in 1 .. Len(Q[m]) : R[m][i] = Q[m][c] /\ c = (IF m = l THEN i + 1 ELSE i)
    <2>1. CASE m = l BY <1>4, <1>9, <2>1
    <2>2. CASE m # l BY <1>9, <2>2
    <2> QED BY <2>1, <2>2
  <1>12. Apart(R)
    <2> SUFFICES ASSUME NEW m \in Lists, NEW o \in Lists,
                        NEW i \in 1 .. Len(R[m]), NEW j \in 1 .. Len(R[o]), R[m][i] = R[o][j]
                 PROVE  m = o /\ i = j
      BY DEF Apart
    <2>1. PICK c \in 1 .. Len(Q[m]) : R[m][i] = Q[m][c] /\ c = (IF m = l THEN i + 1 ELSE i) BY <1>11
    <2>2. PICK d \in 1 .. Len(Q[o]) : R[o][j] = Q[o][d] /\ d = (IF o = l THEN j + 1 ELSE j) BY <1>11
    <2>3. m = o /\ c = d
      <3>1. Q[m][c] = Q[o][d] BY <2>1, <2>2
      <3> QED BY <1>2, <3>1 DEF Apart
    <2> QED BY <2>1, <2>2, <2>3
  <1>13. Without(R, held')
    <2> SUFFICES ASSUME NEW m \in Lists, NEW i \in 1 .. Len(R[m]) PROVE R[m][i] \notin held' BY DEF Without
    <2>1. PICK c \in 1 .. Len(Q[m]) : R[m][i] = Q[m][c] /\ c = (IF m = l THEN i + 1 ELSE i) BY <1>11
    <2>2. Q[m][c] \notin held BY <1>2 DEF Without
    <2>3. Q[m][c] # head[l]
      <3> SUFFICES ASSUME Q[m][c] = head[l] PROVE FALSE OBVIOUS
      <3>1. Q[m][c] = Q[l][1] /\ 1 \in 1 .. Len(Q[l]) BY <1>4
      <3>2. m = l /\ c = 1 BY <1>2, <3>1 DEF Apart
      <3> QED BY <2>1, <3>2
    <2> QED BY <1>6, <2>1, <2>2, <2>3
  <1>14. Represents(R)' BY <1>1, <1>6, <1>9, <1>10, <1>12, <1>13 DEF Represents, Free
  <1>15. Types'
    <2>1. head' \in [Lists -> Pointer]
      <3>1. next[head[l]] \in Pointer BY <1>4 DEF Types
      <3> QED BY <1>6, <3>1 DEF Types
    <2>2. size' \in [Lists -> Nat]
      <3>1. size[l] - 1 \in Nat BY <1>1 DEF Types
      <3> QED BY <1>6, <3>1 DEF Types
    <2> QED BY <1>1, <1>4, <1>6, <2>1, <2>2 DEF Types
  <1>16. Shrinks(Q, R) BY <1>1, <1>3, <1>8 DEF Shrinks, t
  <1> QED BY <1>14, <1>15, <1>16 DEF QueueStep

LEMMA ListStep ==
  ASSUME Types, NEW Q, Represents(Q), [Next]_vars
  PROVE  Types' /\ \E R : Represents(R)' /\ QueueStep(Q, R)
PROOF
  <1>1. ASSUME NEW e \in Elements, NEW r \in Ranks, set_rank(e, r)
        PROVE  Types' /\ \E R : Represents(R)' /\ QueueStep(Q, R)
    BY <1>1, RankKeeps
  <1>2. ASSUME NEW d \in Elements, NEW s \in Elements, copy_context(d, s)
        PROVE  Types' /\ \E R : Represents(R)' /\ QueueStep(Q, R)
    BY <1>2, CopyKeeps
  <1>3. ASSUME NEW l \in Lists, NEW e \in Elements, insert_elt(l, e)
        PROVE  Types' /\ \E R : Represents(R)' /\ QueueStep(Q, R)
    <2>1. CASE head[l] = Null BY <1>3, <2>1, FirstKeeps
    <2>2. CASE head[l] # Null BY <1>3, <2>2, WalkStarts
    <2> QED BY <2>1, <2>2
  <1>4. CASE insert_elt_next BY <1>4, NextKeeps
  <1>5. CASE insert_elt_end BY <1>5, EndKeeps
  <1>6. ASSUME NEW l \in Lists, remove_elt(l)
        PROVE  Types' /\ \E R : Represents(R)' /\ QueueStep(Q, R)
    BY <1>6, RemoveKeeps
  <1>7. CASE UNCHANGED vars
    <2>1. Types' BY <1>7 DEF Types, vars
    <2>2. Represents(Q)' BY <1>7 DEF Represents, Free, Passed, vars
    <2>3. Stays(Q, Q) BY <1>7 DEF Stays, vars
    <2> QED BY <2>1, <2>2, <2>3 DEF QueueStep
  <1> QED BY <1>1, <1>2, <1>3, <1>4, <1>5, <1>6, <1>7 DEF Next

LEMMA ListInvNext == ListInv /\ [Next]_vars => ListInv'
PROOF
  <1> SUFFICES ASSUME ListInv, [Next]_vars PROVE ListInv' OBVIOUS
  <1>1. PICK Q : Types /\ Represents(Q) BY DEF ListInv
  <1>2. Types' /\ \E R : Represents(R)' BY <1>1, ListStep
  <1> QED BY <1>2 DEF ListInv

LEMMA ListInvHolds == Spec => []ListInv
PROOF BY ListInvInit, ListInvNext, PTL DEF Spec

-----------------------------------------------------------------------------
(* What follows.                                                           *)

\* The sequences are the contents of the lists.
QueueFact == \A Q : Represents(Q) => [l \in Lists |-> Contents(l)] = Q

LEMMA QueueNow == QueueFact
PROOF
  <1> SUFFICES ASSUME NEW Q, Represents(Q) PROVE [l \in Lists |-> Contents(l)] = Q BY DEF QueueFact
  <1>1. /\ Q \in [Lists -> Seq(Elements)] /\ Apart(Q)
        /\ \A l \in Lists : Spells(Q[l], head[l], next)
    BY DEF Represents
  <1>2. \A l \in Lists : Contents(l) = Q[l] BY <1>1, ApartDistinct, ContentsAre
  <1> QED BY <1>1, <1>2

LEMMA QueueLater == QueueFact'
PROOF BY QueueNow, PTL

\* In every state that the kernel reaches the size of a list is the number of
\* elements its links reach, the assertion of remove_elt holds, and nobody is
\* reached twice, from two lists, or while the scheduler holds it.
THEOREM SizeCountsCorrect == Spec => []SizeCounts
PROOF
  <1>1. ListInv => SizeCounts
    <2> SUFFICES ASSUME ListInv PROVE SizeCounts OBVIOUS
    <2>1. PICK Q : Types /\ Represents(Q) BY DEF ListInv
    <2>2. \A l \in Lists : Contents(l) = Q[l]
      <3>1. [l \in Lists |-> Contents(l)] = Q BY <2>1, QueueNow DEF QueueFact
      <3> QED BY <3>1
    <2>3. pc # "failed" BY <2>1 DEF Types
    <2>4. \A l \in Lists : size[l] = Len(Q[l]) BY <2>1 DEF Represents
    <2>5. Apart(Q) /\ Without(Q, held) BY <2>1 DEF Represents, Without, Free
    <2> QED BY <2>2, <2>3, <2>4, <2>5 DEF SizeCounts, Apart, Without
  <1> QED BY <1>1, ListInvHolds, PTL

\* The linked lists implement the sorted queues of QueuePair: insert_elt puts the
\* element where insert_places says, in the step that ends its loop, remove_elt
\* takes the first one, and no other step changes a queue.
THEOREM ImplementsQueuesCorrect == Spec => ImplementsQueues
PROOF
  <1> DEFINE queue == [l \in Lists |-> Contents(l)]
  <1>1. Init => Queues!Init
    <2> SUFFICES ASSUME Init PROVE Queues!Init OBVIOUS
    <2>1. PICK Q : Represents(Q) BY ListInvInit DEF ListInv
    <2>2. queue = Q BY <2>1, QueueNow DEF QueueFact
    <2>3. Q \in [Lists -> Seq(Elements)] /\ \A l \in Lists : size[l] = Len(Q[l]) BY <2>1 DEF Represents
    <2>4. \A l \in Lists : Q[l] = <<>> BY <2>3 DEF Init
    <2>5. Q = [l \in Lists |-> <<>>] BY <2>3, <2>4
    <2>6. rank \in [Elements -> Ranks] BY DEF Init
    <2> QED BY <2>2, <2>5, <2>6 DEF Queues!Init
  <1>2. ListInv /\ [Next]_vars => [Queues!Next]_<<queue, rank>>
    <2> SUFFICES ASSUME ListInv, [Next]_vars PROVE [Queues!Next]_<<queue, rank>> OBVIOUS
    <2>1. PICK Q : Types /\ Represents(Q) BY DEF ListInv
    <2>2. PICK R : Represents(R)' /\ QueueStep(Q, R) BY <2>1, ListStep
    <2>3. queue = Q BY <2>1, QueueNow DEF QueueFact
    <2>4. queue' = R BY <2>2, QueueLater DEF QueueFact
    <2>5. Q \in [Lists -> Seq(Elements)] BY <2>1 DEF Represents
    <2>6. ASSUME NEW e \in Elements, Without(Q, {e}) PROVE e \in Queues!Outside
      <3>1. ASSUME NEW l \in Lists PROVE e \notin Queues!Range(Q[l])
        <4>1. DOMAIN Q[l] = 1 .. Len(Q[l]) BY <2>5
        <4> QED BY <2>6, <4>1 DEF Queues!Range, Without
      <3>2. \A l \in Lists : e \notin Queues!Range(queue[l]) BY <2>3, <3>1
      <3> QED BY <3>2 DEF Queues!Outside
    <2> HIDE DEF queue
    <2>7. CASE Stays(Q, R) BY <2>3, <2>4, <2>7 DEF Stays
    <2>8. CASE Ranked(Q, R)
      <3>1. PICK e \in Elements, r \in Ranks : Without(Q, {e}) /\ rank' = [rank EXCEPT ![e] = r]
        BY <2>8 DEF Ranked
      <3>2. queue' = queue BY <2>3, <2>4, <2>8 DEF Ranked
      <3>3. Queues!SetRank(e, r) BY <2>6, <3>1, <3>2 DEF Queues!SetRank, queue
      <3> QED BY <3>3 DEF Queues!Next
    <2>9. CASE Grows(Q, R)
      <3>1. PICK l \in Lists, e \in Elements : \E k \in Queues!insert_places(rank, Q[l], e) :
              Without(Q, {e}) /\ R = [Q EXCEPT ![l] = With(Q[l], k, e)]
        BY <2>9 DEF Grows
      <3>2. PICK k \in Queues!insert_places(rank, Q[l], e) :
              Without(Q, {e}) /\ R = [Q EXCEPT ![l] = With(Q[l], k, e)]
        BY <3>1
      <3>3. k \in Queues!insert_places(rank, queue[l], e) BY <2>3
      <3>4. queue' = [queue EXCEPT ![l] = Queues!insert_elt(queue[l], k, e)] BY <2>3, <2>4, <3>2 DEF With
      <3>5. rank' = rank BY <2>9 DEF Grows
      <3>6. Queues!Insert(l, e) BY <2>6, <3>2, <3>3, <3>4, <3>5 DEF Queues!Insert, queue
      <3> QED BY <3>6 DEF Queues!Next
    <2>10. CASE Shrinks(Q, R)
      <3>1. PICK l \in Lists : Q[l] # <<>> /\ R = [Q EXCEPT ![l] = Tail(Q[l])] BY <2>10 DEF Shrinks
      <3>2. queue[l] # <<>> /\ queue' = [queue EXCEPT ![l] = Queues!remove_elt(queue[l])]
        BY <2>3, <2>4, <3>1 DEF Queues!remove_elt
      <3>3. rank' = rank BY <2>10 DEF Shrinks
      <3>4. Queues!TakeFirst(l) BY <3>2, <3>3 DEF Queues!TakeFirst, queue
      <3> QED BY <3>4 DEF Queues!Next
    <2> QED BY <2>2, <2>7, <2>8, <2>9, <2>10 DEF QueueStep
  <1> QED BY <1>1, <1>2, ListInvHolds, PTL DEF Spec, ImplementsQueues, Queues!Spec
=============================================================================
