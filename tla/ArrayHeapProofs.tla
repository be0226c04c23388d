-------------------------- MODULE ArrayHeapProofs --------------------------
(***************************************************************************)
(* Proofs about ArrayHeap, for every array length, every set of contexts   *)
(* and every priorities.                                                   *)
(***************************************************************************)
EXTENDS ArrayHeap, WellFoundedInduction, TLAPS

-----------------------------------------------------------------------------
\* A set of numbers has a least element: induction, for sets.
LEMMA LeastElement ==
  ASSUME NEW T \in SUBSET Nat, T # {}
  PROVE  \E m \in T : \A n \in T : m <= n
PROOF
  <1> DEFINE R == OpToRel(<, Nat)
  <1>1. IsWellFoundedOn(R, Nat) BY NatLessThanWellFounded
  <1>2. \A x, y \in Nat : y < x => <<y, x>> \in R BY DEF OpToRel
  <1> HIDE DEF R
  <1>3. PICK x \in T : \A y \in T : ~(<<y, x>> \in R) BY <1>1, WFMin
  <1>4. \A y \in T : ~(y < x) BY <1>2, <1>3
  <1>5. x \in Nat OBVIOUS
  <1>6. \A y \in T : x <= y BY <1>4, <1>5
  <1> QED BY <1>6

-----------------------------------------------------------------------------
(* Heaps of n cells, outside of the loops and inside.                      *)

\* a holds n different elements.
Stores(a, n) ==
  /\ \A k \in 0 .. n - 1 : a[k] \in Elts
  /\ \A j, k \in 0 .. n - 1 : a[j] = a[k] => j = k

\* The element of cell k does not precede the one of cell j.
Below(a, j, k) == prio[a[j]] <= prio[a[k]]

Heaped(a, n) == \A k \in 1 .. n - 1 : Below(a, parent(k), k)

\* A heap but for the element of cell h, which may precede its parent (it rises).
HeapedButAbove(a, n, h) ==
  /\ \A k \in 1 .. n - 1 : k # h => Below(a, parent(k), k)
  /\ \A k \in 1 .. n - 1 : parent(k) = h /\ h # 0 => Below(a, parent(h), k)

\* A heap but for the element of cell h, which its children may precede (it sinks).
HeapedButBelow(a, n, h) ==
  /\ \A k \in 1 .. n - 1 : parent(k) # h => Below(a, parent(k), k)
  /\ \A k \in 1 .. n - 1 : parent(k) = h /\ h # 0 => Below(a, parent(h), k)

\* a with the elements of two cells exchanged.
Exchanged(a, j, k) == [a EXCEPT ![j] = a[k], ![k] = a[j]]

LEMMA Parents ==
  \A k \in Nat \ {0} : parent(k) \in Nat /\ parent(k) < k
PROOF BY DEF parent

\* Nobody precedes the first element of a heap.
LEMMA FirstIsLeast ==
  ASSUME Assumptions, NEW a, NEW n \in Nat, Stores(a, n), Heaped(a, n), NEW k \in 0 .. n - 1
  PROVE  prio[a[0]] <= prio[a[k]]
PROOF
  <1> DEFINE T == {j \in 0 .. n - 1 : ~(prio[a[0]] <= prio[a[j]])}
  <1> SUFFICES ASSUME T # {} PROVE FALSE OBVIOUS
  <1>1. \A j \in 0 .. n - 1 : prio[a[j]] \in Nat BY DEF Stores, Assumptions
  <1>2. T \in SUBSET Nat OBVIOUS
  <1>3. PICK m \in T : \A j \in T : m <= j
    <2> HIDE DEF T
    <2> QED BY <1>2, LeastElement
  <1>4. m \in 0 .. n - 1 /\ ~(prio[a[0]] <= prio[a[m]]) OBVIOUS
  <1>5. m # 0 BY <1>1, <1>4
  <1>6. parent(m) \in Nat /\ parent(m) < m BY <1>4, <1>5, Parents
  <1>7. parent(m) \in 0 .. n - 1 /\ parent(m) \notin T BY <1>3, <1>4, <1>6
  <1>8. prio[a[0]] <= prio[a[parent(m)]] BY <1>7
  <1>9. prio[a[parent(m)]] <= prio[a[m]] BY <1>4, <1>5 DEF Heaped, Below
  <1> QED BY <1>1, <1>4, <1>7, <1>8, <1>9

LEMMA ExchangeStores ==
  ASSUME NEW a \in [Cells -> Elts \cup {NoElt}], NEW n \in 0 .. nb_contexts, Assumptions,
         NEW j \in 0 .. n - 1, NEW k \in 0 .. n - 1, Stores(a, n)
  PROVE  /\ Exchanged(a, j, k) \in [Cells -> Elts \cup {NoElt}]
         /\ Stores(Exchanged(a, j, k), n)
         /\ {Exchanged(a, j, k)[c] : c \in 0 .. n - 1} = {a[c] : c \in 0 .. n - 1}
         /\ \A c \in 0 .. n - 1 : Exchanged(a, j, k)[c] =
              IF c = k THEN a[j] ELSE IF c = j THEN a[k] ELSE a[c]
PROOF
  <1> DEFINE b == Exchanged(a, j, k)
  <1>1. nb_contexts \in Nat BY DEF Assumptions
  <1>2. 0 .. n - 1 \subseteq Cells BY <1>1 DEF Cells
  <1>3. b \in [Cells -> Elts \cup {NoElt}] BY <1>2 DEF Exchanged
  <1>4. \A c \in Cells : b[c] = IF c = k THEN a[j] ELSE IF c = j THEN a[k] ELSE a[c]
    BY <1>2 DEF Exchanged
  <1> HIDE DEF b
  <1>5. Stores(b, n) BY <1>2, <1>4 DEF Stores
  <1>6. {b[c] : c \in 0 .. n - 1} = {a[c] : c \in 0 .. n - 1}
    <2>1. ASSUME NEW c \in 0 .. n - 1 PROVE b[c] \in {a[d] : d \in 0 .. n - 1}
      BY <1>2, <1>4
    <2>2. ASSUME NEW c \in 0 .. n - 1 PROVE a[c] \in {b[d] : d \in 0 .. n - 1}
      <3>1. CASE c = j
        <4>1. b[k] = a[c] BY <1>2, <1>4, <3>1
        <4> QED BY <4>1
      <3>2. CASE c = k /\ c # j
        <4>1. b[j] = a[c] BY <1>2, <1>4, <3>2
        <4> QED BY <4>1
      <3>3. CASE c # j /\ c # k
        <4>1. b[c] = a[c] BY <1>2, <1>4, <3>3
        <4> QED BY <4>1
      <3> QED BY <3>1, <3>2, <3>3
    <2> QED BY <2>1, <2>2
  <1> QED BY <1>2, <1>3, <1>4, <1>5, <1>6 DEF b

\* An iteration of insert_elt's loop: the element of cell h and its parent's change
\* places.
LEMMA Rises ==
  ASSUME Assumptions, NEW a \in [Cells -> Elts \cup {NoElt}], NEW n \in 0 .. nb_contexts,
         NEW h \in 0 .. n - 1, h # 0, Stores(a, n), HeapedButAbove(a, n, h),
         prio[a[h]] < prio[a[parent(h)]]
  PROVE  HeapedButAbove(Exchanged(a, h, parent(h)), n, parent(h))
PROOF
  <1> DEFINE p == parent(h)
             b == Exchanged(a, h, p)
  <1>1. p \in Nat /\ p < h /\ p \in 0 .. n - 1 BY Parents
  <1>2. \A c \in 0 .. n - 1 : b[c] = IF c = p THEN a[h] ELSE IF c = h THEN a[p] ELSE a[c]
    BY <1>1, ExchangeStores
  <1>3. \A c \in 0 .. n - 1 : prio[a[c]] \in Nat BY DEF Stores, Assumptions
  <1>4. prio[a[h]] < prio[a[p]] OBVIOUS
  <1>5. \A k \in 1 .. n - 1 : k # h => prio[a[parent(k)]] <= prio[a[k]]
    BY DEF HeapedButAbove, Below
  <1>6. \A k \in 1 .. n - 1 : parent(k) = h => prio[a[p]] <= prio[a[k]]
    BY DEF HeapedButAbove, Below
  <1>7. \A k \in 1 .. n - 1 : parent(k) \in 0 .. n - 1 /\ parent(k) < k BY Parents
  <1> HIDE DEF b, p
  <1>8. ASSUME NEW k \in 1 .. n - 1, k # p PROVE prio[b[parent(k)]] <= prio[b[k]]
    <2>1. CASE k = h
      <3>1. parent(k) = p BY <2>1 DEF p
      <3> QED BY <1>1, <1>2, <1>3, <1>4, <2>1, <3>1
    <2>2. CASE k # h /\ parent(k) = h
      BY <1>1, <1>2, <1>3, <1>6, <1>7, <1>8, <2>2
    <2>3. CASE k # h /\ parent(k) = p
      BY <1>1, <1>2, <1>3, <1>4, <1>5, <1>7, <1>8, <2>3
    <2>4. CASE k # h /\ parent(k) # p /\ parent(k) # h
      BY <1>2, <1>5, <1>7, <1>8, <2>4
    <2> QED BY <2>1, <2>2, <2>3, <2>4
  <1>9. ASSUME NEW k \in 1 .. n - 1, parent(k) = p, p # 0 PROVE prio[b[parent(p)]] <= prio[b[k]]
    <2>1. p \in 1 .. n - 1 /\ p # h /\ parent(p) \in 0 .. n - 1 /\ parent(p) < p BY <1>1, <1>7, <1>9
    <2>2. prio[a[parent(p)]] <= prio[a[p]] BY <1>5, <2>1
    <2>3. b[parent(p)] = a[parent(p)] BY <1>1, <1>2, <2>1
    <2>4. CASE k = h
      BY <1>1, <1>2, <2>2, <2>3, <2>4
    <2>5. CASE k # h
      <3>1. prio[a[p]] <= prio[a[k]] BY <1>5, <1>9, <2>5
      <3>2. k # p BY <1>7, <1>9
      <3> QED BY <1>1, <1>2, <1>3, <2>1, <2>2, <2>3, <2>5, <3>1, <3>2
    <2> QED BY <2>4, <2>5
  <1> QED BY <1>8, <1>9 DEF HeapedButAbove, Below, p, b

\* An iteration of remove_elt's loop: the element of cell h and that of the more
\* urgent of its children, l, change places.
LEMMA Sinks ==
  ASSUME Assumptions, NEW a \in [Cells -> Elts \cup {NoElt}], NEW n \in 0 .. nb_contexts,
         NEW h \in 0 .. n - 1, NEW l \in 1 .. n - 1, parent(l) = h,
         Stores(a, n), HeapedButBelow(a, n, h),
         prio[a[l]] < prio[a[h]],
         \A k \in 1 .. n - 1 : parent(k) = h => prio[a[l]] <= prio[a[k]]
  PROVE  HeapedButBelow(Exchanged(a, h, l), n, l)
PROOF
  <1> DEFINE b == Exchanged(a, h, l)
  <1>1. \A k \in 1 .. n - 1 : parent(k) \in 0 .. n - 1 /\ parent(k) < k BY Parents
  <1>2. l \in 0 .. n - 1 /\ h # l BY <1>1
  <1>3. \A c \in 0 .. n - 1 : b[c] = IF c = l THEN a[h] ELSE IF c = h THEN a[l] ELSE a[c]
    BY <1>2, ExchangeStores
  <1>4. \A c \in 0 .. n - 1 : prio[a[c]] \in Nat BY DEF Stores, Assumptions
  <1>5. \A k \in 1 .. n - 1 : parent(k) # h => prio[a[parent(k)]] <= prio[a[k]]
    BY DEF HeapedButBelow, Below
  <1>6. h # 0 => prio[a[parent(h)]] <= prio[a[l]]
    BY DEF HeapedButBelow, Below
  <1> HIDE DEF b
  <1>7. ASSUME NEW k \in 1 .. n - 1, parent(k) # l PROVE prio[b[parent(k)]] <= prio[b[k]]
    <2>1. CASE k = l
      BY <1>2, <1>3, <1>4, <2>1
    <2>2. CASE k # l /\ parent(k) = h
      BY <1>1, <1>2, <1>3, <1>4, <1>7, <2>2
    <2>3. CASE k = h
      BY <1>1, <1>2, <1>3, <1>6, <1>7, <2>3
    <2>4. CASE k # l /\ k # h /\ parent(k) # h
      BY <1>1, <1>3, <1>5, <1>7, <2>4
    <2> QED BY <2>1, <2>2, <2>3, <2>4
  <1>8. ASSUME NEW k \in 1 .. n - 1, parent(k) = l PROVE prio[b[parent(l)]] <= prio[b[k]]
    <2>1. prio[a[l]] <= prio[a[k]] BY <1>2, <1>5, <1>8
    <2>2. k # l /\ k # h BY <1>1, <1>8
    <2> QED BY <1>2, <1>3, <2>1, <2>2
  <1> QED BY <1>7, <1>8 DEF HeapedButBelow, Below, b

\* What one iteration of remove_elt's loop looks for.
LEMMA LargestIsLeast ==
  ASSUME Assumptions, size \in 0 .. nb_contexts, i \in Nat, Stores(array, size),
         size > 0 => i < size /\ i_priority = prio[array[i]]
  PROVE  \/ /\ largest = i
            /\ \A k \in 1 .. size - 1 : parent(k) = i => prio[array[i]] <= prio[array[k]]
         \/ /\ largest # i
            /\ largest \in 1 .. size - 1
            /\ parent(largest) = i
            /\ prio[array[largest]] < prio[array[i]]
            /\ \A k \in 1 .. size - 1 : parent(k) = i => prio[array[largest]] <= prio[array[k]]
PROOF
  <1> DEFINE left == 2 * i + 1
             right == 2 * i + 2
  <1>1. \A k \in Nat \ {0} : parent(k) = i <=> k \in {left, right} BY DEF parent
  <1>2. \A c \in 0 .. size - 1 : prio[array[c]] \in Nat BY DEF Stores, Assumptions
  <1>3. size \in Nat BY DEF Assumptions
  <1>4. left \in Nat \ {0} /\ right \in Nat \ {0} /\ left # i /\ right # i /\ left < right OBVIOUS
  <1>5. CASE ~(left < size)
    <2>1. largest = i BY <1>3, <1>4, <1>5 DEF largest
    <2> QED BY <1>1, <1>3, <1>4, <1>5, <2>1
  <1>6. CASE left < size /\ ~(right < size)
    <2>1. i_priority = prio[array[i]] /\ i \in 0 .. size - 1 BY <1>3, <1>6
    <2>2. largest = IF prio[array[left]] < prio[array[i]] THEN left ELSE i
      BY <1>4, <1>6, <2>1 DEF largest, is_gt_priority
    <2>3. \A k \in 1 .. size - 1 : parent(k) = i => k = left BY <1>1, <1>3, <1>4, <1>6
    <2>4. left \in 1 .. size - 1 /\ parent(left) = i BY <1>1, <1>3, <1>4, <1>6
    <2> QED BY <1>2, <1>3, <1>4, <2>1, <2>2, <2>3, <2>4
  <1>7. CASE left < size /\ right < size
    <2>1. i_priority = prio[array[i]] /\ i \in 0 .. size - 1 BY <1>3, <1>7
    <2>2. left \in 1 .. size - 1 /\ parent(left) = i /\ right \in 1 .. size - 1 /\ parent(right) = i
      BY <1>1, <1>3, <1>4, <1>7
    <2>3. \A k \in 1 .. size - 1 : parent(k) = i => k = left \/ k = right BY <1>1, <1>3
    <2>4. CASE prio[array[right]] < prio[array[i]]
      <3>1. largest = IF prio[array[left]] < prio[array[right]] THEN left ELSE right
        BY <1>4, <1>7, <2>1, <2>4 DEF largest, is_gt_priority
      <3> QED BY <1>2, <1>3, <1>4, <2>1, <2>2, <2>3, <2>4, <3>1
    <2>5. CASE ~(prio[array[right]] < prio[array[i]])
      <3>1. largest = IF prio[array[left]] < prio[array[i]] THEN left ELSE i
        BY <1>4, <1>7, <2>1, <2>5 DEF largest, is_gt_priority
      <3> QED BY <1>2, <1>3, <1>4, <2>1, <2>2, <2>3, <2>5, <3>1
    <2> QED BY <2>4, <2>5
  <1> QED BY <1>5, <1>6, <1>7

-----------------------------------------------------------------------------
(* The inductive invariant: the array is a heap between the operations,    *)
(* and inside the loops but for the one element that moves.                *)

ReadyInv ==
  pc \in {"ready", "failed"} =>
    /\ Stores(array, size)
    /\ Heaped(array, size)

\* The hole counts as filled with the element that looks for its place.
InsertInv ==
  pc = "insert" =>
    /\ i < size
    /\ elt \in Elts
    /\ Stores(Filled, size)
    /\ HeapedButAbove(Filled, size, i)

\* res has left the array and nobody in it precedes it.
RemoveInv ==
  pc = "remove" =>
    /\ Stores(array, size)
    /\ HeapedButBelow(array, size, i)
    /\ size > 0 => i < size /\ i_priority = prio[array[i]]
    /\ res \in Elts
    /\ \A k \in 0 .. size - 1 : array[k] # res /\ prio[res] <= prio[array[k]]

HeapInv == TypeOK /\ ReadyInv /\ InsertInv /\ RemoveInv

LEMMA InitHeap ==
  ASSUME Assumptions, Init
  PROVE  HeapInv
PROOF
  <1>1. nb_contexts \in Nat \ {0} BY DEF Assumptions
  <1>2. TypeOK BY <1>1 DEF Init, TypeOK, Cells
  <1>3. ReadyInv BY DEF Init, ReadyInv, Stores, Heaped
  <1> QED BY <1>2, <1>3 DEF Init, HeapInv, InsertInv, RemoveInv

\* insert_elt opens the hole in the first free cell.
LEMMA InsertKeeps ==
  ASSUME Assumptions, HeapInv, NEW e \in Elts, insert_elt(e)
  PROVE  HeapInv' /\ (pc' = "insert" => {Filled'[k] : k \in 0 .. size' - 1} \ {e} = InHeap)
PROOF
  <1> USE DEF HeapInv
  <1>1. nb_contexts \in Nat \ {0} /\ size \in Nat /\ size \in 0 .. nb_contexts
    BY DEF Assumptions, TypeOK
  <1>2. Stores(array, size) /\ Heaped(array, size) BY DEF insert_elt, ReadyInv
  <1>3. TypeOK' BY <1>1 DEF insert_elt, TypeOK, Cells
  <1>4. CASE ~(size < nb_contexts)
    <2>1. pc' = "failed" /\ array' = array /\ size' = size BY <1>4 DEF insert_elt
    <2> QED BY <1>2, <1>3, <2>1 DEF ReadyInv, InsertInv, RemoveInv
  <1>5. CASE size < nb_contexts
    <2>1. pc' = "insert" /\ array' = array /\ size' = size + 1 /\ i' = size /\ elt' = e
      BY <1>5 DEF insert_elt
    <2>2. Filled' = [array EXCEPT ![size] = e] BY <2>1 DEF Filled
    <2> DEFINE F == [array EXCEPT ![size] = e]
    <2>3. /\ F[size] = e
          /\ \A k \in 0 .. size - 1 : F[k] = array[k]
      BY <1>1, <1>5 DEF TypeOK, Cells
    <2> HIDE DEF F
    <2>4. \A k \in 0 .. size - 1 : array[k] # e BY DEF insert_elt, InHeap
    <2>5. \A k \in 0 .. size : k = size \/ k \in 0 .. size - 1 BY <1>1
    <2>6. Stores(F, size + 1)
      <3>1. (size + 1) - 1 = size BY <1>1
      <3>2. \A k \in 0 .. size : F[k] \in Elts BY <1>2, <2>3, <2>5 DEF Stores
      <3>3. \A j, k \in 0 .. size : F[j] = F[k] => j = k
        <4> TAKE j, k \in 0 .. size
        <4>1. CASE j = size BY <2>3, <2>4, <2>5, <4>1
        <4>2. CASE k = size BY <2>3, <2>4, <2>5, <4>2
        <4>3. CASE j # size /\ k # size BY <1>2, <2>3, <2>5, <4>3 DEF Stores
        <4> QED BY <4>1, <4>2, <4>3
      <3> QED BY <3>1, <3>2, <3>3 DEF Stores
    <2>7. HeapedButAbove(F, size + 1, size)
      <3>1. \A k \in 1 .. (size + 1) - 1 : k # size => k \in 1 .. size - 1 BY <1>1
      <3>2. \A k \in 1 .. (size + 1) - 1 : parent(k) \in Nat /\ parent(k) < k /\ k <= size BY <1>1, Parents
      <3>3. \A k \in 1 .. (size + 1) - 1 : parent(k) # size BY <1>1, <3>2
      <3>4. ASSUME NEW k \in 1 .. (size + 1) - 1, k # size PROVE Below(F, parent(k), k)
        <4>1. k \in 0 .. size - 1 /\ parent(k) \in 0 .. size - 1 BY <1>1, <3>2, <3>4
        <4>2. Below(array, parent(k), k) BY <1>2, <3>1, <3>4 DEF Heaped
        <4> QED BY <2>3, <4>1, <4>2 DEF Below
      <3> QED BY <3>3, <3>4 DEF HeapedButAbove
    <2>8. {F[k] : k \in 0 .. size} \ {e} = {array[k] : k \in 0 .. size - 1}
      <3>1. ASSUME NEW k \in 0 .. size, F[k] # e PROVE F[k] \in {array[c] : c \in 0 .. size - 1}
        BY <2>3, <2>5, <3>1
      <3>2. ASSUME NEW k \in 0 .. size - 1 PROVE array[k] \in {F[c] : c \in 0 .. size} \ {e}
        <4>1. k \in 0 .. size BY <1>1
        <4> QED BY <2>3, <2>4, <4>1
      <3> QED BY <3>1, <3>2
    <2>9. InsertInv'
      <3>1. i' < size' BY <1>1, <2>1
      <3> QED BY <2>1, <2>2, <2>6, <2>7, <3>1 DEF InsertInv, F
    <2>10. ReadyInv' /\ RemoveInv' BY <2>1 DEF ReadyInv, RemoveInv
    <2>11. {Filled'[k] : k \in 0 .. size' - 1} \ {e} = InHeap
      <3>1. size' - 1 = size BY <1>1, <2>1
      <3> QED BY <2>2, <2>8, <3>1 DEF InHeap, F
    <2> QED BY <1>3, <2>9, <2>10, <2>11
  <1> QED BY <1>4, <1>5

\* An iteration of insert_elt's loop exchanges the hole with its parent.
LEMMA RiseKeeps ==
  ASSUME Assumptions, HeapInv, insert_elt_rise
  PROVE  /\ HeapInv'
         /\ {Filled'[k] : k \in 0 .. size' - 1} = {Filled[k] : k \in 0 .. size - 1}
PROOF
  <1> USE DEF HeapInv
  <1>1. nb_contexts \in Nat \ {0} /\ size \in Nat /\ size \in 0 .. nb_contexts /\ i \in Nat
    BY DEF Assumptions, TypeOK, Cells
  <1>2. /\ pc = "insert" /\ pc' = "insert" /\ size' = size /\ elt' = elt /\ i' = parent(i) /\ i # 0
        /\ array' = [array EXCEPT ![i] = array[parent(i)]]
    BY DEF insert_elt_rise, rises
  <1>3. /\ i \in 0 .. size - 1 /\ elt \in Elts
        /\ Stores(Filled, size) /\ HeapedButAbove(Filled, size, i)
    BY <1>1, <1>2 DEF InsertInv
  <1>4. parent(i) \in 0 .. size - 1 /\ parent(i) < i /\ parent(i) \in Cells /\ i \in Cells
    BY <1>1, <1>2, <1>3, Parents DEF Cells
  <1>5. Filled = [array EXCEPT ![i] = elt] BY <1>2 DEF Filled
  <1>6. Filled' = [array' EXCEPT ![parent(i)] = elt] BY <1>2 DEF Filled
  <1>7. array \in [Cells -> Elts \cup {NoElt}] BY DEF TypeOK
  <1>8. Filled \in [Cells -> Elts \cup {NoElt}] BY <1>3, <1>5, <1>7
  <1>9. array' \in [Cells -> Elts \cup {NoElt}] BY <1>2, <1>4, <1>7
  <1>10. Filled' = Exchanged(Filled, i, parent(i))
    <2>1. /\ Filled' \in [Cells -> Elts \cup {NoElt}]
          /\ \A c \in Cells : Filled'[c] = IF c = parent(i) THEN elt ELSE IF c = i THEN array[parent(i)] ELSE array[c]
      BY <1>2, <1>3, <1>4, <1>6, <1>7, <1>9
    <2>2. \A c \in Cells : Filled[c] = IF c = i THEN elt ELSE array[c] BY <1>5, <1>7
    <2>3. \A c \in Cells : Exchanged(Filled, i, parent(i))[c] =
            IF c = parent(i) THEN Filled[i] ELSE IF c = i THEN Filled[parent(i)] ELSE Filled[c]
      BY <1>4, <1>8 DEF Exchanged
    <2>4. Exchanged(Filled, i, parent(i)) \in [Cells -> Elts \cup {NoElt}]
      BY <1>4, <1>8 DEF Exchanged
    <2>5. \A c \in Cells : Filled'[c] = Exchanged(Filled, i, parent(i))[c]
      BY <1>4, <2>1, <2>2, <2>3
    <2> QED BY <2>1, <2>4, <2>5
  <1>11. prio[Filled[i]] < prio[Filled[parent(i)]]
    <2>1. Filled[i] = elt /\ Filled[parent(i)] = array[parent(i)] BY <1>4, <1>5, <1>7
    <2> QED BY <2>1 DEF insert_elt_rise, rises, is_gt_priority
  <1>12. HeapedButAbove(Filled', size, parent(i))
    BY <1>2, <1>3, <1>8, <1>10, <1>11, <1>1, Rises
  <1>13. /\ Stores(Filled', size)
         /\ {Filled'[k] : k \in 0 .. size - 1} = {Filled[k] : k \in 0 .. size - 1}
    <2>1. /\ Stores(Exchanged(Filled, i, parent(i)), size)
          /\ {Exchanged(Filled, i, parent(i))[c] : c \in 0 .. size - 1} = {Filled[c] : c \in 0 .. size - 1}
      BY <1>1, <1>3, <1>4, <1>8, ExchangeStores
    <2> QED BY <1>10, <2>1
  <1>14. TypeOK' BY <1>2, <1>4, <1>9 DEF TypeOK, insert_elt_rise, Cells
  <1>15. InsertInv'
    <2>1. parent(i) < size BY <1>1, <1>4
    <2> QED BY <1>2, <1>3, <1>12, <1>13, <2>1 DEF InsertInv
  <1>16. ReadyInv' /\ RemoveInv' BY <1>2 DEF ReadyInv, RemoveInv
  <1> QED BY <1>2, <1>13, <1>14, <1>15, <1>16

LEMMA PlaceKeeps ==
  ASSUME Assumptions, HeapInv, insert_elt_place
  PROVE  /\ HeapInv'
         /\ elt \in Elts
         /\ elt \in {Filled[k] : k \in 0 .. size - 1}
         /\ InHeap' = {Filled[k] : k \in 0 .. size - 1}
PROOF
  <1> USE DEF HeapInv
  <1>1. nb_contexts \in Nat \ {0} /\ size \in Nat /\ size \in 0 .. nb_contexts /\ i \in Nat
    BY DEF Assumptions, TypeOK, Cells
  <1>2. pc = "insert" /\ pc' = "ready" /\ size' = size /\ array' = [array EXCEPT ![i] = elt]
    BY DEF insert_elt_place, return
  <1>3. /\ i \in 0 .. size - 1 /\ elt \in Elts
        /\ Stores(Filled, size) /\ HeapedButAbove(Filled, size, i)
    BY <1>1, <1>2 DEF InsertInv
  <1>4. array' = Filled BY <1>2 DEF Filled
  <1>5. array \in [Cells -> Elts \cup {NoElt}] /\ i \in Cells BY DEF TypeOK
  <1>6. Filled[i] = elt /\ \A c \in Cells : c # i => Filled[c] = array[c] BY <1>2, <1>4, <1>5
  <1>7. Heaped(Filled, size)
    <2>1. \A k \in 1 .. size - 1 : k # i => Below(Filled, parent(k), k) BY <1>3 DEF HeapedButAbove
    <2>2. ASSUME i # 0 PROVE Below(Filled, parent(i), i)
      <3>1. parent(i) \in 0 .. size - 1 /\ parent(i) # i /\ parent(i) \in Cells
        BY <1>1, <1>3, <2>2, Parents DEF Cells
      <3>2. Filled[parent(i)] = array[parent(i)] BY <1>6, <3>1
      <3>3. ~(prio[elt] < prio[Filled[parent(i)]]) BY <2>2, <3>2 DEF insert_elt_place, rises, is_gt_priority
      <3>4. prio[elt] \in Nat /\ prio[Filled[parent(i)]] \in Nat
        BY <1>3, <3>1 DEF Stores, Assumptions
      <3> QED BY <1>6, <3>3, <3>4 DEF Below
    <2> QED BY <1>1, <2>1, <2>2 DEF Heaped
  <1>8. array' \in [Cells -> Elts \cup {NoElt}] BY <1>2, <1>3, <1>5
  <1>9. TypeOK' BY <1>1, <1>2, <1>8 DEF insert_elt_place, return, TypeOK, Cells
  <1>10. ReadyInv' BY <1>2, <1>3, <1>4, <1>7 DEF ReadyInv
  <1>11. InsertInv' /\ RemoveInv' BY <1>2 DEF InsertInv, RemoveInv
  <1>12. elt \in {Filled[k] : k \in 0 .. size - 1} BY <1>3, <1>6
  <1>13. InHeap' = {Filled[k] : k \in 0 .. size - 1} BY <1>2, <1>4 DEF InHeap
  <1> QED BY <1>3, <1>9, <1>10, <1>11, <1>12, <1>13

\* remove_elt puts the last element in the place of the first.
LEMMA RemoveKeeps ==
  ASSUME Assumptions, HeapInv, remove_elt
  PROVE  HeapInv' /\ InHeap' \cup {res'} = InHeap
PROOF
  <1> USE DEF HeapInv
  <1>1. nb_contexts \in Nat \ {0} /\ size \in Nat /\ size \in 0 .. nb_contexts /\ size > 0
    BY DEF Assumptions, TypeOK, remove_elt
  <1>2. Stores(array, size) /\ Heaped(array, size) BY DEF remove_elt, ReadyInv
  <1>3. /\ pc' = "remove" /\ size' = size - 1 /\ i' = 0 /\ res' = array[0] /\ elt' = elt
        /\ array' = [array EXCEPT ![0] = array[size - 1]]
        /\ i_priority' = prio[array[size - 1]]
    BY DEF remove_elt
  <1>4. 0 \in Cells /\ size - 1 \in Cells /\ array \in [Cells -> Elts \cup {NoElt}]
    BY <1>1 DEF Cells, TypeOK
  <1>5. array' \in [Cells -> Elts \cup {NoElt}] BY <1>3, <1>4
  <1>6. array[0] \in Elts /\ array[size - 1] \in Elts BY <1>1, <1>2 DEF Stores
  <1>7. TypeOK'
    <2>1. prio[array[size - 1]] \in Nat BY <1>6 DEF Assumptions
    <2> QED BY <1>1, <1>3, <1>4, <1>5, <1>6, <2>1 DEF TypeOK
  <1> DEFINE n == size - 1
  <1>8. n \in Nat /\ n < size BY <1>1
  <1>9. array'[0] = array[n] /\ \A k \in 1 .. n - 1 : array'[k] = array[k]
    <2>1. 1 .. n - 1 \subseteq Cells BY <1>1 DEF Cells
    <2> QED BY <1>3, <1>4, <2>1
  <1>10. \A k \in 0 .. n - 1 : k = 0 \/ k \in 1 .. n - 1 BY <1>8
  <1>11. \A k \in 0 .. size - 1 : k = n \/ k \in 0 .. n - 1 BY <1>8
  <1>12. \A k \in 0 .. n - 1 : k \in 0 .. size - 1 BY <1>8
  <1>13. 0 \in 0 .. size - 1 /\ n \in 0 .. size - 1 BY <1>8
  <1>14. \A k \in 0 .. n - 1 : k < n BY <1>8
  <1>15. 1 .. n - 1 \subseteq 1 .. size - 1 BY <1>8
  <1>16. size' = n BY <1>3
  <1> HIDE DEF n
  <1>17. Stores(array', n)
    <2>1. \A k \in 0 .. n - 1 : array'[k] \in Elts BY <1>2, <1>9, <1>10, <1>12, <1>13 DEF Stores
    <2>2. \A j, k \in 0 .. n - 1 : array'[j] = array'[k] => j = k
      <3> TAKE j, k \in 0 .. n - 1
      <3>1. CASE j = 0 /\ k # 0
        <4>1. array[n] # array[k] BY <1>2, <1>8, <1>12, <1>13, <1>14 DEF Stores
        <4> QED BY <1>9, <1>10, <3>1, <4>1
      <3>2. CASE j # 0 /\ k = 0
        <4>1. array[n] # array[j] BY <1>2, <1>8, <1>12, <1>13, <1>14 DEF Stores
        <4> QED BY <1>9, <1>10, <3>2, <4>1
      <3>3. CASE j # 0 /\ k # 0 BY <1>2, <1>9, <1>10, <1>12, <3>3 DEF Stores
      <3> QED BY <3>1, <3>2, <3>3
    <2> QED BY <2>1, <2>2 DEF Stores
  <1>18. HeapedButBelow(array', n, 0)
    <2>1. ASSUME NEW k \in 1 .. n - 1, parent(k) # 0 PROVE Below(array', parent(k), k)
      <3>1. parent(k) \in 1 .. n - 1 BY <1>8, <2>1, Parents
      <3>2. Below(array, parent(k), k) BY <1>2, <1>15 DEF Heaped
      <3> QED BY <1>9, <3>1, <3>2 DEF Below
    <2> QED BY <2>1 DEF HeapedButBelow
  <1>19. \A k \in 0 .. n - 1 : array'[k] # array[0] /\ prio[array[0]] <= prio[array'[k]]
    <2> TAKE k \in 0 .. n - 1
    <2>1. PICK c \in 1 .. size - 1 : array'[k] = array[c]
      <3>1. CASE k = 0
        <4>1. n \in 1 .. size - 1 BY <1>8, <1>14, <1>16, <1>3, <3>1
        <4> QED BY <1>9, <3>1, <4>1
      <3>2. CASE k # 0 BY <1>9, <1>10, <1>15, <3>2
      <3> QED BY <3>1, <3>2
    <2>2. c \in 0 .. size - 1 /\ c # 0 BY <1>1
    <2>3. prio[array[0]] <= prio[array[c]] BY <1>1, <1>2, <2>2, FirstIsLeast
    <2>4. array[c] # array[0] BY <1>2, <1>13, <2>2 DEF Stores
    <2> QED BY <2>1, <2>3, <2>4
  <1>20. RemoveInv'
    <2>1. size' > 0 => i' < size' BY <1>3, <1>8, <1>16
    <2>2. i_priority' = prio[array'[i']] BY <1>3, <1>9 DEF n
    <2> QED BY <1>3, <1>6, <1>16, <1>17, <1>18, <1>19, <2>1, <2>2 DEF RemoveInv
  <1>21. ReadyInv' /\ InsertInv' BY <1>3 DEF ReadyInv, InsertInv
  <1>22. InHeap' \cup {res'} = InHeap
    <2>1. ASSUME NEW k \in 0 .. n - 1 PROVE array'[k] \in InHeap
      BY <1>9, <1>10, <1>12, <1>13 DEF InHeap
    <2>2. array[0] \in InHeap BY <1>13 DEF InHeap
    <2>3. ASSUME NEW k \in 0 .. size - 1, array[k] # array[0]
          PROVE  array[k] \in {array'[c] : c \in 0 .. n - 1}
      <3>1. CASE k = n
        <4>1. 0 \in 0 .. n - 1 BY <1>8, <2>3, <3>1
        <4> QED BY <1>9, <3>1, <4>1
      <3>2. CASE k # n
        <4>1. k \in 0 .. n - 1 /\ k # 0 BY <1>11, <2>3, <3>2
        <4>2. array'[k] = array[k] BY <1>9, <1>10, <4>1
        <4> QED BY <4>1, <4>2
      <3> QED BY <3>1, <3>2
    <2>4. InHeap' = {array'[c] : c \in 0 .. n - 1} BY <1>16 DEF InHeap
    <2>5. res' = array[0] BY <1>3
    <2>6. InHeap' \cup {array[0]} \subseteq InHeap BY <2>1, <2>2, <2>4
    <2>7. \A e \in InHeap : e = array[0] \/ e \in InHeap' BY <2>3, <2>4 DEF InHeap
    <2> QED BY <2>5, <2>6, <2>7
  <1> QED BY <1>7, <1>20, <1>21, <1>22

LEMMA SinkKeeps ==
  ASSUME Assumptions, HeapInv, remove_elt_sink
  PROVE  HeapInv' /\ InHeap' = InHeap
PROOF
  <1> USE DEF HeapInv
  <1>1. /\ nb_contexts \in Nat \ {0} /\ size \in Nat /\ size \in 0 .. nb_contexts /\ i \in Nat
        /\ array \in [Cells -> Elts \cup {NoElt}]
    BY DEF Assumptions, TypeOK, Cells
  <1>2. /\ pc = "remove" /\ pc' = "remove" /\ size' = size /\ res' = res /\ i' = largest /\ largest # i
        /\ i_priority' = i_priority /\ elt' = elt /\ array' = swapped
    BY DEF remove_elt_sink
  <1>3. /\ Stores(array, size) /\ HeapedButBelow(array, size, i) /\ res \in Elts
        /\ \A k \in 0 .. size - 1 : array[k] # res /\ prio[res] <= prio[array[k]]
        /\ size > 0 => i < size /\ i_priority = prio[array[i]]
    BY <1>2 DEF RemoveInv
  <1> DEFINE l == largest
  <1>4. /\ l \in 1 .. size - 1 /\ parent(l) = i
        /\ prio[array[l]] < prio[array[i]]
        /\ \A k \in 1 .. size - 1 : parent(k) = i => prio[array[l]] <= prio[array[k]]
    BY <1>1, <1>2, <1>3, LargestIsLeast
  <1>5. i' = l /\ array' = Exchanged(array, i, l) BY <1>2 DEF swapped, Exchanged
  <1> HIDE DEF l
  <1>6. l \in 0 .. size - 1 /\ i \in 0 .. size - 1 /\ size > 0 /\ l \in Cells BY <1>1, <1>3, <1>4 DEF Cells
  <1>7. HeapedButBelow(array', size, l) BY <1>1, <1>3, <1>4, <1>5, <1>6, Sinks
  <1>8. /\ array' \in [Cells -> Elts \cup {NoElt}]
        /\ Stores(array', size)
        /\ {array'[c] : c \in 0 .. size - 1} = {array[c] : c \in 0 .. size - 1}
        /\ \A c \in 0 .. size - 1 : array'[c] = IF c = l THEN array[i] ELSE IF c = i THEN array[l] ELSE array[c]
    BY <1>1, <1>3, <1>5, <1>6, ExchangeStores
  <1>9. TypeOK' BY <1>2, <1>5, <1>6, <1>8 DEF TypeOK
  <1>10. RemoveInv'
    <2>1. i_priority' = prio[array'[l]] BY <1>2, <1>3, <1>6, <1>8
    <2>2. \A k \in 0 .. size - 1 : array'[k] # res /\ prio[res] <= prio[array'[k]]
      BY <1>3, <1>6, <1>8
    <2>3. l < size BY <1>1, <1>6
    <2> QED BY <1>2, <1>3, <1>5, <1>7, <1>8, <2>1, <2>2, <2>3 DEF RemoveInv
  <1>11. ReadyInv' /\ InsertInv' BY <1>2 DEF ReadyInv, InsertInv
  <1> QED BY <1>2, <1>8, <1>9, <1>10, <1>11 DEF InHeap

LEMMA ReturnKeeps ==
  ASSUME Assumptions, HeapInv, remove_elt_return
  PROVE  /\ HeapInv'
         /\ InHeap' = InHeap
         /\ res \in Elts /\ res \notin InHeap
         /\ \A e \in InHeap : prio[res] <= prio[e]
PROOF
  <1> USE DEF HeapInv
  <1>1. /\ nb_contexts \in Nat \ {0} /\ size \in Nat /\ size \in 0 .. nb_contexts /\ i \in Nat
    BY DEF Assumptions, TypeOK, Cells
  <1>2. pc = "remove" /\ pc' = "ready" /\ size' = size /\ array' = array /\ largest = i
    BY DEF remove_elt_return, return
  <1>3. /\ Stores(array, size) /\ HeapedButBelow(array, size, i) /\ res \in Elts
        /\ \A k \in 0 .. size - 1 : array[k] # res /\ prio[res] <= prio[array[k]]
        /\ size > 0 => i < size /\ i_priority = prio[array[i]]
    BY <1>2 DEF RemoveInv
  <1>4. \A k \in 1 .. size - 1 : parent(k) = i => prio[array[i]] <= prio[array[k]]
    BY <1>1, <1>2, <1>3, LargestIsLeast
  <1>5. Heaped(array, size) BY <1>3, <1>4 DEF Heaped, HeapedButBelow, Below
  <1>6. TypeOK' BY <1>1, <1>2 DEF TypeOK, remove_elt_return, return, Cells
  <1>7. ReadyInv' /\ InsertInv' /\ RemoveInv' BY <1>2, <1>3, <1>5 DEF ReadyInv, InsertInv, RemoveInv
  <1> QED BY <1>2, <1>3, <1>6, <1>7 DEF InHeap

LEMMA NextKeepsHeap ==
  ASSUME Assumptions, HeapInv, [Next]_vars
  PROVE  HeapInv'
PROOF
  <1>1. ASSUME NEW e \in Elts, insert_elt(e) PROVE HeapInv' BY <1>1, InsertKeeps
  <1>2. CASE remove_elt BY <1>2, RemoveKeeps
  <1>3. CASE insert_elt_rise BY <1>3, RiseKeeps
  <1>4. CASE insert_elt_place BY <1>4, PlaceKeeps
  <1>5. CASE remove_elt_sink BY <1>5, SinkKeeps
  <1>6. CASE remove_elt_return BY <1>6, ReturnKeeps
  <1>7. CASE UNCHANGED vars
    BY <1>7 DEF vars, HeapInv, TypeOK, ReadyInv, InsertInv, RemoveInv, Filled
  <1> QED BY <1>1, <1>2, <1>3, <1>4, <1>5, <1>6, <1>7 DEF Next, LoopStep

LEMMA HeapInvariant ==
  ASSUME Assumptions
  PROVE  Spec => []HeapInv
PROOF
  <1>1. Init => HeapInv BY InitHeap
  <1>2. HeapInv /\ [Next]_vars => HeapInv' BY NextKeepsHeap
  <1> QED BY <1>1, <1>2, PTL DEF Spec

\* Between two operations of heap.c no element of the array precedes its parent
\* and none is stored twice, whatever the length of the array.
THEOREM HeapOrderCorrect ==
  ASSUME Assumptions
  PROVE  Spec => []HeapOrder
PROOF
  <1>1. HeapInv => HeapOrder
    <2> SUFFICES ASSUME HeapInv, pc = "ready" PROVE HeapOrder BY DEF HeapOrder
    <2>1. Stores(array, size) /\ Heaped(array, size) BY DEF HeapInv, ReadyInv
    <2>2. size \in Nat BY DEF HeapInv, TypeOK, Assumptions
    <2>3. ASSUME NEW k \in 1 .. size - 1
          PROVE  ~is_gt_priority(prio[array[k]], prio[array[parent(k)]])
      <3>1. parent(k) \in 0 .. size - 1 /\ k \in 0 .. size - 1 BY <2>2, Parents
      <3>2. prio[array[k]] \in Nat /\ prio[array[parent(k)]] \in Nat
        BY <2>1, <3>1 DEF Stores, Assumptions
      <3>3. prio[array[parent(k)]] <= prio[array[k]] BY <2>1 DEF Heaped, Below
      <3> QED BY <3>2, <3>3 DEF is_gt_priority
    <2> QED BY <2>1, <2>3 DEF HeapOrder, Stores
  <1> QED BY <1>1, HeapInvariant, PTL

-----------------------------------------------------------------------------
(* The refinement.                                                         *)

\* The elements of the queue: an operation takes effect when it returns.
Content ==
  CASE pc = "insert" -> {Filled[k] : k \in 0 .. size - 1} \ {elt}
    [] pc = "remove" -> InHeap \cup {res}
    [] OTHER -> InHeap

LEMMA Contents ==
  /\ pc = "insert" => Content = {Filled[k] : k \in 0 .. size - 1} \ {elt}
  /\ pc = "remove" => Content = InHeap \cup {res}
  /\ pc \in {"ready", "failed"} => Content = InHeap
PROOF BY DEF Content

LEMMA StepsOfTheBag ==
  ASSUME Assumptions, HeapInv, [Next]_vars
  PROVE  [\E e \in Elts : \/ /\ e \notin Content
                             /\ Content' = Content \cup {e}
                          \/ /\ e \in Content
                             /\ \A d \in Content : prio[e] <= prio[d]
                             /\ Content' = Content \ {e}]_Content
PROOF
  <1> DEFINE A == /\ pc' = "insert" => Content' = {Filled'[k] : k \in 0 .. size' - 1} \ {elt'}
                  /\ pc' = "remove" => Content' = InHeap' \cup {res'}
                  /\ pc' \in {"ready", "failed"} => Content' = InHeap'
  <1>1. A BY DEF Content
  <1> HIDE DEF A
  <1>2. ASSUME NEW e \in Elts, insert_elt(e) PROVE Content' = Content
    <2>1. pc = "ready" /\ elt' = e /\ pc' \in {"insert", "failed"} BY <1>2 DEF insert_elt
    <2>2. CASE pc' = "insert" BY <1>1, <1>2, <2>1, <2>2, InsertKeeps, Contents DEF A
    <2>3. CASE pc' = "failed"
      <3>1. InHeap' = InHeap BY <1>2, <2>3 DEF insert_elt, InHeap
      <3> QED BY <1>1, <2>1, <2>3, <3>1, Contents DEF A
    <2> QED BY <2>1, <2>2, <2>3
  <1>3. CASE remove_elt
    <2>1. pc = "ready" /\ pc' = "remove" BY <1>3 DEF remove_elt
    <2>2. Content' = Content BY <1>1, <1>3, <2>1, RemoveKeeps, Contents DEF A
    <2> QED BY <2>2
  <1>4. CASE insert_elt_rise
    <2>1. pc = "insert" /\ pc' = "insert" /\ elt' = elt BY <1>4 DEF insert_elt_rise
    <2>2. Content' = Content BY <1>1, <1>4, <2>1, RiseKeeps, Contents DEF A
    <2> QED BY <2>2
  <1>5. CASE insert_elt_place
    <2>1. pc = "insert" /\ pc' = "ready" BY <1>5 DEF insert_elt_place, return
    <2>2. elt \in Elts /\ elt \notin Content /\ Content' = Content \cup {elt}
      BY <1>1, <1>5, <2>1, PlaceKeeps, Contents DEF A
    <2> QED BY <2>2
  <1>6. CASE remove_elt_sink
    <2>1. pc = "remove" /\ pc' = "remove" /\ res' = res BY <1>6 DEF remove_elt_sink
    <2>2. Content' = Content BY <1>1, <1>6, <2>1, SinkKeeps, Contents DEF A
    <2> QED BY <2>2
  <1>7. CASE remove_elt_return
    <2>1. pc = "remove" /\ pc' = "ready" BY <1>7 DEF remove_elt_return, return
    <2>2. Content = InHeap \cup {res} /\ Content' = InHeap' BY <1>1, <2>1, Contents DEF A
    <2>3. /\ InHeap' = InHeap /\ res \in Elts /\ res \notin InHeap
          /\ \A e \in InHeap : prio[res] <= prio[e]
      BY <1>7, ReturnKeeps
    <2>4. prio[res] \in Nat BY <2>3 DEF Assumptions
    <2>5. \A d \in Content : prio[res] <= prio[d] BY <2>2, <2>3, <2>4
    <2>6. Content' = Content \ {res} BY <2>2, <2>3
    <2> QED BY <2>2, <2>3, <2>5, <2>6
  <1>8. CASE UNCHANGED vars BY <1>8 DEF vars, Content, InHeap, Filled
  <1> QED BY <1>2, <1>3, <1>4, <1>5, <1>6, <1>7, <1>8 DEF Next, LoopStep

\* The array heap implements PriorityBag: remove_elt returns an element that
\* none of the others precedes, and nobody leaves the heap otherwise.
THEOREM ImplementsBagCorrect ==
  ASSUME Assumptions
  PROVE  Spec => ImplementsBag
PROOF
  <1>1. Init => Bag!Init
    <2> SUFFICES ASSUME Init PROVE Bag!Init OBVIOUS
    <2>1. pc = "ready" /\ InHeap = {} BY DEF Init, InHeap
    <2> QED BY <2>1 DEF Bag!Init
  <1>2. HeapInv /\ [Next]_vars => [Bag!Next]_Content
    BY StepsOfTheBag DEF Bag!Next, Bag!Insert, Bag!RemoveFirst, Content
  <1> QED BY <1>1, <1>2, HeapInvariant, PTL DEF Spec, ImplementsBag, Bag!Spec, Content
=============================================================================
