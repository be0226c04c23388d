------------------------ MODULE PriorityKernelProofs ------------------------
(***************************************************************************)
(* Proofs about PriorityKernel, for every number of tasks, size of the     *)
(* reserve, width of the dates, set of increments and clock bound.         *)
(***************************************************************************)
EXTENDS PriorityKernel, HighLevelProofs, FiniteSetTheorems, SequenceTheorems

-----------------------------------------------------------------------------
(* The operators of SortedQueue, for every queue: what inserting and       *)
(* removing an element does to the elements, their number and their order. *)

\* The range of a sequence, element by element.
LEMMA QueueRange ==
  ASSUME NEW S, NEW q \in Seq(S)
  PROVE  /\ Range(q) = {q[i] : i \in 1 .. Len(q)}
         /\ Range(q) \subseteq S
         /\ IsInjective(q) <=> \A i, j \in 1 .. Len(q) : q[i] = q[j] => i = j
PROOF
  <1>1. DOMAIN q = 1 .. Len(q) BY LenProperties
  <1>2. Range(q) = {q[i] : i \in 1 .. Len(q)} BY <1>1 DEF Range
  <1>3. \A i \in 1 .. Len(q) : q[i] \in S BY ElementOfSeq
  <1>4. IsInjective(q) <=> \A i, j \in 1 .. Len(q) : q[i] = q[j] => i = j
    BY <1>1, Zenon DEF IsInjective
  <1> QED BY <1>2, <1>3, <1>4

\* Inserting shifts the elements behind the place and changes no other.
LEMMA InsertElements ==
  ASSUME NEW S, NEW q \in Seq(S), NEW k \in 1 .. Len(q) + 1, NEW e \in S
  PROVE  /\ insert_elt(q, k, e) \in Seq(S)
         /\ Len(insert_elt(q, k, e)) = Len(q) + 1
         /\ \A i \in 1 .. Len(q) + 1 :
              insert_elt(q, k, e)[i] = IF i < k THEN q[i] ELSE IF i = k THEN e ELSE q[i - 1]
PROOF
  <1> DEFINE a == SubSeq(q, 1, k - 1)
             b == SubSeq(q, k, Len(q))
             u == <<e>>
             ae == a \o u
  <1>1. Len(q) \in Nat /\ \A i \in 1 .. Len(q) : q[i] \in S
    BY LenProperties, ElementOfSeq
  <1>2. /\ a \in Seq(S) /\ Len(a) = k - 1
        /\ \A i \in 1 .. k - 1 : a[i] = q[i]
    BY <1>1, SubSeqProperties
  <1>3. /\ b \in Seq(S) /\ Len(b) = Len(q) - k + 1
        /\ \A i \in 1 .. Len(q) - k + 1 : b[i] = q[k + i - 1]
    BY <1>1, SubSeqProperties
  <1>4. u \in Seq(S) /\ Len(u) = 1 /\ u[1] = e
    OBVIOUS
  <1>7. insert_elt(q, k, e) = ae \o b
    BY DEF insert_elt, InsertAt
  <1> HIDE DEF a, b, u
  <1>5. /\ ae \in Seq(S) /\ Len(ae) = k
        /\ \A i \in 1 .. k : ae[i] = IF i <= k - 1 THEN a[i] ELSE u[i - (k - 1)]
    <2>1. /\ ae \in Seq(S) /\ Len(ae) = Len(a) + Len(u)
          /\ \A i \in 1 .. Len(a) + Len(u) :
               ae[i] = IF i <= Len(a) THEN a[i] ELSE u[i - Len(a)]
      BY <1>2, <1>4, ConcatProperties
    <2>2. Len(a) + Len(u) = k BY <1>1, <1>2, <1>4
    <2> HIDE DEF ae
    <2> QED BY <2>1, <2>2, <1>2
  <1> HIDE DEF ae
  <1>6. /\ ae \o b \in Seq(S) /\ Len(ae \o b) = Len(q) + 1
        /\ \A i \in 1 .. Len(q) + 1 : (ae \o b)[i] = IF i <= k THEN ae[i] ELSE b[i - k]
    <2>1. /\ ae \o b \in Seq(S) /\ Len(ae \o b) = Len(ae) + Len(b)
          /\ \A i \in 1 .. Len(ae) + Len(b) :
               (ae \o b)[i] = IF i <= Len(ae) THEN ae[i] ELSE b[i - Len(ae)]
      BY <1>3, <1>5, ConcatProperties
    <2>2. Len(ae) + Len(b) = Len(q) + 1 BY <1>1, <1>3, <1>5
    <2>3. \A i \in 1 .. Len(q) + 1 : (ae \o b)[i] = IF i <= k THEN ae[i] ELSE b[i - k]
      BY <2>1, <2>2, <1>5, Zenon
    <2> QED BY <2>1, <2>2, <2>3
  <1> DEFINE r == ae \o b
  <1>9. \A i \in 1 .. Len(q) + 1 : r[i] = IF i <= k THEN ae[i] ELSE b[i - k]
    BY <1>6
  <1>10. r \in Seq(S) /\ Len(r) = Len(q) + 1 /\ insert_elt(q, k, e) = r
    BY <1>6, <1>7
  <1> HIDE DEF r
  <1>8. ASSUME NEW i \in 1 .. Len(q) + 1
        PROVE  r[i] = IF i < k THEN q[i] ELSE IF i = k THEN e ELSE q[i - 1]
    <2>1. CASE i < k
      <3>1. i \in 1 .. k /\ i <= k - 1 /\ i \in 1 .. k - 1 /\ i <= k BY <2>1, <1>1
      <3> QED BY <3>1, <2>1, <1>9, <1>5, <1>2
    <2>2. CASE i = k
      <3>1. i \in 1 .. k /\ ~(i <= k - 1) /\ i - (k - 1) = 1 BY <2>2, <1>1
      <3> QED BY <3>1, <2>2, <1>9, <1>5, <1>4
    <2>3. CASE i > k
      <3>1. /\ i - k \in 1 .. Len(q) - k + 1 /\ ~(i <= k) /\ k + (i - k) - 1 = i - 1
        BY <2>3, <1>1
      <3>2. r[i] = b[i - k] BY <3>1, <1>9
      <3> QED BY <3>1, <3>2, <2>3, <1>3
    <2> QED BY <2>1, <2>2, <2>3, <1>1
  <1> QED BY <1>8, <1>10

\* Inserting adds the element, and nothing else, and once.
LEMMA InsertRange ==
  ASSUME NEW S, NEW q \in Seq(S), NEW k \in 1 .. Len(q) + 1, NEW e \in S
  PROVE  /\ Range(insert_elt(q, k, e)) = Range(q) \cup {e}
         /\ IsInjective(q) /\ e \notin Range(q) => IsInjective(insert_elt(q, k, e))
PROOF
  <1> DEFINE r == insert_elt(q, k, e)
  <1>1. /\ r \in Seq(S) /\ Len(r) = Len(q) + 1
        /\ \A i \in 1 .. Len(q) + 1 :
             r[i] = IF i < k THEN q[i] ELSE IF i = k THEN e ELSE q[i - 1]
    BY InsertElements
  <1>2. Len(q) \in Nat BY LenProperties
  <1>3. /\ Range(r) = {r[i] : i \in 1 .. Len(q) + 1}
        /\ IsInjective(r) <=> \A i, j \in 1 .. Len(q) + 1 : r[i] = r[j] => i = j
    BY <1>1, QueueRange
  <1>4. /\ Range(q) = {q[i] : i \in 1 .. Len(q)}
        /\ IsInjective(q) <=> \A i, j \in 1 .. Len(q) : q[i] = q[j] => i = j
    BY QueueRange
  <1> HIDE DEF r
  <1>5. ASSUME NEW x \in Range(q) PROVE x \in Range(r)
    <2>1. PICK i \in 1 .. Len(q) : x = q[i] BY <1>4
    <2>2. CASE i < k
      BY <2>1, <2>2, <1>1, <1>2, <1>3
    <2>3. CASE i >= k
      <3>1. i + 1 \in 1 .. Len(q) + 1 /\ ~(i + 1 < k) /\ i + 1 # k /\ (i + 1) - 1 = i
        BY <2>3, <1>2
      <3>2. r[i + 1] = q[(i + 1) - 1] BY <3>1, <1>1
      <3> QED BY <2>1, <3>1, <3>2, <1>3
    <2> QED BY <2>2, <2>3, <1>2
  <1>6. e \in Range(r)
    BY <1>1, <1>2, <1>3
  <1>7. ASSUME NEW x \in Range(r) PROVE x \in Range(q) \cup {e}
    <2>1. PICK i \in 1 .. Len(q) + 1 : x = r[i] BY <1>3
    <2>2. i < k => i \in 1 .. Len(q) BY <1>2
    <2>3. i > k => i - 1 \in 1 .. Len(q) BY <1>2
    <2> QED BY <2>1, <2>2, <2>3, <1>1, <1>2, <1>4
  <1>8. ASSUME IsInjective(q), e \notin Range(q) PROVE IsInjective(r)
    <2> SUFFICES ASSUME NEW i \in 1 .. Len(q) + 1, NEW j \in 1 .. Len(q) + 1, r[i] = r[j]
                 PROVE  i = j
      BY <1>3
    <2>1. \A m \in 1 .. Len(q) : q[m] # e BY <1>8, <1>4
    <2>2. \A m, n \in 1 .. Len(q) : q[m] = q[n] => m = n BY <1>8, <1>4
    <2>3. \A m \in 1 .. Len(q) + 1 :
            /\ m < k => m \in 1 .. Len(q) /\ r[m] = q[m]
            /\ m = k => r[m] = e
            /\ m > k => m - 1 \in 1 .. Len(q) /\ r[m] = q[m - 1]
      BY <1>1, <1>2
    <2>4. CASE i < k /\ j < k BY <2>2, <2>3, <2>4
    <2>5. CASE i > k /\ j > k
      <3>1. i - 1 = j - 1 BY <2>2, <2>3, <2>5
      <3> QED BY <3>1
    <2>6. CASE (i < k /\ j > k) \/ (i > k /\ j < k)
      <3>1. CASE i < k /\ j > k
        <4>1. i = j - 1 BY <2>2, <2>3, <3>1
        <4> QED BY <4>1, <3>1
      <3>2. CASE i > k /\ j < k
        <4>1. i - 1 = j BY <2>2, <2>3, <3>2
        <4> QED BY <4>1, <3>2
      <3> QED BY <2>6, <3>1, <3>2
    <2>7. CASE i = k \/ j = k BY <2>1, <2>3, <2>7
    <2> QED BY <2>4, <2>5, <2>6, <2>7
  <1> QED BY <1>5, <1>6, <1>7, <1>8 DEF r

\* An ordered queue stays ordered when insert_elt chooses the place.
LEMMA InsertOrdered ==
  ASSUME NEW S, NEW prio \in [S -> Int], NEW q \in Seq(S), NEW e \in S,
         NEW k \in insert_places(prio, q, e), Ordered(prio, q)
  PROVE  Ordered(prio, insert_elt(q, k, e))
PROOF
  <1> DEFINE r == insert_elt(q, k, e)
  <1>1. /\ k \in 1 .. Len(q) + 1
        /\ \A j \in 1 .. k - 1 : ~(prio[e] < prio[q[j]])
        /\ k <= Len(q) => prio[e] < prio[q[k]]
    BY DEF insert_places, is_gt_priority
  <1>2. /\ Len(r) = Len(q) + 1
        /\ \A i \in 1 .. Len(q) + 1 :
             r[i] = IF i < k THEN q[i] ELSE IF i = k THEN e ELSE q[i - 1]
    BY <1>1, InsertElements
  <1>3. Len(q) \in Nat /\ \A i \in 1 .. Len(q) : q[i] \in S /\ prio[q[i]] \in Int
    BY LenProperties, ElementOfSeq
  <1>4. \A i, j \in 1 .. Len(q) : i < j => prio[q[i]] <= prio[q[j]]
    BY DEF Ordered
  <1>5. prio[e] \in Int OBVIOUS
  <1>6. \A j \in 1 .. Len(q) : j < k => prio[q[j]] <= prio[e]
    BY <1>1, <1>3, <1>5
  <1>7. \A j \in 1 .. Len(q) : j >= k => prio[e] <= prio[q[j]]
    <2> TAKE j \in 1 .. Len(q)
    <2> HAVE j >= k
    <2>1. k \in 1 .. Len(q) /\ prio[e] < prio[q[k]] BY <1>1, <1>3
    <2>2. prio[q[k]] <= prio[q[j]] BY <2>1, <1>3, <1>4
    <2> QED BY <2>1, <2>2, <1>3, <1>5
  <1> HIDE DEF r
  <1>8. ASSUME NEW i \in 1 .. Len(q) + 1, NEW j \in 1 .. Len(q) + 1, i < j
        PROVE  prio[r[i]] <= prio[r[j]]
    <2>1. CASE j < k
      <3>1. i \in 1 .. Len(q) /\ j \in 1 .. Len(q) BY <1>1, <1>3, <1>8, <2>1
      <3> QED BY <3>1, <1>2, <1>1, <1>4, <1>8, <2>1
    <2>2. CASE j = k
      <3>1. i \in 1 .. Len(q) /\ i < k BY <1>1, <1>3, <1>8, <2>2
      <3> QED BY <3>1, <1>2, <1>6, <2>2
    <2>3. CASE j > k /\ i = k
      <3>1. j - 1 \in 1 .. Len(q) /\ j - 1 >= k BY <1>1, <1>3, <2>3
      <3> QED BY <3>1, <1>2, <1>7, <2>3
    <2>4. CASE j > k /\ i < k
      <3>1. j - 1 \in 1 .. Len(q) /\ i \in 1 .. Len(q) /\ i < j - 1 BY <1>1, <1>3, <2>4
      <3>2. r[i] = q[i] /\ r[j] = q[j - 1] BY <1>1, <1>2, <2>4
      <3> QED BY <3>1, <3>2, <1>4
    <2>5. CASE j > k /\ i > k
      <3>1. j - 1 \in 1 .. Len(q) /\ i - 1 \in 1 .. Len(q) /\ i - 1 < j - 1
        BY <1>1, <1>3, <1>8, <2>5
      <3>2. r[i] = q[i - 1] /\ r[j] = q[j - 1] BY <1>1, <1>2, <2>5
      <3> QED BY <3>1, <3>2, <1>4
    <2> QED BY <2>1, <2>2, <2>3, <2>4, <2>5, <1>1
  <1> QED BY <1>2, <1>8 DEF Ordered, r

\* All of that for the place insert_elt chooses.
LEMMA Insertion ==
  ASSUME NEW S, NEW prio \in [S -> Int], NEW q \in Seq(S), NEW e \in S,
         NEW k \in insert_places(prio, q, e)
  PROVE  /\ insert_elt(q, k, e) \in Seq(S) /\ insert_elt(q, k, e) # <<>>
         /\ Len(insert_elt(q, k, e)) = Len(q) + 1
         /\ Range(insert_elt(q, k, e)) = Range(q) \cup {e}
         /\ IsInjective(q) /\ e \notin Range(q) => IsInjective(insert_elt(q, k, e))
         /\ Ordered(prio, q) => Ordered(prio, insert_elt(q, k, e))
PROOF
  <1>1. k \in 1 .. Len(q) + 1 BY DEF insert_places
  <1>2. Len(q) \in Nat BY LenProperties
  <1>3. /\ insert_elt(q, k, e) \in Seq(S) /\ Len(insert_elt(q, k, e)) = Len(q) + 1
    BY <1>1, InsertElements
  <1>4. insert_elt(q, k, e) # <<>> BY <1>2, <1>3, EmptySeq
  <1>5. /\ Range(insert_elt(q, k, e)) = Range(q) \cup {e}
        /\ IsInjective(q) /\ e \notin Range(q) => IsInjective(insert_elt(q, k, e))
    BY <1>1, InsertRange
  <1>6. Ordered(prio, q) => Ordered(prio, insert_elt(q, k, e)) BY InsertOrdered
  <1> QED BY <1>3, <1>4, <1>5, <1>6

\* The first element is one of the queue; removing it leaves the others, in
\* their order.
LEMMA RemoveElements ==
  ASSUME NEW S, NEW q \in Seq(S), q # <<>>
  PROVE  /\ get_first(q) = q[1] /\ get_first(q) \in Range(q)
         /\ remove_elt(q) \in Seq(S)
         /\ Len(remove_elt(q)) = Len(q) - 1 /\ Len(q) \in Nat \ {0}
         /\ Range(q) = Range(remove_elt(q)) \cup {get_first(q)}
         /\ IsInjective(q) => IsInjective(remove_elt(q)) /\ get_first(q) \notin Range(remove_elt(q))
         /\ \A prio : Ordered(prio, q) => Ordered(prio, remove_elt(q))
PROOF
  <1> DEFINE t == Tail(q)
  <1>1. Len(q) \in Nat \ {0} BY EmptySeq
  <1>2. t \in Seq(S) /\ Len(t) = Len(q) - 1 /\ \A i \in 1 .. Len(q) - 1 : t[i] = q[i + 1]
    BY HeadTailProperties
  <1>3. Head(q) = q[1] OBVIOUS
  <1>4. /\ Range(q) = {q[i] : i \in 1 .. Len(q)}
        /\ IsInjective(q) <=> \A i, j \in 1 .. Len(q) : q[i] = q[j] => i = j
    BY QueueRange
  <1>5. /\ Range(t) = {t[i] : i \in 1 .. Len(q) - 1}
        /\ IsInjective(t) <=> \A i, j \in 1 .. Len(q) - 1 : t[i] = t[j] => i = j
    BY <1>2, QueueRange
  <1> HIDE DEF t
  <1>6. Range(q) = Range(t) \cup {q[1]}
    <2>1. ASSUME NEW x \in Range(q) PROVE x \in Range(t) \cup {q[1]}
      <3>1. PICK i \in 1 .. Len(q) : x = q[i] BY <1>4
      <3>2. i # 1 => i - 1 \in 1 .. Len(q) - 1 /\ (i - 1) + 1 = i BY <1>1
      <3> QED BY <3>1, <3>2, <1>2, <1>5
    <2>2. ASSUME NEW x \in Range(t) PROVE x \in Range(q)
      <3>1. PICK i \in 1 .. Len(q) - 1 : x = t[i] BY <1>5
      <3>2. i + 1 \in 1 .. Len(q) BY <1>1
      <3> QED BY <3>1, <3>2, <1>2, <1>4
    <2> QED BY <2>1, <2>2, <1>1, <1>4
  <1>7. ASSUME IsInjective(q) PROVE IsInjective(t) /\ q[1] \notin Range(t)
    BY <1>7, <1>1, <1>2, <1>4, <1>5
  <1>8. ASSUME NEW prio, Ordered(prio, q) PROVE Ordered(prio, t)
    <2> SUFFICES ASSUME NEW i \in 1 .. Len(q) - 1, NEW j \in 1 .. Len(q) - 1, i < j
                 PROVE  prio[t[i]] <= prio[t[j]]
      BY <1>1, <1>2 DEF Ordered
    <2>1. i + 1 \in 1 .. Len(q) /\ j + 1 \in 1 .. Len(q) /\ i + 1 < j + 1 BY <1>1
    <2>2. prio[q[i + 1]] <= prio[q[j + 1]] BY <2>1, <1>8 DEF Ordered
    <2> QED BY <2>2, <1>2
  <1>9. q[1] \in Range(q) BY <1>1, <1>4
  <1> QED BY <1>1, <1>2, <1>3, <1>6, <1>7, <1>8, <1>9 DEF get_first, remove_elt, t

\* In an ordered queue nothing is more urgent than the first element.
LEMMA FirstIsMin ==
  ASSUME NEW S, NEW prio \in [S -> Int], NEW q \in Seq(S), q # <<>>, Ordered(prio, q),
         NEW x \in Range(q)
  PROVE  prio[get_first(q)] <= prio[x]
PROOF
  <1>1. Len(q) \in Nat \ {0} BY EmptySeq
  <1>2. PICK i \in 1 .. Len(q) : x = q[i] BY QueueRange
  <1>3. get_first(q) = q[1] BY RemoveElements
  <1>4. q[1] \in S /\ prio[q[1]] \in Int BY <1>1, ElementOfSeq
  <1>5. CASE i = 1 BY <1>2, <1>3, <1>4, <1>5
  <1>6. CASE i # 1
    <2>1. 1 \in 1 .. Len(q) /\ 1 < i BY <1>1, <1>6
    <2> QED BY <2>1, <1>2, <1>3 DEF Ordered
  <1> QED BY <1>5, <1>6

\* Only the ranks of the elements of the queue matter to its order.
LEMMA OrderedFrame ==
  ASSUME NEW S, NEW q \in Seq(S), NEW p1, NEW p2, Ordered(p1, q),
         \A x \in Range(q) : p1[x] = p2[x]
  PROVE  Ordered(p2, q)
PROOF
  <1>1. \A i \in 1 .. Len(q) : q[i] \in Range(q) BY QueueRange
  <1> QED BY <1>1 DEF Ordered

\* The empty queue.
LEMMA EmptyQueue ==
  ASSUME NEW S
  PROVE  /\ <<>> \in Seq(S) /\ Range(<<>>) = {} /\ IsInjective(<<>>)
         /\ \A prio : Ordered(prio, <<>>)
         /\ \A q \in Seq(S) : q = <<>> <=> Range(q) = {}
PROOF
  <1>1. <<>> \in Seq(S) /\ Len(<<>>) = 0 BY EmptySeq
  <1>2. Range(<<>>) = {} /\ IsInjective(<<>>)
    <2>1. DOMAIN <<>> = {} OBVIOUS
    <2> QED BY <2>1 DEF Range, IsInjective
  <1>3. \A prio : Ordered(prio, <<>>) BY <1>1 DEF Ordered
  <1>4. \A q \in Seq(S) : q # <<>> => Range(q) # {} BY RemoveElements
  <1> QED BY <1>1, <1>2, <1>3, <1>4

-----------------------------------------------------------------------------
\* Type correctness, together with what the control state implies.
TypeInv == TypeOK /\ Control

LEMMA TypeInvInit == Init => TypeInv
PROOF
  <1> SUFFICES ASSUME Init PROVE TypeInv OBVIOUS
  <1>1. BssContext \in Context BY Constants DEF BssContext, Context, Date
  <1>2. context \in [Contexts -> Context] BY <1>1 DEF Init, HighLevelInitState
  <1>3. <<>> \in Seq(Contexts) BY EmptyQueue
  <1>4. TypeOK BY <1>2, <1>3, Constants
    DEF Init, HighLevelInitState, TypeOK, HighLevelTypeOK, Modes, Causes
  <1>5. Control BY Constants DEF Init, HighLevelInitState, Control, BssContext
  <1> QED BY <1>4, <1>5 DEF TypeInv

\* The switch to the first ready context.
LEMMA ChooseNextType ==
  ASSUME ready \in Seq(Contexts), sched_choose_next
  PROVE  ready' \in Seq(Contexts) /\ esp0' \in Contexts /\ mode' = "user" /\ cause' = cause
PROOF
  <1>1. CASE ready = <<>>
    BY <1>1, Constants DEF sched_choose_next, hw_context_switch
  <1>2. CASE ready # <<>>
    <2>1. get_first(ready) \in Contexts /\ remove_elt(ready) \in Seq(Contexts)
      BY <1>2, RemoveElements, QueueRange
    <2> QED BY <1>2, <2>1 DEF sched_choose_next, hw_context_switch
  <1> QED BY <1>1, <1>2

LEMMA TypeInvNext == TypeInv /\ [Next]_vars => TypeInv'
PROOF
  <1> SUFFICES ASSUME TypeInv, [Next]_vars PROVE TypeInv' OBVIOUS
  <1>0. /\ context \in [Contexts -> Context] /\ mode \in Modes /\ cause \in Causes
        /\ esp0 \in Contexts \cup {NoContext} /\ idx_reserve \in 0 .. RESERVE_SIZE
        /\ current_time \in 0 .. MaxTime /\ next_wake_date \in Date
        /\ ready \in Seq(Contexts) /\ waiting \in Seq(Contexts) /\ init_i \in 0 .. nb_tasks
    BY DEF TypeInv, TypeOK, HighLevelTypeOK
  <1>1. CASE HighLevelInit
    <2> USE <1>1 DEF HighLevelInit, high_level_init, queueVars
    <2>1. context' \in [Contexts -> Context]
      <3>1. \A c \in Tasks : c \in Nat BY DEF Tasks
      <3> QED BY <1>0, <3>1, InitContextTypes, Constants
    <2>2. TypeOK' BY <1>0, <2>1 DEF TypeOK, HighLevelTypeOK, Modes
    <2>3. \A c \in Contexts : context'[c].wakeup_date = 0
      <3>1. \A c \in Contexts, i \in Nat : context_init(c, i).wakeup_date = 0
        BY <1>0, Constants DEF TypeInv, Control, context_init, Context
      <3>2. idle_init.wakeup_date = 0
        BY <1>0, Constants, InitContextTypes DEF idle_init, Context
      <3>3. \A c \in Tasks : c \in Nat BY DEF Tasks
      <3> QED BY <3>1, <3>2, <3>3
    <2>4. Control' BY <2>3 DEF TypeInv, Control
    <2> QED BY <2>2, <2>4 DEF TypeInv
  <1>2. CASE scheduler_init_task
    <2> USE <1>2 DEF scheduler_init_task
    <2>1. init_i \in Contexts /\ TaskPriority[init_i] \in Nat
      BY <1>0, Constants, PriorityAssumption DEF Contexts, context_idle
    <2>2. context[init_i].priority \in Nat /\ context[init_i] \in Context
      BY <1>0, <2>1 DEF Context
    <2>3. context' \in [Contexts -> Context]
      <3>1. [context[init_i] EXCEPT !.priority =
               IF SCHEDULING = "FP" THEN TaskPriority[init_i] ELSE @] \in Context
        BY <2>1, <2>2, ContextTypes
      <3> QED BY <1>0, <3>1
    <2>4. PICK k \in insert_places(ready_get_priority(context'), ready, init_i) :
            ready' = insert_elt(ready, k, init_i)
      OBVIOUS
    <2>5. ready' \in Seq(Contexts)
      BY <1>0, <2>1, <2>4, InsertElements DEF insert_places
    <2>6. TypeOK' BY <1>0, <2>3, <2>5, Constants DEF TypeOK, HighLevelTypeOK
    <2>7. \A c \in Contexts : context'[c].wakeup_date = 0
      BY <1>0, <2>1, <2>2 DEF TypeInv, Control, Context
    <2>8. Control' BY <2>7 DEF TypeInv, Control
    <2> QED BY <2>6, <2>8 DEF TypeInv
  <1>3. CASE boot
    <2>1. ready' \in Seq(Contexts) /\ esp0' \in Contexts /\ mode' = "user" /\ cause' = cause
      BY <1>0, <1>3, ChooseNextType DEF boot
    <2>2. TypeOK' BY <1>0, <1>3, <2>1 DEF boot, TypeOK, HighLevelTypeOK, Modes
    <2>3. Control' BY <1>3, <2>1 DEF boot, TypeInv, Control
    <2> QED BY <2>2, <2>3 DEF TypeInv
  <1>4. CASE yield
    <2>1. PICK w \in WakeupIncrements, d \in DeadlineIncrements : c_syscall_yield(w, d)
      BY <1>4 DEF yield
    <2>2. mode = "user" /\ esp0 \in Contexts
      BY <2>1 DEF c_syscall_yield, TaskRunning, TypeInv, Control
    <2>3. context' \in [Contexts -> Context]
      <3>1. yield_dates(context[esp0], w, d) \in Context BY <1>0, <2>2, ContextTypes
      <3> QED BY <1>0, <2>1, <3>1 DEF c_syscall_yield
    <2>4. CASE ~fits(waiting)
      <3>1. TypeOK'
        BY <1>0, <2>1, <2>3, <2>4
        DEF c_syscall_yield, Halt, TypeOK, HighLevelTypeOK, Modes, Causes
      <3>2. Control' BY <2>1, <2>4 DEF c_syscall_yield, Halt, TypeInv, Control
      <3> QED BY <3>1, <3>2 DEF TypeInv
    <2>5. CASE fits(waiting)
      <3>1. sched_set_waiting(context', esp0) /\ sched_choose_next
        BY <2>1, <2>5 DEF c_syscall_yield
      <3>2. PICK k \in insert_places(waiting_get_priority(context'), waiting, esp0) :
              /\ waiting' = insert_elt(waiting, k, esp0)
              /\ next_wake_date' = context'[get_first(waiting')].wakeup_date
        BY <3>1 DEF sched_set_waiting, timer_wake_at
      <3>3. waiting' \in Seq(Contexts) /\ esp0 \in Range(waiting')
        BY <1>0, <2>2, <3>2, InsertElements, InsertRange DEF insert_places
      <3>4. get_first(waiting') \in Contexts
        <4>1. waiting' # <<>> BY <3>3, EmptyQueue
        <4> QED BY <3>3, <4>1, RemoveElements, QueueRange
      <3>5. next_wake_date' \in Date BY <2>3, <3>2, <3>4 DEF Context
      <3>6. ready' \in Seq(Contexts) /\ esp0' \in Contexts /\ mode' = "user" /\ cause' = cause
        BY <1>0, <3>1, ChooseNextType
      <3>7. TypeOK'
        BY <1>0, <2>1, <2>3, <3>3, <3>5, <3>6 DEF c_syscall_yield, TypeOK, HighLevelTypeOK, Modes
      <3>8. Control' BY <2>2, <3>6 DEF TypeInv, Control
      <3> QED BY <3>7, <3>8 DEF TypeInv
    <2> QED BY <2>4, <2>5
  <1>5. CASE syscall_dup_thread
    <2> USE <1>5 DEF syscall_dup_thread
    <2>1. mode = "user" /\ esp0 \in Contexts /\ idx_reserve # 0
      BY DEF TaskRunning, may_dup, TypeInv, Control
    <2> DEFINE ctx2 == ReserveBase + idx_reserve'
    <2>2. idx_reserve' \in 0 .. RESERVE_SIZE /\ ctx2 \in Contexts
      BY <1>0, <2>1, Constants DEF ReserveBase, Contexts, context_idle
    <2>3. context' = dup_contexts(esp0, ctx2) OBVIOUS
    <2>4. PICK k \in insert_places(ready_get_priority(context'), ready, ctx2) :
            ready' = insert_elt(ready, k, ctx2)
      OBVIOUS
    <2> HIDE DEF ctx2
    <2>5. context' \in [Contexts -> Context]
      <3>1. [context[ctx2] EXCEPT !.range = 0] \in Context BY <1>0, <2>2, ContextTypes
      <3> QED BY <1>0, <2>1, <2>2, <2>3, <3>1 DEF dup_contexts, copy_context
    <2>6. ready' \in Seq(Contexts)
      BY <1>0, <2>2, <2>4, InsertElements DEF insert_places
    <2>7. TypeOK' BY <1>0, <2>2, <2>5, <2>6, Constants
      DEF hw_context_switch, TypeOK, HighLevelTypeOK, Modes
    <2>8. Control' BY <2>1 DEF hw_context_switch, TypeInv, Control
    <2> QED BY <2>7, <2>8 DEF TypeInv
  <1>6. CASE syscall_or_exception
    <2>1. TypeOK'
      BY <1>0, <1>6 DEF syscall_or_exception, syscall_putchar, syscall_trigger_bug,
        syscall_dup_thread_fatal, bad_syscall, default_interrupt_handler, queueVars,
        hw_context_switch, Halt, TypeOK, HighLevelTypeOK, Modes, Causes
    <2>2. Control'
      BY <1>6 DEF syscall_or_exception, syscall_putchar, syscall_trigger_bug,
        syscall_dup_thread_fatal, bad_syscall, default_interrupt_handler, queueVars,
        hw_context_switch, Halt, TypeInv, Control, TaskRunning
    <2> QED BY <2>1, <2>2 DEF TypeInv
  <1>7. CASE TimerInterrupt
    <2>1. TypeOK'
      BY <1>0, <1>7, Constants DEF TimerInterrupt, timer_interrupt, timer_dont_wake, queueVars,
        hw_context_switch, TypeOK, HighLevelTypeOK, Modes
    <2>2. Control'
      BY <1>7 DEF TimerInterrupt, timer_interrupt, timer_dont_wake, queueVars,
        hw_context_switch, TypeInv, Control
    <2> QED BY <2>1, <2>2 DEF TypeInv
  <1>8. CASE sched_wake_task
    <2> USE <1>8 DEF sched_wake_task
    <2>1. waiting # <<>> BY DEF first_is_due
    <2>2. waiting' \in Seq(Contexts) /\ get_first(waiting) \in Contexts
      BY <1>0, <2>1, RemoveElements, QueueRange
    <2>3. ready' \in Seq(Contexts)
      <3>1. CASE fits(ready)
        <4>1. PICK k \in insert_places(ready_get_priority(context), ready, get_first(waiting)) :
                ready' = insert_elt(ready, k, get_first(waiting))
          BY <3>1
        <4> QED BY <1>0, <2>2, <4>1, InsertElements DEF insert_places
      <3>2. CASE ~fits(ready) BY <1>0, <3>2
      <3> QED BY <3>1, <3>2
    <2>4. TypeOK' BY <1>0, <2>2, <2>3 DEF Halt, TypeOK, HighLevelTypeOK, Modes, Causes
    <2>5. Control' BY DEF Halt, TypeInv, Control
    <2> QED BY <2>4, <2>5 DEF TypeInv
  <1>9. CASE sched_wake_done
    <2>1. ready' \in Seq(Contexts) /\ esp0' \in Contexts /\ mode' = "user" /\ cause' = cause
      <3>1. CASE context_is_idle(esp0)
        BY <1>0, <1>9, <3>1, ChooseNextType DEF sched_wake_done
      <3>2. CASE ~context_is_idle(esp0)
        <4>1. sched_maybe_preempt(esp0) /\ esp0 \in Contexts
          BY <1>9, <3>2 DEF sched_wake_done, TypeInv, Control
        <4>2. CASE preempts(esp0)
          <5>1. PICK k \in insert_places(ready_get_priority(context), ready, esp0) :
                  /\ ready' = remove_elt(insert_elt(ready, k, esp0))
                  /\ hw_context_switch(get_first(insert_elt(ready, k, esp0)))
            BY <4>1, <4>2 DEF sched_maybe_preempt
          <5>2. /\ insert_elt(ready, k, esp0) \in Seq(Contexts)
                /\ esp0 \in Range(insert_elt(ready, k, esp0))
            BY <1>0, <4>1, InsertElements, InsertRange DEF insert_places
          <5>3. insert_elt(ready, k, esp0) # <<>> BY <5>2, EmptyQueue
          <5>4. /\ get_first(insert_elt(ready, k, esp0)) \in Contexts
                /\ remove_elt(insert_elt(ready, k, esp0)) \in Seq(Contexts)
            BY <5>2, <5>3, RemoveElements, QueueRange
          <5> QED BY <5>1, <5>4 DEF hw_context_switch
        <4>3. CASE ~preempts(esp0)
          BY <1>0, <4>1, <4>3 DEF sched_maybe_preempt, hw_context_switch
        <4> QED BY <4>2, <4>3
      <3> QED BY <3>1, <3>2
    <2>2. TypeOK' BY <1>0, <1>9, <2>1 DEF sched_wake_done, TypeOK, HighLevelTypeOK, Modes
    <2>3. Control' BY <1>9, <2>1 DEF sched_wake_done, TypeInv, Control
    <2> QED BY <2>2, <2>3 DEF TypeInv
  <1>10. CASE UNCHANGED vars
    BY <1>0, <1>10 DEF vars, TypeInv, TypeOK, HighLevelTypeOK, Control
  <1> QED
    BY <1>1, <1>2, <1>3, <1>4, <1>5, <1>6, <1>7, <1>8, <1>9, <1>10 DEF Next

\* Type correctness of the kernel: in particular the dates stay on 64 bits
\* although yield adds to them what the task asks for, and after boot tss.esp0
\* always points to a context.
THEOREM TypeCorrect == Spec => []TypeOK
PROOF
  <1>1. TypeInv => TypeOK BY DEF TypeInv
  <1> QED BY TypeInvInit, TypeInvNext, <1>1, PTL DEF Spec

-----------------------------------------------------------------------------
\* What the steps do to the queues, in terms of the elements they hold.

LEMMA Ranks ==
  ASSUME NEW ctxs \in [Contexts -> Context]
  PROVE  /\ waiting_get_priority(ctxs) \in [Contexts -> Int]
         /\ ready_get_priority(ctxs) \in [Contexts -> Int]
         /\ \A c \in Contexts : waiting_get_priority(ctxs)[c] = ctxs[c].wakeup_date
         /\ \A c, d \in Contexts :
              HasPriorityOver(ctxs, c, d) <=> ready_get_priority(ctxs)[c] < ready_get_priority(ctxs)[d]
  BY DEF waiting_get_priority, ready_get_priority, HasPriorityOver, Context, Date

\* Insertion, for the ready queue.
LEMMA ReadyInsertion ==
  ASSUME NEW ctxs \in [Contexts -> Context], NEW q \in Seq(Contexts), NEW e \in Contexts,
         NEW k \in insert_places(ready_get_priority(ctxs), q, e)
  PROVE  /\ insert_elt(q, k, e) \in Seq(Contexts) /\ insert_elt(q, k, e) # <<>>
         /\ Range(insert_elt(q, k, e)) = Range(q) \cup {e}
         /\ IsInjective(q) /\ e \notin Range(q) => IsInjective(insert_elt(q, k, e))
         /\ Ordered(ready_get_priority(ctxs), q) =>
              Ordered(ready_get_priority(ctxs), insert_elt(q, k, e))
PROOF
  <1> DEFINE prio == ready_get_priority(ctxs)
  <1>1. prio \in [Contexts -> Int] BY Ranks
  <1>2. k \in insert_places(prio, q, e) OBVIOUS
  <1> HIDE DEF prio
  <1>3. /\ insert_elt(q, k, e) \in Seq(Contexts) /\ insert_elt(q, k, e) # <<>>
        /\ Range(insert_elt(q, k, e)) = Range(q) \cup {e}
        /\ IsInjective(q) /\ e \notin Range(q) => IsInjective(insert_elt(q, k, e))
        /\ Ordered(prio, q) => Ordered(prio, insert_elt(q, k, e))
    BY <1>1, <1>2, Insertion
  <1> QED BY <1>3 DEF prio

\* sched_choose_next takes the first ready context out of the queue.
LEMMA ChooseNextEffect ==
  ASSUME ready \in Seq(Contexts), sched_choose_next
  PROVE  /\ mode' = "user" /\ cause' = cause
         /\ ready = <<>> => ready' = <<>> /\ esp0' = context_idle
         /\ ready # <<>> => /\ esp0' = get_first(ready)
                            /\ Range(ready) = Range(ready') \cup {esp0'}
                            /\ IsInjective(ready) => IsInjective(ready') /\ esp0' \notin Range(ready')
                            /\ \A prio : Ordered(prio, ready) => Ordered(prio, ready')
PROOF
  <1>1. CASE ready = <<>> BY <1>1 DEF sched_choose_next, hw_context_switch
  <1>2. CASE ready # <<>>
    <2>1. ready' = remove_elt(ready) /\ esp0' = get_first(ready) /\ mode' = "user" /\ cause' = cause
      BY <1>2 DEF sched_choose_next, hw_context_switch
    <2> QED BY <1>2, <2>1, RemoveElements
  <1> QED BY <1>1, <1>2

\* sched_maybe_preempt exchanges the running context with the first ready one,
\* or leaves both.
LEMMA MaybePreemptEffect ==
  ASSUME TypeInv, esp0 \in Contexts, sched_maybe_preempt(esp0)
  PROVE  /\ mode' = "user" /\ cause' = cause
         /\ Range(ready') \cup {esp0'} = Range(ready) \cup {esp0}
         /\ IsInjective(ready) /\ esp0 \notin Range(ready) =>
              IsInjective(ready') /\ esp0' \notin Range(ready')
         /\ \/ ~preempts(esp0) /\ ready' = ready /\ esp0' = esp0
            \/ preempts(esp0) /\
               \E k \in insert_places(ready_get_priority(context), ready, esp0) :
                 /\ ready' = remove_elt(insert_elt(ready, k, esp0))
                 /\ esp0' = get_first(insert_elt(ready, k, esp0))
PROOF
  <1>0. context \in [Contexts -> Context] /\ ready \in Seq(Contexts)
    BY DEF TypeInv, TypeOK, HighLevelTypeOK
  <1>1. CASE ~preempts(esp0)
    BY <1>1 DEF sched_maybe_preempt, hw_context_switch
  <1>2. CASE preempts(esp0)
    <2>1. PICK k \in insert_places(ready_get_priority(context), ready, esp0) :
            /\ ready' = remove_elt(insert_elt(ready, k, esp0))
            /\ hw_context_switch(get_first(insert_elt(ready, k, esp0)))
      BY <1>2 DEF sched_maybe_preempt
    <2> DEFINE q == insert_elt(ready, k, esp0)
    <2>2. /\ q \in Seq(Contexts) /\ q # <<>> /\ Range(q) = Range(ready) \cup {esp0}
          /\ IsInjective(ready) /\ esp0 \notin Range(ready) => IsInjective(q)
      BY <1>0, ReadyInsertion
    <2>3. ready' = remove_elt(q) /\ esp0' = get_first(q) /\ mode' = "user" /\ cause' = cause
      BY <2>1 DEF hw_context_switch
    <2> HIDE DEF q
    <2>4. /\ Range(q) = Range(ready') \cup {esp0'}
          /\ IsInjective(q) => IsInjective(ready') /\ esp0' \notin Range(ready')
      BY <2>2, <2>3, RemoveElements
    <2> QED BY <1>2, <2>2, <2>3, <2>4 DEF q
  <1> QED BY <1>1, <1>2

\* A yield that does not fail queues the context and sets the timer.
LEMMA YieldEffect ==
  ASSUME TypeInv, TypeInv', NEW w, NEW d, c_syscall_yield(w, d), fits(waiting)
  PROVE  /\ sched_choose_next
         /\ waiting' # <<>>
         /\ Range(waiting') = Range(waiting) \cup {esp0}
         /\ IsInjective(waiting) /\ esp0 \notin Range(waiting) => IsInjective(waiting')
         /\ Ordered(waiting_get_priority(context'), waiting) =>
              Ordered(waiting_get_priority(context'), waiting')
         /\ next_wake_date' = context'[get_first(waiting')].wakeup_date
PROOF
  <1>0. /\ context' \in [Contexts -> Context] /\ waiting \in Seq(Contexts) /\ esp0 \in Contexts
    BY DEF c_syscall_yield, TaskRunning, TypeInv, TypeOK, HighLevelTypeOK, Control
  <1>1. sched_choose_next /\ sched_set_waiting(context', esp0)
    BY DEF c_syscall_yield
  <1>2. PICK k \in insert_places(waiting_get_priority(context'), waiting, esp0) :
          /\ waiting' = insert_elt(waiting, k, esp0)
          /\ next_wake_date' = context'[get_first(waiting')].wakeup_date
    BY <1>1 DEF sched_set_waiting, timer_wake_at
  <1>3. waiting_get_priority(context') \in [Contexts -> Int] BY <1>0, Ranks
  <1> QED BY <1>0, <1>1, <1>2, <1>3, Insertion

\* yield changes the dates of the running context only.
LEMMA YieldContexts ==
  ASSUME TypeInv, NEW w, NEW d, c_syscall_yield(w, d)
  PROVE  /\ mode = "user" /\ esp0 \in Contexts /\ esp0 # context_idle /\ cause = "none"
         /\ \A c \in Contexts \ {esp0} : context'[c] = context[c]
  BY DEF c_syscall_yield, TaskRunning, context_is_idle, TypeInv, TypeOK, HighLevelTypeOK, Control

\* dup_thread puts a copy of the running context in the ready queue.
LEMMA DupEffect ==
  ASSUME TypeInv, TypeInv', syscall_dup_thread
  PROVE  \E ctx2 \in Contexts \ {context_idle, NoContext} :
           /\ ctx2 \notin Live /\ Live' = Live \cup {ctx2}
           /\ ctx2 # esp0 => context'[ctx2] = context[esp0]
           /\ \A c \in Contexts \ {ctx2} : context'[c] = context[c]
           /\ Range(ready') = Range(ready) \cup {ctx2}
           /\ IsInjective(ready) /\ ctx2 \notin Range(ready) => IsInjective(ready')
           /\ Ordered(ready_get_priority(context'), ready) =>
                Ordered(ready_get_priority(context'), ready')
PROOF
  <1> USE DEF syscall_dup_thread
  <1>0. /\ context \in [Contexts -> Context] /\ context' \in [Contexts -> Context]
        /\ ready \in Seq(Contexts) /\ esp0 \in Contexts
    BY DEF TaskRunning, TypeInv, TypeOK, HighLevelTypeOK, Control
  <1> DEFINE ctx2 == ReserveBase + idx_reserve'
  <1>1. /\ ctx2 \in Contexts \ {context_idle, NoContext}
        /\ ctx2 \notin Live /\ Live' = Live \cup {ctx2}
    BY LiveFacts DEF may_dup, TypeInv, TypeOK, HighLevelTypeOK
  <1>2. context' = dup_contexts(esp0, ctx2) OBVIOUS
  <1>3. PICK k \in insert_places(ready_get_priority(context'), ready, ctx2) :
          ready' = insert_elt(ready, k, ctx2)
    OBVIOUS
  <1> HIDE DEF ctx2
  <1>4. /\ ctx2 # esp0 => context'[ctx2] = context[esp0]
        /\ \A c \in Contexts \ {ctx2} : context'[c] = context[c]
    BY <1>0, <1>1, <1>2 DEF dup_contexts, copy_context
  <1>6. /\ Range(ready') = Range(ready) \cup {ctx2}
        /\ IsInjective(ready) /\ ctx2 \notin Range(ready) => IsInjective(ready')
        /\ Ordered(ready_get_priority(context'), ready) =>
             Ordered(ready_get_priority(context'), ready')
    BY <1>0, <1>1, <1>3, ReadyInsertion
  <1> QED BY <1>1, <1>4, <1>6

\* One iteration of scheduler_init makes one task ready.
LEMMA InitTaskEffect ==
  ASSUME TypeInv, TypeInv', scheduler_init_task
  PROVE  /\ init_i \in Contexts
         /\ Range(ready') = Range(ready) \cup {init_i}
         /\ IsInjective(ready) /\ init_i \notin Range(ready) => IsInjective(ready')
         /\ \A c \in Contexts \ {init_i} : context'[c] = context[c]
         /\ Ordered(ready_get_priority(context'), ready) =>
              Ordered(ready_get_priority(context'), ready')
PROOF
  <1>0. /\ context \in [Contexts -> Context] /\ context' \in [Contexts -> Context]
        /\ ready \in Seq(Contexts) /\ init_i \in 0 .. nb_tasks
    BY DEF TypeInv, TypeOK, HighLevelTypeOK
  <1>1. init_i \in Contexts
    BY <1>0, Constants DEF scheduler_init_task, Contexts, context_idle
  <1>2. PICK k \in insert_places(ready_get_priority(context'), ready, init_i) :
          ready' = insert_elt(ready, k, init_i)
    BY DEF scheduler_init_task
  <1>4. \A c \in Contexts \ {init_i} : context'[c] = context[c]
    BY <1>0 DEF scheduler_init_task
  <1> QED BY <1>0, <1>1, <1>2, <1>4, ReadyInsertion

\* One iteration of sched_wake_tasks.
LEMMA WakeTaskEffect ==
  ASSUME TypeInv, sched_wake_task
  PROVE  /\ waiting # <<>> /\ get_first(waiting) \in Range(waiting)
         /\ context[get_first(waiting)].wakeup_date <= current_time
         /\ Range(waiting) = Range(waiting') \cup {get_first(waiting)}
         /\ IsInjective(waiting) => IsInjective(waiting') /\ get_first(waiting) \notin Range(waiting')
         /\ \A prio : Ordered(prio, waiting) => Ordered(prio, waiting')
         /\ \/ /\ fits(ready) /\ mode' = mode /\ cause' = cause
               /\ ready' # <<>>
               /\ Range(ready') = Range(ready) \cup {get_first(waiting)}
               /\ IsInjective(ready) /\ get_first(waiting) \notin Range(ready) => IsInjective(ready')
               /\ Ordered(ready_get_priority(context), ready) =>
                    Ordered(ready_get_priority(context), ready')
            \/ ~fits(ready) /\ mode' = "halted" /\ cause' = "assert" /\ ready' = ready
PROOF
  <1> USE DEF sched_wake_task
  <1>0. /\ context \in [Contexts -> Context] /\ ready \in Seq(Contexts) /\ waiting \in Seq(Contexts)
    BY DEF TypeInv, TypeOK, HighLevelTypeOK
  <1>1. waiting # <<>> /\ context[get_first(waiting)].wakeup_date <= current_time
    BY DEF first_is_due
  <1>2. /\ get_first(waiting) \in Range(waiting)
        /\ Range(waiting) = Range(waiting') \cup {get_first(waiting)}
        /\ IsInjective(waiting) => IsInjective(waiting') /\ get_first(waiting) \notin Range(waiting')
        /\ \A prio : Ordered(prio, waiting) => Ordered(prio, waiting')
    BY <1>0, <1>1, RemoveElements
  <1>3. get_first(waiting) \in Contexts BY <1>0, <1>2, QueueRange
  <1>5. CASE fits(ready)
    <2>1. PICK k \in insert_places(ready_get_priority(context), ready, get_first(waiting)) :
            ready' = insert_elt(ready, k, get_first(waiting))
      BY <1>5
    <2>2. /\ ready' # <<>>
          /\ Range(ready') = Range(ready) \cup {get_first(waiting)}
          /\ IsInjective(ready) /\ get_first(waiting) \notin Range(ready) => IsInjective(ready')
          /\ Ordered(ready_get_priority(context), ready) =>
               Ordered(ready_get_priority(context), ready')
      BY <1>0, <1>3, <2>1, ReadyInsertion
    <2> QED BY <1>1, <1>2, <1>5, <2>2
  <1>6. CASE ~fits(ready) BY <1>1, <1>2, <1>6 DEF Halt
  <1> QED BY <1>5, <1>6

\* The handlers that leave queues, contexts and timer alone.
LEMMA PlainHandlers ==
  ASSUME TypeInv, syscall_or_exception \/ HighLevelInit
  PROVE  /\ UNCHANGED <<esp0, idx_reserve, current_time, next_wake_date, ready, waiting, init_i>>
         /\ cause' # "assert" /\ cause # "assert"
         /\ syscall_or_exception => /\ context' = context /\ mode = "user" /\ mode' \in {"user", "halted"}
         /\ HighLevelInit => mode = "high_level_init" /\ mode' = "scheduler_init" /\ init_i = 0
  BY DEF syscall_or_exception, syscall_putchar, syscall_trigger_bug, syscall_dup_thread_fatal,
    bad_syscall, default_interrupt_handler, HighLevelInit, high_level_init, queueVars,
    hw_context_switch, Halt, TaskRunning, TypeInv, TypeOK, HighLevelTypeOK, Control

\* The tick.
LEMMA TickEffect ==
  ASSUME TypeInv, TimerInterrupt
  PROVE  /\ UNCHANGED <<context, cause, esp0, idx_reserve, ready, waiting, init_i>>
         /\ cause = "none" /\ mode = "user" /\ current_time <= current_time'
         /\ \/ mode' = "user" /\ next_wake_date' = next_wake_date
            \/ /\ mode' = "wake" /\ next_wake_date' = DATE_FAR_AWAY
               /\ next_wake_date <= current_time' /\ next_wake_date # DATE_FAR_AWAY
PROOF
  <1>0. current_time \in 0 .. MaxTime /\ next_wake_date \in Date
    BY DEF TypeInv, TypeOK, HighLevelTypeOK
  <1> QED BY <1>0, Constants DEF TimerInterrupt, timer_interrupt, timer_dont_wake, queueVars,
    hw_context_switch, TypeInv, Control, Date, DATE_FAR_AWAY

\* The end of the handler of a wake-up.
LEMMA WakeDoneEffect ==
  ASSUME TypeInv, sched_wake_done
  PROVE  /\ UNCHANGED <<context, idx_reserve, current_time, next_wake_date, waiting, init_i>>
         /\ mode = "wake" /\ esp0 \in Contexts /\ cause = "none" /\ ~first_is_due
         /\ esp0 = context_idle => sched_choose_next
         /\ esp0 # context_idle => sched_maybe_preempt(esp0)
         /\ mode' = "user" /\ cause' = cause
PROOF
  <1>1. /\ UNCHANGED <<context, idx_reserve, current_time, next_wake_date, waiting, init_i>>
        /\ mode = "wake" /\ esp0 \in Contexts /\ cause = "none" /\ ~first_is_due
        /\ esp0 = context_idle => sched_choose_next
        /\ esp0 # context_idle => sched_maybe_preempt(esp0)
    BY DEF sched_wake_done, context_is_idle, TypeInv, Control
  <1>2. ready \in Seq(Contexts) BY DEF TypeInv, TypeOK
  <1> QED BY <1>1, <1>2, ChooseNextEffect, MaybePreemptEffect

-----------------------------------------------------------------------------
\* No context is lost, and none is in two places.
LEMMA PlacementInit == Init => Placement
PROOF
  <1> SUFFICES ASSUME Init PROVE Placement OBVIOUS
  <1>1. ready = <<>> /\ waiting = <<>> /\ init_i = 0 /\ mode = "high_level_init" /\ esp0 = NoContext
    BY DEF Init, HighLevelInitState
  <1>2. Range(<<>>) = {} /\ IsInjective(<<>>) BY EmptyQueue
  <1>3. Started = {} /\ Running = {} BY <1>1 DEF Started, Running
  <1> QED BY <1>1, <1>2, <1>3 DEF Placement

LEMMA PlacementNext == TypeInv /\ TypeInv' /\ Placement /\ [Next]_vars => Placement'
PROOF
  <1> SUFFICES ASSUME TypeInv, TypeInv', Placement, [Next]_vars PROVE Placement' OBVIOUS
  <1>0. /\ ready \in Seq(Contexts) /\ waiting \in Seq(Contexts) /\ init_i \in 0 .. nb_tasks
        /\ mode \in Modes
    BY DEF TypeInv, TypeOK, HighLevelTypeOK
  <1>a. /\ IsInjective(ready) /\ IsInjective(waiting)
        /\ Range(ready) \cap Range(waiting) = {}
        /\ Running \cap (Range(ready) \cup Range(waiting)) = {}
        /\ cause # "assert" => Running \cup Range(ready) \cup Range(waiting) = Started
    BY DEF Placement
  <1>b. Live \subseteq Contexts \ {context_idle, NoContext}
    BY LiveFacts DEF TypeInv, TypeOK, HighLevelTypeOK
  <1>1. CASE HighLevelInit
    <2>1. /\ Started' = Started /\ Running' = Running /\ cause # "assert"
          /\ ready' = ready /\ waiting' = waiting
      BY <1>1, PlainHandlers DEF Started, Running
    <2> QED BY <1>a, <2>1 DEF Placement
  <1>2. CASE scheduler_init_task
    <2>1. /\ Range(ready') = Range(ready) \cup {init_i}
          /\ IsInjective(ready) /\ init_i \notin Range(ready) => IsInjective(ready')
      BY <1>2, InitTaskEffect
    <2>2. /\ Started = 0 .. init_i - 1 /\ Started' = 0 .. init_i /\ cause = "none" /\ cause' = "none"
          /\ waiting' = waiting /\ waiting = <<>> /\ esp0' = esp0 /\ esp0 = NoContext
      BY <1>0, <1>2 DEF scheduler_init_task, Started, TypeInv, Control
    <2>3. Running = {} /\ Running' = {} BY <2>2 DEF Running
    <2>4. Range(waiting) = {} BY <2>2, EmptyQueue
    <2>5. init_i \notin 0 .. init_i - 1 /\ 0 .. init_i = (0 .. init_i - 1) \cup {init_i}
      BY <1>0, Constants
    <2> QED BY <1>a, <2>1, <2>2, <2>3, <2>4, <2>5 DEF Placement
  <1>3. CASE boot
    <2>1. /\ waiting' = waiting /\ waiting = <<>> /\ esp0 = NoContext /\ cause = "none"
          /\ Started = Tasks /\ idx_reserve' = idx_reserve /\ idx_reserve = RESERVE_SIZE
          /\ sched_choose_next
      BY <1>3 DEF boot, Started, Tasks, TypeInv, Control
    <2>2. Live = Tasks /\ Live' = Live
      BY <2>1, LiveFacts DEF Live, Allocated, TypeInv, TypeOK, HighLevelTypeOK
    <2>3. Running = {} /\ Range(waiting) = {} BY <2>1, EmptyQueue DEF Running
    <2>4. Range(ready) = Tasks /\ ready # <<>>
      <3>1. Range(ready) = Tasks BY <1>a, <2>1, <2>3
      <3>2. 0 \in Tasks BY Constants DEF Tasks
      <3> QED BY <3>1, <3>2, EmptyQueue
    <2>5. /\ Range(ready) = Range(ready') \cup {esp0'} /\ mode' = "user" /\ cause' = cause
          /\ IsInjective(ready') /\ esp0' \notin Range(ready')
      BY <1>0, <1>a, <2>1, <2>4, ChooseNextEffect
    <2>6. Started' = Tasks BY <2>2, <2>5 DEF Started
    <2>7. Running' = {esp0'} BY <1>b, <2>2, <2>4, <2>5 DEF Running
    <2> QED BY <1>a, <2>1, <2>3, <2>4, <2>5, <2>6, <2>7 DEF Placement
  <1>4. CASE yield
    <2>1. PICK w \in WakeupIncrements, d \in DeadlineIncrements : c_syscall_yield(w, d)
      BY <1>4 DEF yield
    <2>2. mode = "user" /\ esp0 \in Contexts /\ esp0 # context_idle /\ cause = "none"
      BY <2>1, YieldContexts
    <2>3. Running = {esp0} /\ Started = Live
      BY <2>2, Constants DEF Running, Started
    <2>4. Live' = Live BY <2>1 DEF c_syscall_yield, Live, Allocated
    <2>5. CASE ~fits(waiting)
      <3>1. /\ ready' = ready /\ waiting' = waiting /\ esp0' = esp0 /\ cause' = "assert"
        BY <2>1, <2>5 DEF c_syscall_yield, Halt
      <3>2. Running' = Running BY <3>1 DEF Running
      <3> QED BY <1>a, <3>1, <3>2 DEF Placement
    <2>6. CASE fits(waiting)
      <3>1. /\ sched_choose_next
            /\ Range(waiting') = Range(waiting) \cup {esp0}
            /\ IsInjective(waiting) /\ esp0 \notin Range(waiting) => IsInjective(waiting')
        BY <2>1, <2>6, YieldEffect
      <3>2. IsInjective(waiting') BY <1>a, <2>3, <3>1
      <3>3. mode' = "user" /\ cause' = cause BY <1>0, <3>1, ChooseNextEffect
      <3>4. Started' = Live BY <2>4, <3>3 DEF Started
      <3>5. CASE ready = <<>>
        <4>1. ready' = <<>> /\ esp0' = context_idle BY <1>0, <3>1, <3>5, ChooseNextEffect
        <4>2. Running' = {} /\ Range(ready) = {} /\ Range(ready') = {} /\ IsInjective(ready')
          BY <3>5, <4>1, EmptyQueue DEF Running
        <4> QED BY <1>a, <2>2, <2>3, <3>1, <3>2, <3>3, <3>4, <4>2 DEF Placement
      <3>6. CASE ready # <<>>
        <4>1. /\ Range(ready) = Range(ready') \cup {esp0'}
              /\ IsInjective(ready') /\ esp0' \notin Range(ready')
          BY <1>0, <1>a, <3>1, <3>6, ChooseNextEffect
        <4>2. Running' = {esp0'} BY <1>a, <1>b, <2>2, <2>3, <4>1 DEF Running
        <4> QED BY <1>a, <2>2, <2>3, <3>1, <3>2, <3>3, <3>4, <4>1, <4>2 DEF Placement
      <3> QED BY <3>5, <3>6
    <2> QED BY <2>5, <2>6
  <1>5. CASE syscall_dup_thread
    <2>1. PICK ctx2 \in Contexts \ {context_idle, NoContext} :
            /\ ctx2 \notin Live /\ Live' = Live \cup {ctx2}
            /\ Range(ready') = Range(ready) \cup {ctx2}
            /\ IsInjective(ready) /\ ctx2 \notin Range(ready) => IsInjective(ready')
      BY <1>5, DupEffect
    <2>2. /\ mode = "user" /\ mode' = "user" /\ cause = "none" /\ cause' = "none"
          /\ esp0' = esp0 /\ waiting' = waiting
      BY <1>5 DEF syscall_dup_thread, hw_context_switch, TaskRunning, TypeInv, Control
    <2>3. Running' = Running /\ Started = Live /\ Started' = Live'
      BY <2>2 DEF Running, Started
    <2> QED BY <1>a, <2>1, <2>2, <2>3 DEF Placement
  <1>6. CASE syscall_or_exception
    <2>1. /\ UNCHANGED <<esp0, idx_reserve, ready, waiting>> /\ cause # "assert"
          /\ mode = "user" /\ mode' \in {"user", "halted"}
      BY <1>6, PlainHandlers
    <2>2. Running' = Running /\ Started' = Started
      BY <2>1 DEF Running, Started, Live, Allocated
    <2> QED BY <1>a, <2>1, <2>2 DEF Placement
  <1>7. CASE TimerInterrupt
    <2>1. /\ UNCHANGED <<esp0, idx_reserve, ready, waiting, cause>>
          /\ mode = "user" /\ mode' \in {"user", "wake"}
      BY <1>7, TickEffect
    <2>2. Running' = Running /\ Started' = Started
      BY <2>1 DEF Running, Started, Live, Allocated
    <2> QED BY <1>a, <2>1, <2>2 DEF Placement
  <1>8. CASE sched_wake_task
    <2> DEFINE c == get_first(waiting)
    <2>1. /\ c \in Range(waiting)
          /\ Range(waiting) = Range(waiting') \cup {c}
          /\ IsInjective(waiting) => IsInjective(waiting') /\ c \notin Range(waiting')
      BY <1>8, WakeTaskEffect
    <2>2. /\ UNCHANGED <<esp0, idx_reserve>> /\ mode = "wake" /\ cause = "none"
      BY <1>8 DEF sched_wake_task, TypeInv, Control
    <2>3. Running' = Running /\ Live' = Live BY <2>2 DEF Running, Live, Allocated
    <2>4. CASE fits(ready)
      <3>1. /\ mode' = mode /\ cause' = cause
            /\ Range(ready') = Range(ready) \cup {c}
            /\ IsInjective(ready) /\ c \notin Range(ready) => IsInjective(ready')
        BY <1>8, <2>4, WakeTaskEffect
      <3>2. Started' = Live /\ Started = Live BY <2>2, <2>3, <3>1 DEF Started
      <3> HIDE DEF c
      <3> QED BY <1>a, <2>1, <2>2, <2>3, <3>1, <3>2 DEF Placement
    <2>5. CASE ~fits(ready)
      <3>1. ready' = ready /\ cause' = "assert" BY <1>8, <2>5, WakeTaskEffect
      <3> HIDE DEF c
      <3> QED BY <1>a, <2>1, <2>3, <3>1 DEF Placement
    <2> QED BY <2>4, <2>5
  <1>9. CASE sched_wake_done
    <2>1. /\ UNCHANGED <<idx_reserve, waiting>> /\ mode = "wake" /\ esp0 \in Contexts /\ cause = "none"
          /\ esp0 = context_idle => sched_choose_next
          /\ esp0 # context_idle => sched_maybe_preempt(esp0)
          /\ mode' = "user" /\ cause' = cause
      BY <1>9, WakeDoneEffect
    <2>2. Started = Live /\ Started' = Live BY <2>1 DEF Started, Live, Allocated
    <2>3. CASE esp0 = context_idle /\ ready = <<>>
      <3>1. ready' = ready /\ esp0' = esp0 BY <1>0, <2>1, <2>3, ChooseNextEffect
      <3>2. Running' = Running BY <3>1 DEF Running
      <3> QED BY <1>a, <2>1, <2>2, <3>1, <3>2 DEF Placement
    <2>4. CASE esp0 = context_idle /\ ready # <<>>
      <3>1. /\ Range(ready) = Range(ready') \cup {esp0'}
            /\ IsInjective(ready') /\ esp0' \notin Range(ready')
        BY <1>0, <1>a, <2>1, <2>4, ChooseNextEffect
      <3>2. Running = {} BY <2>4 DEF Running
      <3>3. Running' = {esp0'} BY <1>a, <1>b, <2>1, <2>2, <3>1 DEF Running
      <3> QED BY <1>a, <2>1, <2>2, <3>1, <3>2, <3>3 DEF Placement
    <2>5. CASE esp0 # context_idle
      <3>1. Running = {esp0} BY <2>1, <2>5, Constants DEF Running
      <3>2. /\ Range(ready') \cup {esp0'} = Range(ready) \cup {esp0}
            /\ IsInjective(ready') /\ esp0' \notin Range(ready')
        BY <1>a, <2>1, <2>5, <3>1, MaybePreemptEffect
      <3>3. Running' = {esp0'} BY <1>a, <1>b, <2>1, <2>2, <3>1, <3>2 DEF Running
      <3> QED BY <1>a, <2>1, <2>2, <3>1, <3>2, <3>3 DEF Placement
    <2> QED BY <2>3, <2>4, <2>5
  <1>10. CASE UNCHANGED vars
    BY <1>10 DEF vars, Placement, Running, Started, Live, Allocated
  <1> QED
    BY <1>1, <1>2, <1>3, <1>4, <1>5, <1>6, <1>7, <1>8, <1>9, <1>10 DEF Next

\* Every live context is in exactly one place: running, once in the ready
\* queue, or once in the waiting queue.
THEOREM PlacementCorrect == Spec => []Placement
PROOF
  <1> QED BY TypeInvInit, TypeInvNext, PlacementInit, PlacementNext, PTL DEF Spec

-----------------------------------------------------------------------------
\* Writing a context that is not in a queue leaves the queue ordered.
LEMMA OrderFrame ==
  ASSUME TypeInv, TypeInv', NEW q \in Seq(Contexts), NEW x, x \notin Range(q),
         \A c \in Contexts \ {x} : context'[c] = context[c]
  PROVE  /\ Ordered(ready_get_priority(context), q) => Ordered(ready_get_priority(context'), q)
         /\ Ordered(waiting_get_priority(context), q) => Ordered(waiting_get_priority(context'), q)
PROOF
  <1>1. Range(q) \subseteq Contexts BY QueueRange
  <1>2. \A c \in Range(q) : context'[c] = context[c] BY <1>1
  <1>3. \A c \in Range(q) : ready_get_priority(context)[c] = ready_get_priority(context')[c]
    BY <1>1, <1>2 DEF ready_get_priority
  <1>4. \A c \in Range(q) : waiting_get_priority(context)[c] = waiting_get_priority(context')[c]
    BY <1>1, <1>2 DEF waiting_get_priority
  <1> QED BY <1>3, <1>4, OrderedFrame

\* Where the contexts are that the handlers write.
LEMMA PlacementFacts ==
  ASSUME TypeInv, Placement
  PROVE  /\ mode = "scheduler_init" => init_i \notin Range(ready)
         /\ mode \in {"user", "wake"} => Range(ready) \cup Range(waiting) \subseteq Live
         /\ mode \in {"user", "wake"} /\ esp0 # context_idle =>
              esp0 \in Live /\ esp0 \notin Range(ready) /\ esp0 \notin Range(waiting)
         /\ Range(ready) \cap Range(waiting) = {}
         /\ context_idle \notin Live /\ NoContext \notin Live /\ Live \subseteq Contexts
PROOF
  <1>1. Live \subseteq Contexts \ {context_idle, NoContext}
    BY LiveFacts DEF TypeInv, TypeOK, HighLevelTypeOK
  <1>2. ASSUME mode = "scheduler_init" PROVE init_i \notin Range(ready)
    <2>1. Range(ready) \subseteq 0 .. init_i - 1 BY <1>2 DEF Placement, Started, TypeInv, Control
    <2>2. init_i \in Nat BY DEF TypeInv, TypeOK
    <2> QED BY <2>1, <2>2
  <1>3. ASSUME mode \in {"user", "wake"}
        PROVE  /\ Running \cup Range(ready) \cup Range(waiting) = Live
               /\ Running \cap (Range(ready) \cup Range(waiting)) = {}
    BY <1>3 DEF Placement, Started, TypeInv, Control
  <1>4. ASSUME mode \in {"user", "wake"}, esp0 # context_idle PROVE Running = {esp0}
    <2>1. esp0 \in Contexts BY <1>4 DEF TypeInv, Control
    <2> QED BY <1>4, <2>1, Constants DEF Running
  <1>5. Range(ready) \cap Range(waiting) = {} BY DEF Placement
  <1> QED BY <1>1, <1>2, <1>3, <1>4, <1>5

\* The queues stay ordered.
LEMMA OrderedNext ==
  TypeInv /\ TypeInv' /\ Placement /\ QueuesOrdered /\ [Next]_vars => QueuesOrdered'
PROOF
  <1> SUFFICES ASSUME TypeInv, TypeInv', Placement, QueuesOrdered, [Next]_vars
               PROVE  QueuesOrdered'
    OBVIOUS
  <1>0. ready \in Seq(Contexts) /\ waiting \in Seq(Contexts) BY DEF TypeInv, TypeOK
  <1>a. /\ Ordered(ready_get_priority(context), ready)
        /\ Ordered(waiting_get_priority(context), waiting)
    BY DEF QueuesOrdered
  <1>1. CASE HighLevelInit
    <2>1. ready' = <<>> /\ waiting' = <<>>
      BY <1>1, PlainHandlers DEF TypeInv, Control
    <2> QED BY <2>1, EmptyQueue DEF QueuesOrdered
  <1>2. CASE scheduler_init_task
    <2>1. init_i \notin Range(ready) BY <1>2, PlacementFacts DEF scheduler_init_task
    <2>2. Ordered(ready_get_priority(context'), ready)
      BY <1>0, <1>a, <1>2, <2>1, InitTaskEffect, OrderFrame
    <2>3. Ordered(ready_get_priority(context'), ready') BY <1>2, <2>2, InitTaskEffect
    <2>4. waiting' = <<>> BY <1>2 DEF scheduler_init_task, TypeInv, Control
    <2> QED BY <2>3, <2>4, EmptyQueue DEF QueuesOrdered
  <1>3. CASE boot
    <2>1. sched_choose_next /\ context' = context /\ waiting' = waiting BY <1>3 DEF boot
    <2>2. Ordered(ready_get_priority(context), ready')
      BY <1>0, <1>a, <2>1, ChooseNextEffect, EmptyQueue
    <2> QED BY <1>a, <2>1, <2>2 DEF QueuesOrdered
  <1>4. CASE yield
    <2>1. PICK w \in WakeupIncrements, d \in DeadlineIncrements : c_syscall_yield(w, d)
      BY <1>4 DEF yield
    <2>2. /\ mode = "user" /\ esp0 # context_idle
          /\ \A c \in Contexts \ {esp0} : context'[c] = context[c]
      BY <2>1, YieldContexts
    <2>3. /\ Ordered(ready_get_priority(context'), ready)
          /\ Ordered(waiting_get_priority(context'), waiting)
      <3>1. esp0 \notin Range(ready) /\ esp0 \notin Range(waiting) BY <2>2, PlacementFacts
      <3> QED BY <1>0, <1>a, <2>2, <3>1, OrderFrame
    <2>4. CASE fits(waiting)
      <3>1. sched_choose_next /\ Ordered(waiting_get_priority(context'), waiting')
        BY <2>1, <2>3, <2>4, YieldEffect
      <3>2. Ordered(ready_get_priority(context'), ready')
        BY <1>0, <2>3, <3>1, ChooseNextEffect, EmptyQueue
      <3> QED BY <3>1, <3>2 DEF QueuesOrdered
    <2>5. CASE ~fits(waiting)
      <3>1. ready' = ready /\ waiting' = waiting BY <2>1, <2>5 DEF c_syscall_yield
      <3> QED BY <2>3, <3>1 DEF QueuesOrdered
    <2> QED BY <2>4, <2>5
  <1>5. CASE syscall_dup_thread
    <2>1. PICK ctx2 \in Contexts :
            /\ ctx2 \notin Live
            /\ \A c \in Contexts \ {ctx2} : context'[c] = context[c]
            /\ Ordered(ready_get_priority(context'), ready) =>
                 Ordered(ready_get_priority(context'), ready')
      BY <1>5, DupEffect
    <2>2. mode = "user" /\ waiting' = waiting BY <1>5 DEF syscall_dup_thread, TaskRunning
    <2>3. ctx2 \notin Range(ready) /\ ctx2 \notin Range(waiting) BY <2>1, <2>2, PlacementFacts
    <2>4. /\ Ordered(ready_get_priority(context'), ready)
          /\ Ordered(waiting_get_priority(context'), waiting)
      BY <1>0, <1>a, <2>1, <2>3, OrderFrame
    <2> QED BY <2>1, <2>2, <2>4 DEF QueuesOrdered
  <1>6. CASE syscall_or_exception
    BY <1>a, <1>6, PlainHandlers DEF QueuesOrdered
  <1>7. CASE TimerInterrupt
    BY <1>a, <1>7, TickEffect DEF QueuesOrdered
  <1>8. CASE sched_wake_task
    <2>1. context' = context BY <1>8 DEF sched_wake_task
    <2>2. Ordered(waiting_get_priority(context), waiting') BY <1>a, <1>8, WakeTaskEffect
    <2>3. Ordered(ready_get_priority(context), ready') BY <1>a, <1>8, WakeTaskEffect
    <2> QED BY <2>1, <2>2, <2>3 DEF QueuesOrdered
  <1>9. CASE sched_wake_done
    <2>1. /\ context' = context /\ waiting' = waiting /\ esp0 \in Contexts
          /\ esp0 = context_idle => sched_choose_next
          /\ esp0 # context_idle => sched_maybe_preempt(esp0)
      BY <1>9, WakeDoneEffect
    <2>2. CASE esp0 = context_idle
      <3>1. Ordered(ready_get_priority(context), ready')
        BY <1>0, <1>a, <2>1, <2>2, ChooseNextEffect, EmptyQueue
      <3> QED BY <1>a, <2>1, <3>1 DEF QueuesOrdered
    <2>3. CASE esp0 # context_idle
      <3>1. CASE ~preempts(esp0)
        BY <1>a, <2>1, <2>3, <3>1, MaybePreemptEffect DEF QueuesOrdered
      <3>2. CASE preempts(esp0)
        <4>1. PICK k \in insert_places(ready_get_priority(context), ready, esp0) :
                ready' = remove_elt(insert_elt(ready, k, esp0))
          BY <2>1, <2>3, <3>2, MaybePreemptEffect
        <4> DEFINE q == insert_elt(ready, k, esp0)
        <4>2. q \in Seq(Contexts) /\ q # <<>> /\ Ordered(ready_get_priority(context), q)
          BY <1>0, <1>a, <2>1, ReadyInsertion DEF TypeInv, TypeOK, HighLevelTypeOK
        <4>3. ready' = remove_elt(q) BY <4>1
        <4> HIDE DEF q
        <4>4. Ordered(ready_get_priority(context), ready') BY <4>2, <4>3, RemoveElements
        <4> QED BY <1>a, <2>1, <4>4 DEF QueuesOrdered
      <3> QED BY <3>1, <3>2
    <2> QED BY <2>2, <2>3
  <1>10. CASE UNCHANGED vars
    BY <1>10 DEF vars, QueuesOrdered
  <1> QED
    BY <1>1, <1>2, <1>3, <1>4, <1>5, <1>6, <1>7, <1>8, <1>9, <1>10 DEF Next

LEMMA OrderedInit == Init => QueuesOrdered
  BY EmptyQueue DEF Init, QueuesOrdered

\* Both queues are ordered by the current fields of their contexts, whatever
\* the handlers wrote in the contexts.
THEOREM QueuesOrderedCorrect == Spec => []QueuesOrdered
PROOF
  <1> QED BY TypeInvInit, TypeInvNext, PlacementInit, PlacementNext, OrderedInit, OrderedNext, PTL
    DEF Spec

-----------------------------------------------------------------------------
\* The context that sched_choose_next switches to is a most urgent one.
LEMMA ChooseNextHighest ==
  ASSUME TypeInv, TypeInv', sched_choose_next, Ordered(ready_get_priority(context'), ready),
         context_idle \notin Range(ready)
  PROVE  RunsHighest'
PROOF
  <1>0. ready \in Seq(Contexts) /\ context' \in [Contexts -> Context]
    BY DEF TypeInv, TypeOK, HighLevelTypeOK
  <1>1. CASE ready = <<>>
    <2>1. Range(ready') = {} BY <1>0, <1>1, ChooseNextEffect, EmptyQueue
    <2> QED BY <2>1 DEF RunsHighest
  <1>2. CASE ready # <<>>
    <2>1. esp0' = get_first(ready) /\ Range(ready) = Range(ready') \cup {esp0'}
      BY <1>0, <1>2, ChooseNextEffect
    <2>2. Range(ready) \subseteq Contexts BY <1>0, QueueRange
    <2> DEFINE prio == ready_get_priority(context')
    <2>3. prio \in [Contexts -> Int] BY <1>0, Ranks
    <2>4. Ordered(prio, ready) OBVIOUS
    <2>5. \A c \in Contexts : HasPriorityOver(context', c, esp0') <=> prio[c] < prio[esp0']
      BY <1>0, <2>1, <2>2, Ranks
    <2> HIDE DEF prio
    <2>6. \A c \in Range(ready) : prio[esp0'] <= prio[c]
      BY <1>0, <1>2, <2>1, <2>3, <2>4, FirstIsMin
    <2>7. ASSUME NEW c \in Range(ready') PROVE ~HasPriorityOver(context', c, esp0')
      <3>1. c \in Contexts /\ prio[esp0'] <= prio[c] /\ prio[c] \in Int /\ prio[esp0'] \in Int
        BY <2>1, <2>2, <2>3, <2>6
      <3> QED BY <3>1, <2>5
    <2> QED BY <2>1, <2>7 DEF RunsHighest, context_is_idle
  <1> QED BY <1>1, <1>2

\* So is the one sched_maybe_preempt keeps or switches to.
LEMMA MaybePreemptHighest ==
  ASSUME TypeInv, TypeInv', esp0 \in Contexts, sched_maybe_preempt(esp0), context' = context,
         Ordered(ready_get_priority(context), ready), context_idle \notin Range(ready) \cup {esp0}
  PROVE  RunsHighest'
PROOF
  <1>0. ready \in Seq(Contexts) /\ context \in [Contexts -> Context]
    BY DEF TypeInv, TypeOK, HighLevelTypeOK
  <1> DEFINE prio == ready_get_priority(context)
  <1>1. prio \in [Contexts -> Int] /\ Ordered(prio, ready) BY <1>0, Ranks
  <1>2. \A c, d \in Contexts : HasPriorityOver(context, c, d) <=> prio[c] < prio[d]
    BY <1>0, Ranks
  <1>3. Range(ready) \subseteq Contexts BY <1>0, QueueRange
  <1>4. esp0' \in Range(ready) \cup {esp0} /\ Range(ready') \subseteq Range(ready) \cup {esp0}
    BY MaybePreemptEffect
  <1>5. preempts(esp0) <=> ready # <<>> /\ prio[get_first(ready)] < prio[esp0]
    BY DEF preempts, is_gt_priority
  <1>6. \A c \in Range(ready') : prio[esp0'] <= prio[c]
    <2>1. CASE ~preempts(esp0)
      <3>1. ready' = ready /\ esp0' = esp0 BY <2>1, MaybePreemptEffect
      <3>2. CASE ready = <<>>
        BY <3>1, <3>2, EmptyQueue
      <3>3. CASE ready # <<>>
        <4> HIDE DEF prio
        <4>1. get_first(ready) \in Contexts BY <1>0, <1>3, <3>3, RemoveElements
        <4>2. prio[esp0] <= prio[get_first(ready)] BY <1>1, <1>5, <2>1, <3>3, <4>1
        <4> TAKE c \in Range(ready')
        <4>3. c \in Contexts /\ prio[get_first(ready)] <= prio[c]
          BY <1>0, <1>1, <1>3, <3>1, <3>3, FirstIsMin
        <4>4. prio[esp0] \in Int /\ prio[get_first(ready)] \in Int /\ prio[c] \in Int
          BY <1>1, <4>1, <4>3
        <4> QED BY <3>1, <4>2, <4>3, <4>4
      <3> QED BY <3>2, <3>3
    <2>2. CASE preempts(esp0)
      <3>1. PICK k \in insert_places(ready_get_priority(context), ready, esp0) :
              /\ ready' = remove_elt(insert_elt(ready, k, esp0))
              /\ esp0' = get_first(insert_elt(ready, k, esp0))
        BY <2>2, MaybePreemptEffect
      <3> DEFINE q == insert_elt(ready, k, esp0)
      <3>2. q \in Seq(Contexts) /\ q # <<>> /\ Ordered(prio, q)
        BY <1>0, <1>1, ReadyInsertion
      <3>3. ready' = remove_elt(q) /\ esp0' = get_first(q) BY <3>1
      <3> HIDE DEF q, prio
      <3>4. Range(ready') \subseteq Range(q) BY <3>2, <3>3, RemoveElements
      <3> QED BY <1>1, <3>2, <3>3, <3>4, FirstIsMin
    <2> QED BY <2>1, <2>2
  <1> HIDE DEF prio
  <1>7. ASSUME NEW c \in Range(ready') PROVE ~HasPriorityOver(context', c, esp0')
    <2>1. c \in Contexts /\ esp0' \in Contexts BY <1>3, <1>4
    <2>2. prio[c] \in Int /\ prio[esp0'] \in Int BY <1>1, <2>1
    <2> QED BY <1>2, <1>6, <2>1, <2>2
  <1> QED BY <1>4, <1>7 DEF RunsHighest, context_is_idle

LEMMA RunsHighestNext ==
  /\ TypeInv /\ TypeInv' /\ Placement /\ QueuesOrdered /\ QueuesOrdered'
  /\ RunsHighest /\ [Next]_vars
  => RunsHighest'
PROOF
  <1> SUFFICES ASSUME TypeInv, TypeInv', Placement, QueuesOrdered, QueuesOrdered',
                      RunsHighest, [Next]_vars
               PROVE  RunsHighest'
    OBVIOUS
  <1>0. /\ ready \in Seq(Contexts) /\ context \in [Contexts -> Context]
        /\ Ordered(ready_get_priority(context), ready)
    BY DEF TypeInv, TypeOK, HighLevelTypeOK, QueuesOrdered
  <1>1. CASE HighLevelInit
    BY <1>1, PlainHandlers DEF RunsHighest
  <1>2. CASE scheduler_init_task
    BY <1>2 DEF scheduler_init_task, RunsHighest
  <1>3. CASE boot
    <2>1. Range(ready) \subseteq 0 .. nb_tasks - 1
      BY <1>3 DEF boot, Placement, Started, TypeInv, Control
    <2>2. context_idle \notin Range(ready) BY <2>1, Constants DEF context_idle
    <2>3. sched_choose_next /\ context' = context BY <1>3 DEF boot
    <2> QED BY <1>0, <2>2, <2>3, ChooseNextHighest
  <1>4. CASE yield
    <2>1. PICK w \in WakeupIncrements, d \in DeadlineIncrements : c_syscall_yield(w, d)
      BY <1>4 DEF yield
    <2>2. /\ mode = "user" /\ esp0 # context_idle
          /\ \A c \in Contexts \ {esp0} : context'[c] = context[c]
      BY <2>1, YieldContexts
    <2>3. CASE fits(waiting)
      <3>1. esp0 \notin Range(ready) /\ context_idle \notin Range(ready)
        BY <2>2, PlacementFacts
      <3>2. Ordered(ready_get_priority(context'), ready)
        BY <1>0, <2>2, <3>1, OrderFrame
      <3>3. sched_choose_next BY <2>1, <2>3, YieldEffect
      <3> QED BY <3>1, <3>2, <3>3, ChooseNextHighest
    <2>4. CASE ~fits(waiting)
      BY <2>1, <2>4 DEF c_syscall_yield, Halt, RunsHighest
    <2> QED BY <2>3, <2>4
  <1>5. CASE syscall_dup_thread
    <2>1. PICK ctx2 \in Contexts :
            /\ ctx2 \notin Live
            /\ ctx2 # esp0 => context'[ctx2] = context[esp0]
            /\ \A c \in Contexts \ {ctx2} : context'[c] = context[c]
            /\ Range(ready') = Range(ready) \cup {ctx2}
      BY <1>5, DupEffect
    <2>2. mode = "user" /\ esp0' = esp0 /\ esp0 # context_idle
      BY <1>5 DEF syscall_dup_thread, TaskRunning, hw_context_switch, context_is_idle
    <2>3. esp0 \in Live /\ Range(ready) \subseteq Live /\ Live \subseteq Contexts
      BY <2>2, PlacementFacts
    <2>4. context'[esp0] = context[esp0] /\ context'[ctx2] = context[esp0]
      BY <2>1, <2>3
    <2>5. ASSUME NEW c \in Range(ready') PROVE ~HasPriorityOver(context', c, esp0)
      <3>1. CASE c = ctx2
        BY <1>0, <2>3, <2>4, <3>1 DEF HasPriorityOver, Context, Date
      <3>2. CASE c # ctx2
        <4>1. c \in Range(ready) /\ context'[c] = context[c] BY <2>1, <2>3, <2>5, <3>2
        <4>2. ~HasPriorityOver(context, c, esp0) BY <2>2, <4>1 DEF RunsHighest
        <4> QED BY <2>4, <4>1, <4>2 DEF HasPriorityOver
      <3> QED BY <3>1, <3>2
    <2> QED BY <2>2, <2>5 DEF RunsHighest, context_is_idle
  <1>6. CASE syscall_or_exception
    BY <1>6, PlainHandlers DEF RunsHighest
  <1>7. CASE TimerInterrupt
    BY <1>7, TickEffect DEF RunsHighest
  <1>8. CASE sched_wake_task
    BY <1>8 DEF sched_wake_task, Halt, RunsHighest
  <1>9. CASE sched_wake_done
    <2>1. /\ context' = context /\ mode = "wake" /\ esp0 \in Contexts
          /\ esp0 = context_idle => sched_choose_next
          /\ esp0 # context_idle => sched_maybe_preempt(esp0)
      BY <1>9, WakeDoneEffect
    <2>2. context_idle \notin Range(ready) BY <2>1, PlacementFacts
    <2>3. CASE esp0 = context_idle BY <1>0, <2>1, <2>2, <2>3, ChooseNextHighest
    <2>4. CASE esp0 # context_idle BY <1>0, <2>1, <2>2, <2>4, MaybePreemptHighest
    <2> QED BY <2>3, <2>4
  <1>10. CASE UNCHANGED vars
    BY <1>10 DEF vars, RunsHighest
  <1> QED
    BY <1>1, <1>2, <1>3, <1>4, <1>5, <1>6, <1>7, <1>8, <1>9, <1>10 DEF Next

\* In user code the running context is a most urgent one of those that can
\* run, and the CPU never idles while one can.
THEOREM RunsHighestCorrect == Spec => []RunsHighest
PROOF
  <1>1. Init => RunsHighest BY DEF Init, HighLevelInitState, RunsHighest
  <1> QED BY TypeInvInit, TypeInvNext, PlacementInit, PlacementNext, OrderedInit, OrderedNext,
      RunsHighestNext, <1>1, PTL DEF Spec

-----------------------------------------------------------------------------
(* Dates, the timer, preemption and the assertions of the scheduler.       *)

BaseInv == TypeInv /\ Placement /\ QueuesOrdered

LEMMA BaseInvariant == Spec => []BaseInv
  BY TypeInvInit, TypeInvNext, PlacementInit, PlacementNext, OrderedInit, OrderedNext, PTL
  DEF Spec, BaseInv

LEMMA Types ==
  ASSUME TypeInv
  PROVE  /\ context \in [Contexts -> Context] /\ ready \in Seq(Contexts) /\ waiting \in Seq(Contexts)
         /\ Range(ready) \subseteq Contexts /\ Range(waiting) \subseteq Contexts
         /\ current_time \in Nat /\ \A c \in Contexts : context[c].wakeup_date \in Nat
PROOF
  <1>1. context \in [Contexts -> Context] /\ ready \in Seq(Contexts) /\ waiting \in Seq(Contexts)
    BY DEF TypeInv, TypeOK, HighLevelTypeOK
  <1>2. Range(ready) \subseteq Contexts /\ Range(waiting) \subseteq Contexts BY <1>1, QueueRange
  <1>3. current_time \in Nat BY Constants DEF TypeInv, TypeOK, HighLevelTypeOK
  <1>4. \A c \in Contexts : context[c].wakeup_date \in Nat BY <1>1 DEF Context, Date
  <1> QED BY <1>1, <1>2, <1>3, <1>4

\* The first waiting context is a context, and in user code not the running one.
LEMMA FirstWaiting ==
  ASSUME TypeInv, Placement, waiting # <<>>
  PROVE  /\ get_first(waiting) \in Range(waiting) /\ get_first(waiting) \in Contexts
         /\ mode \in {"user", "wake"} => get_first(waiting) \in Live
         /\ mode \in {"user", "wake"} /\ esp0 # context_idle => get_first(waiting) # esp0
PROOF
  <1>1. get_first(waiting) \in Range(waiting) /\ get_first(waiting) \in Contexts
    BY Types, RemoveElements
  <1> QED BY <1>1, PlacementFacts

-----------------------------------------------------------------------------
\* Never early.
LEMMA NeverEarlyNext ==
  BaseInv /\ BaseInv' /\ NeverEarly /\ [Next]_vars => NeverEarly'
PROOF
  <1> SUFFICES ASSUME BaseInv, BaseInv', NeverEarly, [Next]_vars PROVE NeverEarly'
    OBVIOUS
  <1> USE DEF BaseInv
  <1>0. /\ Range(ready) \subseteq Contexts /\ Range(ready') \subseteq Contexts
        /\ current_time \in Nat /\ current_time' \in Nat
        /\ \A c \in Contexts : context[c].wakeup_date \in Nat /\ context'[c].wakeup_date \in Nat
    <2>1. /\ context' \in [Contexts -> Context] /\ ready' \in Seq(Contexts)
          /\ current_time' \in 0 .. MaxTime
      BY DEF TypeInv, TypeOK, HighLevelTypeOK
    <2>2. Range(ready') \subseteq Contexts BY <2>1, QueueRange
    <2>3. current_time' \in Nat BY <2>1, Constants
    <2>4. \A c \in Contexts : context'[c].wakeup_date \in Nat BY <2>1 DEF Context, Date
    <2> QED BY <2>2, <2>3, <2>4, Types
  <1>1. CASE HighLevelInit \/ scheduler_init_task
    <2>1. mode' = "scheduler_init"
      BY <1>1, PlainHandlers DEF scheduler_init_task
    <2>2. esp0' = NoContext /\ \A c \in Contexts : context'[c].wakeup_date = 0
      BY <2>1 DEF TypeInv, Control
    <2> QED BY <1>0, <2>2 DEF NeverEarly, Running
  <1>2. CASE boot
    <2>1. /\ sched_choose_next /\ context' = context /\ current_time' = current_time
          /\ \A c \in Contexts : context[c].wakeup_date = 0
      BY <1>2 DEF boot, TypeInv, Control
    <2>2. Running' \subseteq Contexts BY Constants DEF Running, TypeInv, TypeOK, HighLevelTypeOK
    <2> QED BY <1>0, <2>1, <2>2 DEF NeverEarly
  <1>3. CASE yield
    <2>1. PICK w \in WakeupIncrements, d \in DeadlineIncrements : c_syscall_yield(w, d)
      BY <1>3 DEF yield
    <2>2. /\ mode = "user" /\ cause = "none" /\ current_time' = current_time /\ esp0 # context_idle
          /\ \A c \in Contexts \ {esp0} : context'[c] = context[c]
      BY <2>1, YieldContexts DEF c_syscall_yield
    <2>3. CASE fits(waiting)
      <3>1. sched_choose_next BY <2>1, <2>3, YieldEffect
      <3>2. Running' \cup Range(ready') \subseteq Range(ready)
        <4>1. CASE ready = <<>>
          BY <3>1, <4>1, Types, ChooseNextEffect, EmptyQueue DEF Running
        <4>2. CASE ready # <<>>
          BY <3>1, <4>2, Types, ChooseNextEffect DEF Running
        <4> QED BY <4>1, <4>2
      <3>3. esp0 \notin Range(ready) BY <2>2, PlacementFacts
      <3>4. \A c \in Range(ready) : context'[c].wakeup_date <= current_time'
        BY <1>0, <2>2, <3>3 DEF NeverEarly
      <3> QED BY <3>2, <3>4 DEF NeverEarly
    <2>4. CASE ~fits(waiting)
      BY <2>1, <2>4 DEF c_syscall_yield, Halt, NeverEarly
    <2> QED BY <2>3, <2>4
  <1>4. CASE syscall_dup_thread
    <2>1. PICK ctx2 \in Contexts \ {context_idle, NoContext} :
            /\ ctx2 \notin Live
            /\ ctx2 # esp0 => context'[ctx2] = context[esp0]
            /\ \A c \in Contexts \ {ctx2} : context'[c] = context[c]
            /\ Range(ready') = Range(ready) \cup {ctx2}
      BY <1>4, DupEffect
    <2>2. /\ mode = "user" /\ esp0' = esp0 /\ esp0 # context_idle /\ current_time' = current_time
          /\ cause = "none" /\ cause' = "none"
      BY <1>4 DEF syscall_dup_thread, TaskRunning, hw_context_switch, context_is_idle, TypeInv, Control
    <2>3. esp0 \in Live /\ Range(ready) \subseteq Live /\ Live \subseteq Contexts /\ NoContext \notin Live
      BY <2>2, PlacementFacts
    <2>4. Running = {esp0} /\ Running' = {esp0} BY <2>2, <2>3 DEF Running
    <2>5. context'[ctx2] = context[esp0] /\ context'[esp0] = context[esp0]
      BY <2>1, <2>3
    <2>6. \A c \in {esp0} \cup Range(ready) : context[c].wakeup_date <= current_time
      BY <2>2, <2>4 DEF NeverEarly
    <2>7. ASSUME NEW c \in {esp0} \cup Range(ready') PROVE context'[c].wakeup_date <= current_time'
      <3>1. CASE c = ctx2 BY <2>2, <2>5, <2>6, <3>1
      <3>2. CASE c # ctx2
        <4>1. c \in {esp0} \cup Range(ready) /\ c \in Contexts BY <2>1, <2>3, <2>7, <3>2
        <4> QED BY <2>1, <2>2, <2>6, <3>2, <4>1
      <3> QED BY <3>1, <3>2
    <2> QED BY <2>4, <2>7 DEF NeverEarly
  <1>5. CASE syscall_or_exception
    BY <1>5, PlainHandlers DEF NeverEarly, Running
  <1>6. CASE TimerInterrupt
    <2>1. /\ UNCHANGED <<context, cause, esp0, ready>> /\ current_time <= current_time'
          /\ cause = "none"
      BY <1>6, TickEffect
    <2>2. Running \subseteq Contexts BY Constants DEF Running, TypeInv, TypeOK, HighLevelTypeOK
    <2>3. Running' = Running BY <2>1 DEF Running
    <2>4. \A c \in Running \cup Range(ready) : context[c].wakeup_date <= current_time
      BY <2>1 DEF NeverEarly
    <2>5. ASSUME NEW c \in Running \cup Range(ready) PROVE context'[c].wakeup_date <= current_time'
      <3>1. context[c].wakeup_date \in Nat BY <1>0, <2>2
      <3> QED BY <1>0, <2>1, <2>4, <3>1
    <2> QED BY <2>1, <2>3, <2>5 DEF NeverEarly
  <1>7. CASE sched_wake_task
    <2>1. /\ context[get_first(waiting)].wakeup_date <= current_time
          /\ \/ cause' = cause /\ Range(ready') = Range(ready) \cup {get_first(waiting)}
             \/ cause' = "assert"
      BY <1>7, WakeTaskEffect
    <2>2. UNCHANGED <<context, esp0, current_time>> BY <1>7 DEF sched_wake_task
    <2> QED BY <2>1, <2>2 DEF NeverEarly, Running
  <1>8. CASE sched_wake_done
    <2>1. /\ UNCHANGED <<context, current_time>> /\ cause = "none"
          /\ mode = "wake" /\ esp0 \in Contexts
          /\ esp0 = context_idle => sched_choose_next
          /\ esp0 # context_idle => sched_maybe_preempt(esp0)
      BY <1>8, WakeDoneEffect
    <2>2. Running' \cup Range(ready') \subseteq Running \cup Range(ready)
      <3>1. CASE esp0 = context_idle /\ ready = <<>>
        BY <2>1, <3>1, Types, ChooseNextEffect, EmptyQueue DEF Running
      <3>2. CASE esp0 = context_idle /\ ready # <<>>
        BY <2>1, <3>2, Types, ChooseNextEffect DEF Running
      <3>3. CASE esp0 # context_idle
        <4>1. Range(ready') \cup {esp0'} = Range(ready) \cup {esp0}
          BY <2>1, <3>3, MaybePreemptEffect
        <4>2. Running = {esp0} BY <2>1, <3>3, Constants DEF Running
        <4> QED BY <4>1, <4>2 DEF Running
      <3> QED BY <3>1, <3>2, <3>3
    <2> QED BY <2>1, <2>2 DEF NeverEarly
  <1>9. CASE UNCHANGED vars
    BY <1>9 DEF vars, NeverEarly, Running
  <1> QED BY <1>1, <1>2, <1>3, <1>4, <1>5, <1>6, <1>7, <1>8, <1>9 DEF Next

\* A context is never ready or running before the date it asked for.
THEOREM NeverEarlyCorrect == Spec => []NeverEarly
PROOF
  <1>1. Init => NeverEarly
    <2>1. ASSUME Init PROVE NeverEarly
      <3>1. ready = <<>> /\ esp0 = NoContext BY <2>1 DEF Init, HighLevelInitState
      <3>2. Range(ready) = {} BY <3>1, EmptyQueue
      <3> QED BY <3>1, <3>2 DEF NeverEarly, Running
    <2> QED BY <2>1
  <1> QED BY BaseInvariant, NeverEarlyNext, <1>1, PTL DEF Spec

-----------------------------------------------------------------------------
\* The timer.  The three facts need each other: the wake-up handler, which runs
\* with the timer disarmed, may only end in idling if it left nobody waiting,
\* which rests on its having something to wake up, which rests on the date the
\* timer had been set to.
TimerInv == TimerSetToFirst /\ WakeHasWork /\ IdleIsWoken

LEMMA TimerNext == BaseInv /\ BaseInv' /\ TimerInv /\ [Next]_vars => TimerInv'
PROOF
  <1> SUFFICES ASSUME BaseInv, BaseInv', TimerInv, [Next]_vars PROVE TimerInv'
    OBVIOUS
  <1> USE DEF BaseInv
  <1>0. ready \in Seq(Contexts) /\ waiting \in Seq(Contexts) BY Types
  <1>1. CASE HighLevelInit \/ scheduler_init_task \/ boot
    <2>1. waiting' = <<>> /\ next_wake_date' = DATE_FAR_AWAY /\ mode' # "wake"
      <3>1. CASE HighLevelInit
        BY <3>1, PlainHandlers DEF TypeInv, Control
      <3>2. CASE scheduler_init_task
        BY <3>2 DEF scheduler_init_task, TypeInv, Control
      <3>3. CASE boot
        BY <1>0, <3>3, ChooseNextEffect DEF boot, TypeInv, Control
      <3> QED BY <1>1, <3>1, <3>2, <3>3
    <2> QED BY <2>1 DEF TimerInv, TimerSetToFirst, WakeHasWork, IdleIsWoken
  <1>2. CASE yield
    <2>1. PICK w \in WakeupIncrements, d \in DeadlineIncrements : c_syscall_yield(w, d)
      BY <1>2 DEF yield
    <2>2. /\ mode = "user" /\ esp0 # context_idle
          /\ \A c \in Contexts \ {esp0} : context'[c] = context[c]
      BY <2>1, YieldContexts
    <2>3. CASE fits(waiting)
      <3>1. /\ waiting' # <<>> /\ next_wake_date' = context'[get_first(waiting')].wakeup_date
            /\ sched_choose_next
        BY <2>1, <2>3, YieldEffect
      <3>2. mode' = "user" BY <1>0, <3>1, ChooseNextEffect
      <3> QED BY <3>1, <3>2 DEF TimerInv, TimerSetToFirst, WakeHasWork, IdleIsWoken
    <2>4. CASE ~fits(waiting)
      <3>1. UNCHANGED <<waiting, next_wake_date>> /\ mode' = "halted"
        BY <2>1, <2>4 DEF c_syscall_yield, Halt
      <3>2. waiting # <<>> => context'[get_first(waiting)] = context[get_first(waiting)]
        BY <2>2, FirstWaiting
      <3> QED BY <3>1, <3>2 DEF TimerInv, TimerSetToFirst, WakeHasWork, IdleIsWoken
    <2> QED BY <2>3, <2>4
  <1>3. CASE syscall_dup_thread
    <2>1. PICK ctx2 \in Contexts :
            ctx2 \notin Live /\ \A c \in Contexts \ {ctx2} : context'[c] = context[c]
      BY <1>3, DupEffect
    <2>2. /\ UNCHANGED <<waiting, next_wake_date, esp0>> /\ mode = "user" /\ mode' = "user"
          /\ esp0 # context_idle
      BY <1>3 DEF syscall_dup_thread, hw_context_switch, TaskRunning, context_is_idle
    <2>3. waiting # <<>> => context'[get_first(waiting)] = context[get_first(waiting)]
      BY <2>1, <2>2, FirstWaiting
    <2> QED BY <2>2, <2>3 DEF TimerInv, TimerSetToFirst, WakeHasWork, IdleIsWoken, context_is_idle
  <1>4. CASE syscall_or_exception
    <2>1. /\ UNCHANGED <<context, waiting, next_wake_date, esp0>>
          /\ mode = "user" /\ mode' \in {"user", "halted"}
      BY <1>4, PlainHandlers
    <2> QED BY <2>1 DEF TimerInv, TimerSetToFirst, WakeHasWork, IdleIsWoken
  <1>5. CASE TimerInterrupt
    <2>1. /\ UNCHANGED <<context, esp0, waiting>> /\ mode = "user"
          /\ \/ mode' = "user" /\ next_wake_date' = next_wake_date
             \/ /\ mode' = "wake" /\ next_wake_date' = DATE_FAR_AWAY
                /\ next_wake_date <= current_time' /\ next_wake_date # DATE_FAR_AWAY
      BY <1>5, TickEffect
    <2> QED BY <2>1 DEF TimerInv, TimerSetToFirst, WakeHasWork, IdleIsWoken, first_is_due
  <1>6. CASE sched_wake_task
    <2>1. next_wake_date' = DATE_FAR_AWAY /\ mode = "wake"
      BY <1>6 DEF sched_wake_task, TypeInv, Control
    <2>2. (mode' = "wake" /\ ready' # <<>>) \/ mode' = "halted"
      BY <1>6, <2>1, WakeTaskEffect
    <2> QED BY <2>1, <2>2 DEF TimerInv, TimerSetToFirst, WakeHasWork, IdleIsWoken
  <1>7. CASE sched_wake_done
    <2>1. /\ next_wake_date' = DATE_FAR_AWAY /\ mode' = "user" /\ mode = "wake"
          /\ esp0 \in Contexts /\ ~first_is_due
          /\ esp0 = context_idle => sched_choose_next
          /\ esp0 # context_idle => sched_maybe_preempt(esp0)
      BY <1>7, WakeDoneEffect DEF TypeInv, Control
    <2>2. ready # <<>> BY <2>1 DEF TimerInv, WakeHasWork
    <2>3. context_idle \notin Range(ready) BY <2>1, PlacementFacts
    <2>4. esp0' # context_idle
      <3>1. CASE esp0 = context_idle
        BY <1>0, <2>1, <2>2, <2>3, <3>1, ChooseNextEffect
      <3>2. CASE esp0 # context_idle
        <4>1. Range(ready') \cup {esp0'} = Range(ready) \cup {esp0}
          BY <2>1, <3>2, MaybePreemptEffect
        <4> QED BY <2>3, <3>2, <4>1
      <3> QED BY <3>1, <3>2
    <2> QED BY <2>1, <2>4
      DEF TimerInv, TimerSetToFirst, WakeHasWork, IdleIsWoken, context_is_idle
  <1>8. CASE UNCHANGED vars
    BY <1>8 DEF vars, TimerInv, TimerSetToFirst, WakeHasWork, IdleIsWoken, first_is_due
  <1> QED BY <1>1, <1>2, <1>3, <1>4, <1>5, <1>6, <1>7, <1>8 DEF Next

LEMMA TimerInvariant == Spec => []TimerInv
PROOF
  <1>1. Init => TimerInv
    BY DEF Init, HighLevelInitState, TimerInv, TimerSetToFirst, WakeHasWork, IdleIsWoken
  <1> QED BY BaseInvariant, TimerNext, <1>1, PTL DEF Spec

\* The one-shot timer is disarmed or set to the date of the first waiting
\* context, whatever the order in which contexts yield and wake up.
THEOREM TimerSetToFirstCorrect == Spec => []TimerSetToFirst
PROOF
  <1>1. TimerInv => TimerSetToFirst BY DEF TimerInv
  <1> QED BY TimerInvariant, <1>1, PTL

\* The timer never fires for nothing.
THEOREM WakeHasWorkCorrect == Spec => []WakeHasWork
PROOF
  <1>1. TimerInv => WakeHasWork BY DEF TimerInv
  <1> QED BY TimerInvariant, <1>1, PTL

\* While the CPU idles with a context waiting, the timer is set.
THEOREM IdleIsWokenCorrect == Spec => []IdleIsWoken
PROOF
  <1>1. TimerInv => IdleIsWoken BY DEF TimerInv
  <1> QED BY TimerInvariant, <1>1, PTL

-----------------------------------------------------------------------------
\* No due context is left waiting when the wake-up handler returns.
THEOREM WakesAllDueCorrect == Spec => WakesAllDue
PROOF
  <1>1. BaseInv /\ [Next]_vars => [NobodyDueIsLeft]_vars
    <2> SUFFICES ASSUME BaseInv, Next, mode = "wake", mode' = "user",
                        NEW c \in Range(waiting')
                 PROVE  context'[c].wakeup_date > current_time'
      BY DEF NobodyDueIsLeft
    <2> USE DEF BaseInv
    <2>1. sched_wake_done
      BY PlainHandlers, WakeTaskEffect, TickEffect, YieldContexts
      DEF Next, scheduler_init_task, boot, yield, syscall_dup_thread, TaskRunning
    <2>2. UNCHANGED <<context, current_time, waiting>> /\ ~first_is_due
      BY <2>1, WakeDoneEffect
    <2>3. waiting # <<>> BY <2>2, Types, EmptyQueue
    <2>4. context[get_first(waiting)].wakeup_date > current_time
      BY <2>2, <2>3, FirstWaiting, Types DEF first_is_due
    <2> DEFINE prio == waiting_get_priority(context)
    <2>5. /\ prio \in [Contexts -> Int] /\ Ordered(prio, waiting)
          /\ \A x \in Contexts : prio[x] = context[x].wakeup_date
      BY Types, Ranks DEF QueuesOrdered
    <2> HIDE DEF prio
    <2>6. c \in Contexts /\ prio[get_first(waiting)] <= prio[c]
      BY <2>2, <2>3, <2>5, Types, FirstIsMin
    <2>7. context[get_first(waiting)].wakeup_date <= context[c].wakeup_date
      BY <2>5, <2>6, <2>3, FirstWaiting
    <2> QED BY <2>2, <2>3, <2>4, <2>6, <2>7, Types, FirstWaiting
  <1> QED BY BaseInvariant, <1>1, PTL DEF Spec, WakesAllDue

\* The context that takes the CPU from one that could go on is strictly more
\* urgent than it.
THEOREM PreemptedByHigherCorrect == Spec => PreemptedByHigher
PROOF
  <1>1. BaseInv /\ BaseInv' /\ [Next]_vars => [YieldsToHigher]_vars
    <2> SUFFICES ASSUME BaseInv, BaseInv', Next, esp0' # esp0, esp0 \in Range(ready')
                 PROVE  HasPriorityOver(context', esp0', esp0)
      BY DEF YieldsToHigher
    <2> USE DEF BaseInv
    <2>0. /\ ready \in Seq(Contexts) /\ Range(ready) \subseteq Contexts
          /\ context \in [Contexts -> Context]
      BY Types
    <2>1. CASE boot
      <3>1. esp0 = NoContext /\ sched_choose_next BY <2>1 DEF boot, TypeInv, Control
      <3>2. Range(ready') \subseteq Range(ready)
        BY <2>0, <3>1, ChooseNextEffect, EmptyQueue
      <3> QED BY <2>0, <3>1, <3>2, Constants
    <2>2. CASE yield
      <3>1. PICK w \in WakeupIncrements, d \in DeadlineIncrements : c_syscall_yield(w, d)
        BY <2>2 DEF yield
      <3>2. fits(waiting) BY <3>1 DEF c_syscall_yield
      <3>3. sched_choose_next BY <3>1, <3>2, YieldEffect
      <3>4. Range(ready') \subseteq Range(ready)
        BY <2>0, <3>3, ChooseNextEffect, EmptyQueue
      <3>5. mode = "user" /\ esp0 # context_idle BY <3>1, YieldContexts
      <3> QED BY <3>4, <3>5, PlacementFacts
    <2>3. CASE sched_wake_done
      <3>1. /\ context' = context /\ mode = "wake" /\ esp0 \in Contexts
            /\ esp0 = context_idle => sched_choose_next
            /\ esp0 # context_idle => sched_maybe_preempt(esp0)
        BY <2>3, WakeDoneEffect
      <3>2. esp0 # context_idle
        <4>1. CASE esp0 = context_idle
          <5>1. Range(ready') \subseteq Range(ready)
            BY <2>0, <3>1, <4>1, ChooseNextEffect, EmptyQueue
          <5> QED BY <3>1, <4>1, <5>1, PlacementFacts
        <4> QED BY <4>1
      <3>3. preempts(esp0) BY <3>1, <3>2, MaybePreemptEffect
      <3>4. PICK k \in insert_places(ready_get_priority(context), ready, esp0) :
              esp0' = get_first(insert_elt(ready, k, esp0))
        BY <3>1, <3>2, <3>3, MaybePreemptEffect
      <3> DEFINE prio == ready_get_priority(context)
                 q == insert_elt(ready, k, esp0)
      <3>5. ready # <<>> /\ prio[get_first(ready)] < prio[esp0]
        BY <3>3 DEF preempts, is_gt_priority
      <3>6. /\ prio \in [Contexts -> Int] /\ Ordered(prio, ready)
            /\ \A c, d \in Contexts : HasPriorityOver(context, c, d) <=> prio[c] < prio[d]
        BY <2>0, Ranks DEF QueuesOrdered
      <3>7. /\ q \in Seq(Contexts) /\ q # <<>> /\ Ordered(prio, q)
            /\ Range(q) = Range(ready) \cup {esp0}
        BY <2>0, <3>1, <3>6, ReadyInsertion
      <3>8. esp0' = get_first(q) BY <3>4
      <3> HIDE DEF prio, q
      <3>9. get_first(ready) \in Range(ready) BY <2>0, <3>5, RemoveElements
      <3>10. esp0' \in Contexts /\ prio[esp0'] <= prio[get_first(ready)]
        BY <2>0, <3>1, <3>6, <3>7, <3>8, <3>9, FirstIsMin, RemoveElements
      <3>11. prio[esp0'] \in Int /\ prio[get_first(ready)] \in Int /\ prio[esp0] \in Int
        BY <2>0, <3>1, <3>6, <3>9, <3>10
      <3> QED BY <3>1, <3>5, <3>6, <3>10, <3>11
    <2> QED BY <2>1, <2>2, <2>3, PlainHandlers, TickEffect
      DEF Next, scheduler_init_task, syscall_dup_thread, hw_context_switch, sched_wake_task
  <1> QED BY BaseInvariant, <1>1, PTL DEF Spec, PreemptedByHigher

-----------------------------------------------------------------------------
\* The threads that are live, counted.
Threads == nb_tasks + (RESERVE_SIZE - idx_reserve)

LEMMA LiveCount ==
  ASSUME idx_reserve \in 0 .. RESERVE_SIZE
  PROVE  IsFiniteSet(Live) /\ Cardinality(Live) = Threads
PROOF
  <1>1. Allocated = nb_tasks + idx_reserve .. nb_tasks + RESERVE_SIZE - 1
    <2>1. \A x \in nb_tasks + idx_reserve .. nb_tasks + RESERVE_SIZE - 1 :
            x - nb_tasks \in idx_reserve .. RESERVE_SIZE - 1 /\ x = nb_tasks + (x - nb_tasks)
      BY Constants
    <2> QED BY <2>1, Constants DEF Allocated, ReserveBase
  <1>2. IsFiniteSet(Tasks) /\ Cardinality(Tasks) = nb_tasks
    BY Constants, FS_Interval DEF Tasks
  <1>3. IsFiniteSet(Allocated) /\ Cardinality(Allocated) = RESERVE_SIZE - idx_reserve
    <2> DEFINE a == nb_tasks + idx_reserve
               b == nb_tasks + RESERVE_SIZE - 1
    <2>1. /\ a \in Int /\ b \in Int
          /\ (IF a > b THEN 0 ELSE b - a + 1) = RESERVE_SIZE - idx_reserve
      BY Constants
    <2> HIDE DEF a, b
    <2>2. IsFiniteSet(a .. b) /\ Cardinality(a .. b) = IF a > b THEN 0 ELSE b - a + 1
      BY <2>1, FS_Interval
    <2> QED BY <1>1, <2>1, <2>2 DEF a, b
  <1>4. Tasks \cap Allocated = {} BY <1>1, Constants DEF Tasks
  <1>5. /\ IsFiniteSet(Live)
        /\ Cardinality(Live) = Cardinality(Tasks) + Cardinality(Allocated) - Cardinality({})
    BY <1>2, <1>3, <1>4, FS_Union DEF Live
  <1>6. Cardinality({}) = 0 BY FS_EmptySet
  <1> QED BY <1>2, <1>3, <1>5, <1>6, Constants DEF Threads

\* A queue of live contexts that misses one of them is shorter than their number.
LEMMA QueueBound ==
  ASSUME idx_reserve \in 0 .. RESERVE_SIZE, NEW q \in Seq(Contexts), IsInjective(q),
         Range(q) \subseteq Live, NEW x \in Live, x \notin Range(q)
  PROVE  Len(q) + 1 <= Threads
PROOF
  <1>1. /\ Range(q) = {q[i] : i \in 1 .. Len(q)} /\ Len(q) \in Nat
        /\ \A i, j \in 1 .. Len(q) : q[i] = q[j] => i = j
    BY QueueRange
  <1>2. q \in Bijection(1 .. Len(q), Range(q))
    BY <1>1 DEF Bijection, Injection, Surjection
  <1>3. IsFiniteSet(1 .. Len(q)) /\ Cardinality(1 .. Len(q)) = Len(q)
    <2>1. \A n \in Nat : IsFiniteSet(1 .. n) /\ Cardinality(1 .. n) = IF 1 > n THEN 0 ELSE n - 1 + 1
      BY FS_Interval
    <2>2. \A n \in Nat : (IF 1 > n THEN 0 ELSE n - 1 + 1) = n OBVIOUS
    <2> QED BY <1>1, <2>1, <2>2
  <1>4. IsFiniteSet(Range(q)) /\ Cardinality(Range(q)) = Len(q)
    <2>1. ExistsBijection(1 .. Len(q), Range(q)) BY <1>2 DEF ExistsBijection
    <2> QED BY <1>3, <2>1, FS_Bijection
  <1>5. IsFiniteSet(Range(q) \cup {x}) /\ Cardinality(Range(q) \cup {x}) = Len(q) + 1
    BY <1>4, FS_AddElement
  <1>6. Range(q) \cup {x} \subseteq Live OBVIOUS
  <1> QED BY <1>5, <1>6, LiveCount, FS_Subset

LEMMA AssertionsNext ==
  BaseInv /\ AssertionsNeedManyThreads /\ [Next]_vars => AssertionsNeedManyThreads'
PROOF
  <1> SUFFICES ASSUME BaseInv, AssertionsNeedManyThreads, [Next]_vars, cause' = "assert"
               PROVE  (Threads > nb_contexts + 1)'
    BY DEF AssertionsNeedManyThreads, Threads
  <1> USE DEF BaseInv
  <1>0. /\ ready \in Seq(Contexts) /\ waiting \in Seq(Contexts)
        /\ idx_reserve \in 0 .. RESERVE_SIZE /\ nb_contexts \in Nat
        /\ IsInjective(ready) /\ IsInjective(waiting)
        /\ Threads \in Int /\ Len(ready) \in Nat /\ Len(waiting) \in Nat
    <2>1. \A m, n \in Nat : m * n \in Nat OBVIOUS
    <2>2. nb_contexts \in Nat BY <2>1, Constants DEF nb_contexts
    <2> QED BY <2>2, Constants DEF TypeInv, TypeOK, HighLevelTypeOK, Placement, Threads
  <1>1. CASE yield
    <2>1. PICK w \in WakeupIncrements, d \in DeadlineIncrements : c_syscall_yield(w, d)
      BY <1>1 DEF yield
    <2>2. mode = "user" /\ esp0 # context_idle /\ cause = "none" BY <2>1, YieldContexts
    <2>3. ~fits(waiting)
      BY <1>0, <2>1, <2>2, YieldEffect, ChooseNextEffect DEF c_syscall_yield
    <2>4. esp0 \in Live /\ esp0 \notin Range(waiting) /\ Range(waiting) \subseteq Live
      BY <2>2, PlacementFacts
    <2>5. Len(waiting) + 1 <= Threads BY <1>0, <2>4, QueueBound
    <2>6. Threads' = Threads BY <2>1 DEF c_syscall_yield, Threads
    <2> QED BY <1>0, <2>3, <2>5, <2>6 DEF fits
  <1>2. CASE sched_wake_task
    <2>1. mode = "wake" /\ cause = "none" /\ idx_reserve' = idx_reserve
      BY <1>2 DEF sched_wake_task, TypeInv, Control
    <2>2. ~fits(ready) /\ get_first(waiting) \in Range(waiting) BY <1>2, <2>1, WakeTaskEffect
    <2>3. /\ get_first(waiting) \in Live /\ get_first(waiting) \notin Range(ready)
          /\ Range(ready) \subseteq Live
      BY <2>1, <2>2, PlacementFacts DEF Placement
    <2>4. Len(ready) + 1 <= Threads BY <1>0, <2>3, QueueBound
    <2>5. Threads' = Threads BY <2>1 DEF Threads
    <2> QED BY <1>0, <2>2, <2>4, <2>5 DEF fits
  <1>3. CASE UNCHANGED vars
    BY <1>3 DEF vars, AssertionsNeedManyThreads, Threads
  <1>4. CASE HighLevelInit \/ syscall_or_exception BY <1>4, PlainHandlers
  <1>5. CASE scheduler_init_task \/ syscall_dup_thread
    BY <1>5 DEF scheduler_init_task, syscall_dup_thread, TaskRunning, hw_context_switch,
      TypeInv, Control
  <1>6. CASE boot BY <1>0, <1>6, ChooseNextEffect DEF boot, TypeInv, Control
  <1>7. CASE TimerInterrupt BY <1>7, TickEffect
  <1>8. CASE sched_wake_done BY <1>8, WakeDoneEffect
  <1> QED BY <1>1, <1>2, <1>3, <1>4, <1>5, <1>6, <1>7, <1>8 DEF Next

\* The assertions on the sizes of the queues hold as long as there are at most
\* nb_contexts + 1 threads, in whatever order they wait and wake up.
THEOREM AssertionsCorrect == Spec => []AssertionsNeedManyThreads
PROOF
  <1>1. Init => AssertionsNeedManyThreads
    BY DEF Init, HighLevelInitState, AssertionsNeedManyThreads
  <1> QED BY BaseInvariant, AssertionsNext, <1>1, PTL DEF Spec
=============================================================================
