----------------------------- MODULE ArrayHeap -----------------------------
(***************************************************************************)
(* The array heap of heap.c (SCHED_PRIORITY_QUEUE_USE_HEAP): the other     *)
(* implementation of the schedulers' queues, one action per iteration of   *)
(* its two loops.  SortedList is the one that config.h selects.            *)
(***************************************************************************)
EXTENDS Integers

CONSTANTS
  Elts,         \* the contexts
  NoElt,        \* what an array cell holds before anything is stored there
  nb_contexts,  \* length of the array, user_tasks_image.nb_contexts
  prio          \* what get_priority returns: a context whose date has changed in
                \* between is another element

\* What is assumed of the constants.
Assumptions ==
  /\ NoElt \notin Elts
  /\ nb_contexts \in Nat \ {0}
  /\ prio \in [Elts -> Nat]

VARIABLES
  array,
  size,
  pc,          \* "ready", "insert", "remove", or "failed" after an assertion
  i,           \* the loops' position
  elt,         \* the element being inserted
  i_priority,  \* priority of the element that sinks
  res          \* the element that remove_elt returns

vars == <<array, size, pc, i, elt, i_priority, res>>

Cells == 0 .. nb_contexts - 1

\* waiting_is_gt_priority, ready_is_gt_priority: earlier dates come first.
is_gt_priority(a, b) == a < b

Init ==
  /\ array = [k \in Cells |-> NoElt]
  /\ size = 0
  /\ pc = "ready"
  /\ i = 0
  /\ elt = NoElt
  /\ i_priority = 0
  /\ res = NoElt

\* The local variables end with the call.
return == pc' = "ready" /\ i' = 0 /\ elt' = NoElt /\ i_priority' = 0 /\ res' = NoElt

InHeap == {array[k] : k \in 0 .. size - 1}

-----------------------------------------------------------------------------
(* insert_elt: the hole at i rises until elt fits in.                      *)

insert_elt(e) ==
  /\ pc = "ready"
  /\ e \notin InHeap
  /\ elt' = e
  /\ IF size < nb_contexts
     THEN i' = size /\ size' = size + 1 /\ pc' = "insert"
     ELSE pc' = "failed" /\ UNCHANGED <<i, size>>
  /\ UNCHANGED <<array, i_priority, res>>

parent(k) == (k - 1) \div 2

rises == i # 0 /\ is_gt_priority(prio[elt], prio[array[parent(i)]])

\* Fault: i does not follow the hole.
insert_elt_rise_stuck ==
  /\ pc = "insert"
  /\ rises
  /\ array' = [array EXCEPT ![i] = array[parent(i)]]
  /\ UNCHANGED <<size, pc, i, elt, i_priority, res>>

insert_elt_rise ==
  /\ pc = "insert"
  /\ rises
  /\ array' = [array EXCEPT ![i] = array[parent(i)]]
  /\ i' = parent(i)
  /\ UNCHANGED <<size, pc, elt, i_priority, res>>

insert_elt_place ==
  /\ pc = "insert"
  /\ ~rises
  /\ array' = [array EXCEPT ![i] = elt]
  /\ return
  /\ UNCHANGED size

-----------------------------------------------------------------------------
(* remove_elt: the last element takes the place of the first, then sinks.  *)

\* The callers have checked that the queue is not empty.  Its assertions, that size
\* is at most the number of cells and i below it, cannot fail: that of insert_elt
\* bounds size, and i is 0 or an index below size.
remove_elt ==
  /\ pc = "ready"
  /\ size > 0
  /\ res' = array[0]
  /\ array' = [array EXCEPT ![0] = array[size - 1]]
  /\ size' = size - 1
  /\ i' = 0
  /\ i_priority' = prio[array[size - 1]]
  /\ pc' = "remove"
  /\ UNCHANGED elt

\* Fault: the left child is only looked at when there is no right child.
largest_one ==
  LET left == 2 * i + 1
      right == 2 * i + 2
  IN  IF right < size
      THEN IF is_gt_priority(prio[array[right]], i_priority) THEN right ELSE i
      ELSE IF left < size /\ is_gt_priority(prio[array[left]], i_priority) THEN left ELSE i

\* i or the child that must rise above it: the right one is compared first,
\* when there is one there is a left one too.
largest ==
  LET left == 2 * i + 1
      right == 2 * i + 2
      first == IF right < size /\ is_gt_priority(prio[array[right]], i_priority)
               THEN right ELSE i
      first_priority == IF first = i THEN i_priority ELSE prio[array[first]]
  IN  IF left < size /\ is_gt_priority(prio[array[left]], first_priority) THEN left ELSE first

\* Fault: the two elements are not exchanged, the child is copied upwards.
swapped_lost == [array EXCEPT ![i] = array[largest]]

swapped == [array EXCEPT ![i] = array[largest], ![largest] = array[i]]

remove_elt_sink ==
  /\ pc = "remove"
  /\ largest # i
  /\ array' = swapped
  /\ i' = largest
  /\ UNCHANGED <<size, pc, elt, i_priority, res>>

remove_elt_return ==
  /\ pc = "remove"
  /\ largest = i
  /\ return
  /\ UNCHANGED <<array, size>>

LoopStep ==
  \/ insert_elt_rise
  \/ insert_elt_place
  \/ remove_elt_sink
  \/ remove_elt_return

Next ==
  \/ \E e \in Elts : insert_elt(e)
  \/ remove_elt
  \/ LoopStep

\* The kernel is sequential and its interrupts are masked: a loop that can go on
\* does.
Spec == Init /\ [][Next]_vars /\ WF_vars(LoopStep)

-----------------------------------------------------------------------------
TypeOK ==
  /\ array \in [Cells -> Elts \cup {NoElt}]
  /\ size \in 0 .. nb_contexts
  /\ pc \in {"ready", "insert", "remove", "failed"}
  /\ i \in Cells
  /\ elt \in Elts \cup {NoElt}
  /\ i_priority \in Nat
  /\ res \in Elts \cup {NoElt}

\* The array with the element being inserted in the hole.
Filled == IF pc = "insert" THEN [array EXCEPT ![i] = elt] ELSE array

\* Between two operations no element precedes its parent, and no element is
\* stored twice: insert_elt's shifting and remove_elt's exchanges lose nobody.
HeapOrder ==
  pc = "ready" =>
    /\ \A k \in 1 .. size - 1 : ~is_gt_priority(prio[array[k]], prio[array[parent(k)]])
    /\ \A j, k \in 0 .. size - 1 : array[j] = array[k] => j = k

\* Insertion and removal take effect when they return.
Bag == INSTANCE PriorityBag WITH
  content <- CASE pc = "insert" -> {Filled[k] : k \in 0 .. size - 1} \ {elt}
               [] pc = "remove" -> InHeap \cup {res}
               [] OTHER -> InHeap

\* Whatever the sequence of insertions and removals, remove_elt returns an
\* element that none of the others in the heap precedes, and every element that
\* was inserted stays until it is returned.
ImplementsBag == Bag!Spec

\* Both loops end: the kernel runs them with the interrupts masked.
OperationsEnd == (pc \in {"insert", "remove"}) ~> (pc = "ready")
=============================================================================
