---------------------------- MODULE SortedQueue ----------------------------
(***************************************************************************)
(* What heap.c provides to the priority schedulers: a queue as the         *)
(* sequence of its elements, the most urgent one first.  prio gives the    *)
(* rank of every element; INSTANTIATE_HEAP compares ranks with             *)
(* is_gt_priority.  SortedList.tla models the linked list itself and shows *)
(* that it behaves as these operators say.                                 *)
(***************************************************************************)
EXTENDS Integers, SequencesExt

\* The lower rank is the more urgent: earlier dates, earlier deadlines.
is_gt_priority(a, b) == a < b

\* Fault: new elements go to the end.
insert_places_end(prio, q, elt) == {Len(q) + 1}

\* insert_elt walks the list and stops in front of the first element of lower
\* priority, or at the end.  The set of the places where it may stop has
\* exactly one element.
insert_places(prio, q, elt) ==
  {k \in 1 .. Len(q) + 1 :
     /\ \A j \in 1 .. k - 1 : ~is_gt_priority(prio[elt], prio[q[j]])
     /\ k <= Len(q) => is_gt_priority(prio[elt], prio[q[k]])}

\* The queue with elt at place k.
insert_elt(q, k, elt) == InsertAt(q, k, elt)

get_first(q) == Head(q)

remove_elt(q) == Tail(q)

Ordered(prio, q) == \A i, j \in 1 .. Len(q) : i < j => prio[q[i]] <= prio[q[j]]
=============================================================================
