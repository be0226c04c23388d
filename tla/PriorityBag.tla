---------------------------- MODULE PriorityBag ----------------------------
(***************************************************************************)
(* What the schedulers need of a queue of contexts, whichever of the two   *)
(* implementations of heap.c is compiled: removal returns an element of    *)
(* the queue that none of the others precedes.  The order of elements of   *)
(* equal priority is left open.                                            *)
(***************************************************************************)
EXTENDS Integers

CONSTANTS
  Elts,
  prio      \* the priorities of the elements, the lower the more urgent

VARIABLE
  content   \* the elements of the queue

Init == content = {}

Insert(e) ==
  /\ e \notin content
  /\ content' = content \cup {e}

RemoveFirst(e) ==
  /\ e \in content
  /\ \A d \in content : prio[e] <= prio[d]
  /\ content' = content \ {e}

Next == \E e \in Elts : Insert(e) \/ RemoveFirst(e)

Spec == Init /\ [][Next]_content
=============================================================================
