------------------------------ MODULE MCQueues ------------------------------
(***************************************************************************)
(* The queues of heap.c for TLC.  config.h chooses, when the kernel is     *)
(* compiled, between the linked lists of SortedList and the array heap of  *)
(* ArrayHeap: implementation is that choice, and the variables of the code *)
(* that is not compiled keep their initial values.                         *)
(***************************************************************************)
EXTENDS SortedList

CONSTANTS c1, c2, c3

TwoLists == {"ready", "waiting"}
ThreeContexts == {c1, c2, c3}

\* The heap's contexts: one more than the array has cells, two equally urgent.
HeapContexts == 1 .. 6
HeapPriorities == [e \in HeapContexts |-> IF e <= 2 THEN 1 ELSE e]

VARIABLES
  implementation,  \* "list" or "heap"
  array, heap_size, heap_pc, i, heap_elt, i_priority, res

heap_vars == <<array, heap_size, heap_pc, i, heap_elt, i_priority, res>>

Heap == INSTANCE ArrayHeap WITH
  Elts <- HeapContexts, NoElt <- 0, nb_contexts <- 5, prio <- HeapPriorities,
  size <- heap_size, pc <- heap_pc, elt <- heap_elt

ASSUME HeapAssumptions == Heap!Assumptions

MCInit ==
  /\ implementation \in {"list", "heap"}
  /\ Init
  /\ implementation = "heap" =>
       /\ next = [e \in Elements |-> Null]
       /\ rank = [e \in Elements |-> CHOOSE r \in Ranks : TRUE]
  /\ Heap!Init

MCNext ==
  \/ implementation = "list" /\ Next /\ UNCHANGED <<implementation, heap_vars>>
  \/ implementation = "heap" /\ Heap!Next /\ UNCHANGED <<implementation, vars>>

\* The kernel runs to the end of the loops of either implementation.
MCSpec ==
  /\ MCInit
  /\ [][MCNext]_<<implementation, vars, heap_vars>>
  /\ WF_vars(implementation = "list" /\ (insert_elt_next \/ insert_elt_end) /\ UNCHANGED <<implementation, heap_vars>>)
  /\ WF_heap_vars(implementation = "heap" /\ Heap!LoopStep /\ UNCHANGED <<implementation, vars>>)

-----------------------------------------------------------------------------
\* The array is a heap between two operations, and holds nobody twice.
HeapOrder == Heap!HeapOrder

\* A removal from the array heap returns an element that none of the others
\* precedes, and every element that was inserted stays until it is returned.
ImplementsBag == Heap!ImplementsBag

\* The loops of both implementations end: the kernel runs them with the
\* interrupts masked.
OperationsEnd == InsertEnds /\ Heap!OperationsEnd
=============================================================================
