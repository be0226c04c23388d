----------------------------- MODULE SortedList -----------------------------
(***************************************************************************)
(* The linked lists of heap.c (SCHED_PRIORITY_QUEUE_USE_LIST), pointer by  *)
(* pointer, as the priority scheduler uses them: two lists whose elements  *)
(* are linked by the same field next, which removal does not reset, and    *)
(* which copy_context copies like the rest of a context.                   *)
(*                                                                         *)
(* The insertion is one action per iteration of its loop.  What the        *)
(* scheduler does with the elements it holds is left open: it may change   *)
(* their rank (yield), copy one to another (dup_thread) and insert any of  *)
(* them in any of the lists.                                               *)
(***************************************************************************)
EXTENDS Integers, Sequences, FiniteSets

CONSTANTS
  Lists,     \* the instances of INSTANTIATE_HEAP: "ready" and "waiting"
  Elements,  \* the contexts
  Ranks,     \* BOUND: the priorities
  Null       \* the null pointer

ASSUME ListAssumption == Ranks \subseteq Int /\ Null \notin Elements /\ IsFiniteSet(Elements)

Pointer == Elements \cup {Null}

VARIABLES
  head, size,  \* struct heap, for every list
  next,        \* sched_context.next
  rank,        \* what get_priority returns
  held,        \* the elements the scheduler holds: they are in no list
  pc,          \* "client", "walk" in the loop of insert_elt, "failed" after an assertion
  heap, elt, cur, prev  \* the list, the element and the pointers of the current insert_elt

vars == <<head, size, next, rank, held, pc, heap, elt, cur, prev>>
locals == <<heap, elt, cur, prev>>

-----------------------------------------------------------------------------
is_gt_priority(a, b) == a < b

\* heap_init.  The links of the contexts of the tasks are null, those of the
\* reserve point to the first context of the reserve.
Init ==
  /\ head = [l \in Lists |-> Null]
  /\ size = [l \in Lists |-> 0]
  /\ \E reserve \in SUBSET Elements : \E first \in reserve \cup {Null} :
       next = [e \in Elements |-> IF e \in reserve THEN first ELSE Null]
  /\ rank \in [Elements -> Ranks]
  /\ held = Elements
  /\ pc = "client"
  /\ heap = Null /\ elt = Null /\ cur = Null /\ prev = Null

set_rank(e, r) ==
  /\ pc = "client"
  /\ e \in held
  /\ rank' = [rank EXCEPT ![e] = r]
  /\ UNCHANGED <<head, size, next, held, pc, locals>>

copy_context(dest, src) ==
  /\ pc = "client"
  /\ dest \in held /\ src \in held /\ dest # src
  /\ rank' = [rank EXCEPT ![dest] = rank[src]]
  /\ next' = [next EXCEPT ![dest] = next[src]]
  /\ UNCHANGED <<head, size, held, pc, locals>>

\* insert_elt up to its loop.
insert_elt(l, e) ==
  /\ pc = "client"
  /\ e \in held
  /\ held' = held \ {e}
  /\ \/ /\ head[l] = Null
        /\ head' = [head EXCEPT ![l] = e]
        /\ next' = [next EXCEPT ![e] = Null]
        /\ size' = [size EXCEPT ![l] = @ + 1]
        /\ UNCHANGED <<pc, locals>>
     \/ /\ head[l] # Null
        /\ heap' = l /\ elt' = e
        /\ cur' = head[l] /\ prev' = Null
        /\ pc' = "walk"
        /\ UNCHANGED <<head, size, next>>
  /\ UNCHANGED rank

\* Fault: an element goes in front of the ones of the same rank.
goes_before_equal == cur # Null /\ ~is_gt_priority(rank[cur], rank[elt])
goes_before == cur # Null /\ is_gt_priority(rank[elt], rank[cur])

insert_elt_next ==
  /\ pc = "walk"
  /\ cur # Null /\ ~goes_before
  /\ prev' = cur
  /\ cur' = next[cur]
  /\ UNCHANGED <<head, size, next, rank, held, pc, heap, elt>>

\* Fault: an element put at the end keeps its link.
links_stale ==
  IF cur = Null THEN [next EXCEPT ![prev] = elt]
  ELSE IF prev = Null THEN [next EXCEPT ![elt] = cur]
  ELSE [next EXCEPT ![prev] = elt, ![elt] = cur]
\* The links once elt is between prev and cur.
links ==
  IF prev = Null THEN [next EXCEPT ![elt] = cur]
  ELSE [next EXCEPT ![prev] = elt, ![elt] = cur]

\* Before cur, or at the end.
insert_elt_end ==
  /\ pc = "walk"
  /\ cur = Null \/ goes_before
  /\ head' = IF prev = Null THEN [head EXCEPT ![heap] = elt] ELSE head
  /\ next' = links
  /\ size' = [size EXCEPT ![heap] = @ + 1]
  /\ pc' = "client"
  /\ heap' = Null /\ elt' = Null /\ cur' = Null /\ prev' = Null
  /\ UNCHANGED <<rank, held>>

\* remove_elt, which the scheduler only calls when the size is not 0, and which
\* asserts that the head is not null.
remove_elt(l) ==
  /\ pc = "client"
  /\ size[l] > 0
  /\ IF head[l] = Null
     THEN pc' = "failed" /\ UNCHANGED <<head, size, held>>
     ELSE /\ head' = [head EXCEPT ![l] = next[head[l]]]
          /\ size' = [size EXCEPT ![l] = @ - 1]
          /\ held' = held \cup {head[l]}
          /\ UNCHANGED pc
  /\ UNCHANGED <<next, rank, locals>>

Next ==
  \/ \E e \in Elements, r \in Ranks : set_rank(e, r)
  \/ \E dest, src \in Elements : copy_context(dest, src)
  \/ \E l \in Lists, e \in Elements : insert_elt(l, e)
  \/ insert_elt_next
  \/ insert_elt_end
  \/ \E l \in Lists : remove_elt(l)

\* The kernel runs to the end of a handler, hence of an insertion.
Fairness == WF_vars(insert_elt_next) /\ WF_vars(insert_elt_end)

Spec == Init /\ [][Next]_vars /\ Fairness

-----------------------------------------------------------------------------
TypeOK ==
  /\ head \in [Lists -> Pointer]
  /\ size \in [Lists -> 0 .. Cardinality(Elements)]
  /\ next \in [Elements -> Pointer]
  /\ rank \in [Elements -> Ranks]
  /\ held \subseteq Elements
  /\ pc \in {"client", "walk", "failed"}
  /\ heap \in Lists \cup {Null} /\ elt \in Pointer /\ cur \in Pointer /\ prev \in Pointer

\* The elements met by following the links from the head, up to the null
\* pointer; more than there are elements if they make a cycle.
Contents(l) ==
  LET at[k \in 1 .. Cardinality(Elements) + 1] ==
        IF k = 1 THEN head[l] ELSE IF at[k - 1] = Null THEN Null ELSE next[at[k - 1]]
      length == Cardinality({k \in DOMAIN at : at[k] # Null})
  IN  [k \in 1 .. length |-> at[k]]

\* The field size is the number of elements that the links reach, so that the
\* tests of the scheduler on size imply what remove_elt and get_first assert of
\* head; no element is reached twice, or from both lists, although they share
\* the field next, or while the scheduler holds it.
SizeCounts ==
  /\ pc # "failed"
  /\ \A l \in Lists : size[l] = Len(Contents(l))
  /\ \A l, m \in Lists : \A i \in 1 .. Len(Contents(l)), j \in 1 .. Len(Contents(m)) :
       Contents(l)[i] = Contents(m)[j] => l = m /\ i = j
  /\ \A l \in Lists : \A i \in 1 .. Len(Contents(l)) : Contents(l)[i] \notin held

Queues == INSTANCE QueuePair WITH queue <- [l \in Lists |-> Contents(l)], rank <- rank

\* The lists behave as the sequences of SortedQueue.tla: the walk changes
\* nothing, its end inserts at the place insert_places gives, a removal takes
\* the first element, and nothing else changes a list.
ImplementsQueues == Queues!Spec

\* An insertion ends: the walk meets the null pointer or a less urgent element.
InsertEnds == pc = "walk" ~> pc = "client"
=============================================================================
