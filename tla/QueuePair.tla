----------------------------- MODULE QueuePair -----------------------------
(***************************************************************************)
(* What the priority scheduler relies on: two queues, each the sequence of *)
(* its elements as in SortedQueue.tla, with no element in both, and        *)
(* elements whose rank changes only while they are in no queue.            *)
(***************************************************************************)
EXTENDS SortedQueue

CONSTANTS Lists, Elements, Ranks

VARIABLES queue, rank

Outside == {e \in Elements : \A l \in Lists : e \notin Range(queue[l])}

Init ==
  /\ queue = [l \in Lists |-> <<>>]
  /\ rank \in [Elements -> Ranks]

SetRank(e, r) ==
  /\ e \in Outside
  /\ rank' = [rank EXCEPT ![e] = r]
  /\ UNCHANGED queue

Insert(l, e) ==
  /\ e \in Outside
  /\ \E k \in insert_places(rank, queue[l], e) :
       queue' = [queue EXCEPT ![l] = insert_elt(@, k, e)]
  /\ UNCHANGED rank

TakeFirst(l) ==
  /\ queue[l] # <<>>
  /\ queue' = [queue EXCEPT ![l] = remove_elt(@)]
  /\ UNCHANGED rank

Next ==
  \/ \E e \in Elements, r \in Ranks : SetRank(e, r)
  \/ \E l \in Lists, e \in Elements : Insert(l, e)
  \/ \E l \in Lists : TakeFirst(l)

Spec == Init /\ [][Next]_<<queue, rank>>
=============================================================================
