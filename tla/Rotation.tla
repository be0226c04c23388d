------------------------------ MODULE Rotation ------------------------------
(***************************************************************************)
(* What a round-robin scheduler promises: threads take turns in a fixed    *)
(* cyclic order, and a new thread gets its first turn right after the one  *)
(* that created it.                                                        *)
(***************************************************************************)
EXTENDS Integers, SequencesExt

CONSTANTS
  Initial,  \* the threads that exist from the start
  Spawned   \* the threads that can be created

VARIABLE order  \* the thread whose turn it is, followed by the others in the order of their turns

Init == order = <<>>

Start ==
  /\ order = <<>>
  /\ order' \in SetToSeqs(Initial)

\* The thread gives the CPU up: it becomes the last one.
Turn ==
  /\ order # <<>>
  /\ order' = Append(Tail(order), Head(order))

Spawn(thread) ==
  /\ order # <<>>
  /\ thread \notin Range(order)
  /\ order' = InsertAt(order, 2, thread)

Next ==
  \/ Start
  \/ Turn
  \/ \E thread \in Spawned : Spawn(thread)

Spec == Init /\ [][Next]_order
=============================================================================
