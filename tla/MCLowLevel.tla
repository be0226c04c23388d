----------------------------- MODULE MCLowLevel -----------------------------
(* LowLevel for TLC: two tasks with images of different sizes, idle. *)
EXTENDS LowLevel

\* Images of different sizes; the bits of their bounds are in all the parts
\* of a descriptor that base and limit are cut into.
Begins == [c \in 0 .. nb_tasks + RESERVE_SIZE |-> 2^(24 + c) + 2^(17 + c) + 2^(2 * c)]
Ends == [c \in 0 .. nb_tasks + RESERVE_SIZE |-> Begins[c] + 2^(16 + c) + 2^c]

Writes == {<<"ebx", 1>>}

\* High and low words that differ, and differ between the two arguments.
Yields == {<<1, 6>>}
=============================================================================
