------------------------- MODULE MCRoundRobinKernel -------------------------
(* RoundRobinKernel and its history of turns for TLC. *)
EXTENDS RoundRobinTurns

Priorities == [c \in 0 .. nb_tasks - 1 |-> 0]
=============================================================================
