-------------------------- MODULE MCPriorityKernel --------------------------
(***************************************************************************)
(* Values of the constants of PriorityKernel for TLC.                      *)
(***************************************************************************)
EXTENDS PriorityKernel

\* system_desc.c: TASK(task0, ..., 10) TASK(task1, ..., 20): distinct
\* priorities, the first task having the lowest one.
RisingPriorities == [t \in Tasks |-> 10 * (t + 1)]

\* The first task has priority over the others, which have the same one.
FirstPriority == [t \in Tasks |-> IF t = 0 THEN 20 ELSE 10]
=============================================================================
