---------------------------- MODULE ThreadMachine ----------------------------
(***************************************************************************)
(* What the low-level code of EducRTOS promises to the threads: each one   *)
(* seems to own a CPU.  Its registers and segments only change when it     *)
(* executes; it never notices that it was interrupted.  The only kernel    *)
(* call that a thread can see in its registers is dup_thread, which it     *)
(* leaves twice: with 1, and as the new thread with 0.                     *)
(***************************************************************************)
CONSTANTS
  Threads,          \* all the contexts, the free ones too
  Idle,             \* the thread that runs when no other can
  InitialThreads,   \* live from the start
  InitialView(_),   \* what a thread sees first
  Behind            \* the eip of a thread that is back from a system call

VARIABLES
  view,     \* the registers and the segments of each thread
  live,     \* threads that were created
  running,  \* the last thread that ran
  phase     \* "off", "user", "call" (returns to its caller), "resched", "halted"

tmVars == <<view, live, running, phase>>

Init ==
  /\ live = InitialThreads \cup {Idle}
  /\ phase = "off"

SwitchOn ==
  /\ phase = "off"
  /\ phase' = "resched"
  /\ \A t \in live : view'[t] = InitialView(t)
  /\ UNCHANGED <<live, running>>

\* Only the thread that runs changes, and it cannot change its segments.
Run ==
  /\ phase = "user"
  /\ \A t \in live \ {running} : view'[t] = view[t]
  /\ view'[running].segments = view[running].segments
  /\ UNCHANGED <<live, running, phase>>

\* Enters the kernel; nothing that the thread can see is lost.  An interrupt leaves
\* it where it was, a system call behind the int instruction.
Trap(t) ==
  /\ phase = "user"
  /\ running = t
  /\ \A u \in live \ {t} : view'[u] = view[u]
  /\ \/ phase' = "resched" /\ view'[t] = view[t]
     \/ /\ phase' \in {"call", "resched"}
        /\ view[t].regs.eip # Behind
        /\ view'[t] = [view[t] EXCEPT !.regs.eip = Behind]
  /\ UNCHANGED <<live, running>>

Return ==
  /\ phase = "call"
  /\ phase' = "user"
  /\ \A t \in live : view'[t] = view[t]
  /\ UNCHANGED <<live, running>>

Dispatch(t) ==
  /\ phase = "resched"
  /\ t \in live
  /\ phase' = "user"
  /\ running' = t
  /\ \A u \in live : view'[u] = view[u]
  /\ UNCHANGED live

Dup(child) ==
  /\ phase = "call"
  /\ child \notin live
  /\ phase' = "user"
  /\ live' = live \cup {child}
  /\ view'[running] = [view[running] EXCEPT !.regs.eax = 1]
  /\ view'[child] = [view[running] EXCEPT !.regs.eax = 0]
  /\ \A t \in live \ {running} : view'[t] = view[t]
  /\ UNCHANGED running

Halt == phase' = "halted"

Next ==
  \/ SwitchOn
  \/ Run
  \/ Return
  \/ Halt
  \/ \E t \in Threads : Trap(t) \/ Dispatch(t) \/ Dup(t)

Spec == Init /\ [][Next]_tmVars
=============================================================================
