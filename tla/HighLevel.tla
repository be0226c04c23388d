----------------------------- MODULE HighLevel -----------------------------
(***************************************************************************)
(* The part of the EducRTOS kernel that does not depend on the scheduler:  *)
(* the contexts and their initialisation (high_level.c), the clock and the *)
(* one-shot wake-up date (pit_timer.c), the pointer through which the      *)
(* hardware finds the running context (tss.esp0, low_level.c) and the ways *)
(* of stopping the kernel for good (error.c).                              *)
(*                                                                         *)
(* All the gates of the IDT are interrupt gates: a handler runs with the   *)
(* interrupts masked, so between the entry in the kernel and the iret no   *)
(* other handler runs.  A handler is one action, or several actions        *)
(* separated by the value of mode when it has a loop.                      *)
(*                                                                         *)
(* A date is a uint64_t of nanoseconds: it is modelled modulo DATE_MOD.    *)
(***************************************************************************)
EXTENDS Integers

CONSTANTS
  nb_tasks,               \* user_tasks_image.nb_tasks
  CONTEXTS_PER_TASK,      \* 1 << DYNAMIC_TASK_INITIAL_HEIGHT, or 1 without DYNAMIC_TASK_CREATION
  RESERVE_SIZE,           \* length of the reserve array (10)
  SCHEDULING,             \* "EDF", "FP" or "ROUND_ROBIN": the scheduler compiled in
  DYNAMIC_TASK_CREATION,  \* compile-time switches
  DEBUG_PRINTING,
  TaskPriority,           \* the priority field of the task descriptions (FP)
  DATE_MOD,               \* dates are uint64_t: 2^64
  ACTUAL_TICK,            \* nanoseconds between two ticks of the PIT
  MaxTime,                \* BOUND: the clock stops there
  WakeupIncrements,       \* BOUND: the durations tasks pass to yield
  DeadlineIncrements      \* BOUND: the relative deadlines tasks pass to yield

ASSUME TasksAssumption == nb_tasks \in Nat \ {0}
ASSUME ContextsPerTaskAssumption ==
  /\ CONTEXTS_PER_TASK \in Nat \ {0}
  /\ ~DYNAMIC_TASK_CREATION => CONTEXTS_PER_TASK = 1
ASSUME ReserveAssumption == RESERVE_SIZE \in Nat
ASSUME SchedulingAssumption == SCHEDULING \in {"EDF", "FP", "ROUND_ROBIN"}
ASSUME SwitchAssumption == DYNAMIC_TASK_CREATION \in BOOLEAN /\ DEBUG_PRINTING \in BOOLEAN
ASSUME PriorityAssumption == TaskPriority \in [0 .. nb_tasks - 1 -> Nat]
ASSUME DateAssumption ==
  /\ DATE_MOD \in Nat \ {0}
  /\ ACTUAL_TICK \in Nat \ {0}
  /\ MaxTime \in Nat
  /\ MaxTime < DATE_MOD - 1
ASSUME IncrementAssumption ==
  /\ WakeupIncrements \subseteq 0 .. DATE_MOD - 1
  /\ DeadlineIncrements \subseteq 0 .. DATE_MOD - 1

-----------------------------------------------------------------------------
\* The statically allocated struct contexts, numbered: the first context of
\* every task, the reserve, the idle context of the only CPU.
Tasks == 0 .. nb_tasks - 1
ReserveBase == nb_tasks
Reserve == ReserveBase .. ReserveBase + RESERVE_SIZE - 1
context_idle == nb_tasks + RESERVE_SIZE
Contexts == 0 .. context_idle
NoContext == -1

nb_contexts == nb_tasks * CONTEXTS_PER_TASK

Date == 0 .. DATE_MOD - 1
DATE_FAR_AWAY == DATE_MOD - 1

Context == [wakeup_date : Date, deadline : Date, priority : Nat, pid : Nat, range : Nat]

\* Static storage: all the fields are 0 before the kernel runs.
BssContext == [wakeup_date |-> 0, deadline |-> 0, priority |-> 0, pid |-> 0, range |-> 0]

VARIABLES
  context,         \* the scheduling fields, pid and range of every context
  mode,            \* where the CPU is: a phase of boot, user code, the wake-up loop, halted
  cause,           \* why the kernel halted
  esp0,            \* the context tss.esp0 points into: the running one
  idx_reserve,     \* contexts of the reserve that are still free
  current_time,
  next_wake_date

hlVars == <<context, mode, cause, esp0, idx_reserve, current_time, next_wake_date>>

Modes == {"high_level_init", "scheduler_init", "user", "wake", "halted"}
Causes == {"none", "assert", "fatal"}

HighLevelTypeOK ==
  /\ context \in [Contexts -> Context]
  /\ mode \in Modes
  /\ cause \in Causes
  /\ esp0 \in Contexts \cup {NoContext}
  /\ idx_reserve \in 0 .. RESERVE_SIZE
  /\ current_time \in 0 .. MaxTime
  /\ next_wake_date \in Date

\* The state low_level_init leaves: timer_init has reset the clock.
HighLevelInitState ==
  /\ context = [c \in Contexts |-> BssContext]
  /\ mode = "high_level_init"
  /\ cause = "none"
  /\ esp0 = NoContext
  /\ idx_reserve = RESERVE_SIZE
  /\ current_time = 0
  /\ next_wake_date = DATE_FAR_AWAY

-----------------------------------------------------------------------------
context_is_idle(c) == c = context_idle

\* fatal, task_fatal and failed assertions, which only differ by the message,
\* end in error_infinite_loop: it masks the interrupts and the kernel never does
\* anything again.
Halt(why) == mode' = "halted" /\ cause' = why

\* hw_context_switch: from now on an interrupt saves the CPU state in c.
hw_context_switch(c) == esp0' = c /\ mode' = "user" /\ cause' = cause

timer_wake_at(date) == next_wake_date' = date
timer_dont_wake == next_wake_date' = DATE_FAR_AWAY

context_init(c, idx) ==
  IF DYNAMIC_TASK_CREATION
  THEN [context[c] EXCEPT !.range = CONTEXTS_PER_TASK, !.pid = idx * CONTEXTS_PER_TASK]
  ELSE context[c]

idle_init ==
  [context_init(context_idle, 0) EXCEPT
     !.wakeup_date = 0,
     !.deadline = IF SCHEDULING = "EDF" THEN DATE_FAR_AWAY ELSE @]

\* high_level_init up to the call of scheduler_init: the tasks, the reserve
\* (initialised like task 0), the idle context.
high_level_init ==
  /\ mode = "high_level_init"
  /\ context' = [c \in Contexts |-> IF c \in Tasks THEN context_init(c, c)
                                    ELSE IF c \in Reserve THEN context_init(c, 0)
                                    ELSE idle_init]
  /\ mode' = "scheduler_init"
  /\ UNCHANGED <<cause, esp0, idx_reserve, current_time, next_wake_date>>

\* Fault: the sum of the dates is not reduced to 64 bits.
yield_dates_wide(ctx, incr_wakeup, incr_deadline) ==
  LET date == ctx.wakeup_date + incr_wakeup
  IN  [ctx EXCEPT !.wakeup_date = date,
                  !.deadline = IF SCHEDULING = "EDF" THEN date + incr_deadline ELSE @]

\* The dates that yield computes, on 64 bits.
yield_dates(ctx, incr_wakeup, incr_deadline) ==
  LET date == (ctx.wakeup_date + incr_wakeup) % DATE_MOD
  IN  [ctx EXCEPT !.wakeup_date = date,
                  !.deadline = IF SCHEDULING = "EDF"
                               THEN (date + incr_deadline) % DATE_MOD ELSE @]

\* copy_context copies the whole struct, hence also pid and range, over what
\* the new context had been given just before (range = 0).
copy_context(ctxs, dest, src) == [ctxs EXCEPT ![dest] = ctxs[src]]
dup_contexts(ctx, ctx2) ==
  copy_context([context EXCEPT ![ctx2].range = 0], ctx2, ctx)

\* The contexts that have been handed to a thread.
Allocated == {ReserveBase + i : i \in idx_reserve .. RESERVE_SIZE - 1}
Live == Tasks \cup Allocated

\* A task is running: an idle CPU executes a jump to itself, and neither makes
\* system calls nor faults.
TaskRunning == mode = "user" /\ ~context_is_idle(esp0)

\* System calls that return to the caller, or to nobody, without scheduling.
syscall_putchar ==
  /\ TaskRunning
  /\ \/ DEBUG_PRINTING /\ hw_context_switch(esp0)
     \/ ~DEBUG_PRINTING /\ Halt("fatal") /\ UNCHANGED esp0
  /\ UNCHANGED <<context, idx_reserve, current_time, next_wake_date>>

\* Without an INJECT_BUG switch: does nothing.
syscall_trigger_bug ==
  /\ TaskRunning
  /\ hw_context_switch(esp0)
  /\ UNCHANGED <<context, idx_reserve, current_time, next_wake_date>>

\* dup_thread is compiled in, allowed to this thread, and a context is free.
may_dup == DYNAMIC_TASK_CREATION /\ context[esp0].range # 0 /\ idx_reserve # 0

syscall_dup_thread_fatal ==
  /\ TaskRunning
  /\ ~may_dup
  /\ Halt("fatal")
  /\ UNCHANGED <<context, esp0, idx_reserve, current_time, next_wake_date>>

\* asm_syscall_handler with a number that is not below SYSCALL_NUMBER.
bad_syscall ==
  /\ TaskRunning
  /\ Halt("fatal")
  /\ UNCHANGED <<context, esp0, idx_reserve, current_time, next_wake_date>>

\* The tick of the PIT.  When the wake-up date is reached the timer is disarmed
\* and high_level_timer_interrupt_handler goes on, in mode "wake".
timer_interrupt ==
  /\ mode = "user"
  /\ current_time + ACTUAL_TICK <= MaxTime
  /\ current_time' = current_time + ACTUAL_TICK
  /\ \/ /\ current_time' >= next_wake_date
        /\ timer_dont_wake
        /\ mode' = "wake"
        /\ UNCHANGED <<cause, esp0>>
     \/ /\ current_time' < next_wake_date
        /\ hw_context_switch(esp0)
        /\ UNCHANGED next_wake_date
  /\ UNCHANGED <<context, idx_reserve>>

\* An exception of the running task, or an int n with no handler of its own:
\* there is no recovery per task, the whole kernel stops.
default_interrupt_handler ==
  /\ TaskRunning
  /\ Halt("fatal")
  /\ UNCHANGED <<context, esp0, idx_reserve, current_time, next_wake_date>>

=============================================================================
