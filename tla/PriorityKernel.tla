--------------------------- MODULE PriorityKernel ---------------------------
(***************************************************************************)
(* EducRTOS with the EDF or the fixed-priority scheduler                   *)
(* (priority_scheduler.c): the handlers of HighLevel completed with the    *)
(* queue of ready contexts and the queue of contexts waiting for a date.   *)
(*                                                                         *)
(* A queue is the sequence of its contexts, as SortedQueue.tla says.       *)
(***************************************************************************)
EXTENDS HighLevel, SortedQueue

ASSUME PrioritySchedulingAssumption == SCHEDULING \in {"EDF", "FP"}

VARIABLES
  ready,    \* ready_heap
  waiting,  \* waiting_heap
  init_i    \* the index of the loop of scheduler_init

vars == <<context, mode, cause, esp0, idx_reserve, current_time, next_wake_date,
          ready, waiting, init_i>>

queueVars == <<ready, waiting, init_i>>

-----------------------------------------------------------------------------
\* The rank of a context in each queue, the lower the more urgent: the wake-up
\* date, the deadline (EDF), or the opposite of the fixed priority (FP, where
\* a > b is -a < -b).
waiting_get_priority(ctxs) == [c \in Contexts |-> ctxs[c].wakeup_date]
\* Fault: FP compares the priorities the wrong way round.
ready_get_priority_unsigned(ctxs) ==
  [c \in Contexts |-> IF SCHEDULING = "EDF" THEN ctxs[c].deadline ELSE ctxs[c].priority]
ready_get_priority(ctxs) ==
  [c \in Contexts |-> IF SCHEDULING = "EDF" THEN ctxs[c].deadline ELSE -ctxs[c].priority]

\* Fault: off by one in the assertion.
fits_strict(q) == Len(q) < nb_contexts
\* The condition the scheduler asserts before it inserts.
fits(q) == Len(q) <= nb_contexts

\* sched_choose_next, then the switch: the first ready context, or idle.
sched_choose_next ==
  IF ready = <<>>
  THEN UNCHANGED ready /\ hw_context_switch(context_idle)
  ELSE ready' = remove_elt(ready) /\ hw_context_switch(get_first(ready))

-----------------------------------------------------------------------------
Init ==
  /\ HighLevelInitState
  /\ ready = <<>>
  /\ waiting = <<>>
  /\ init_i = 0

HighLevelInit == high_level_init /\ UNCHANGED queueVars

\* One iteration of the loop of scheduler_init.
scheduler_init_task ==
  /\ mode = "scheduler_init"
  /\ init_i < nb_tasks
  /\ context' = [context EXCEPT ![init_i].priority =
                   IF SCHEDULING = "FP" THEN TaskPriority[init_i] ELSE @]
  /\ \E k \in insert_places(ready_get_priority(context'), ready, init_i) :
       ready' = insert_elt(ready, k, init_i)
  /\ init_i' = init_i + 1
  /\ UNCHANGED <<mode, cause, esp0, idx_reserve, current_time, next_wake_date, waiting>>

\* The end of boot: the first switch to user code.
boot ==
  /\ mode = "scheduler_init"
  /\ init_i = nb_tasks
  /\ sched_choose_next
  /\ UNCHANGED <<context, idx_reserve, current_time, next_wake_date, waiting, init_i>>

-----------------------------------------------------------------------------
\* Fault: the timer is set to the date of the context that yields.
sched_set_waiting_own(ctxs, ctx) ==
  \E k \in insert_places(waiting_get_priority(ctxs), waiting, ctx) :
    /\ waiting' = insert_elt(waiting, k, ctx)
    /\ timer_wake_at(ctxs[ctx].wakeup_date)
\* Fault: the timer is only set by a context that becomes the first one.
sched_set_waiting_first(ctxs, ctx) ==
  \E k \in insert_places(waiting_get_priority(ctxs), waiting, ctx) :
    /\ waiting' = insert_elt(waiting, k, ctx)
    /\ IF k = 1 THEN timer_wake_at(ctxs[ctx].wakeup_date) ELSE UNCHANGED next_wake_date

\* sched_set_waiting: queue the context and arm the timer for the first date.
sched_set_waiting(ctxs, ctx) ==
  \E k \in insert_places(waiting_get_priority(ctxs), waiting, ctx) :
    /\ waiting' = insert_elt(waiting, k, ctx)
    /\ timer_wake_at(ctxs[get_first(waiting')].wakeup_date)

c_syscall_yield(incr_wakeup, incr_deadline) ==
  /\ TaskRunning
  /\ context' = [context EXCEPT ![esp0] = yield_dates(@, incr_wakeup, incr_deadline)]
  /\ \/ /\ fits(waiting)
        /\ sched_set_waiting(context', esp0)
        /\ sched_choose_next
     \/ /\ ~fits(waiting)
        /\ Halt("assert")
        /\ UNCHANGED <<esp0, ready, waiting, next_wake_date>>
  /\ UNCHANGED <<idx_reserve, current_time, init_i>>

yield ==
  \E incr_wakeup \in WakeupIncrements, incr_deadline \in DeadlineIncrements :
    c_syscall_yield(incr_wakeup, incr_deadline)

\* Fault: the index of the reserve is not decremented.
syscall_dup_thread_leak ==
  /\ TaskRunning
  /\ may_dup
  /\ LET ctx2 == ReserveBase + idx_reserve - 1
     IN  /\ context' = dup_contexts(esp0, ctx2)
         /\ \E k \in insert_places(ready_get_priority(context'), ready, ctx2) :
              ready' = insert_elt(ready, k, ctx2)
  /\ hw_context_switch(esp0)
  /\ UNCHANGED <<idx_reserve, current_time, next_wake_date, waiting, init_i>>

\* The new thread is a copy of its parent, ready; the parent goes on.
syscall_dup_thread ==
  /\ TaskRunning
  /\ may_dup
  /\ idx_reserve' = idx_reserve - 1
  /\ LET ctx2 == ReserveBase + idx_reserve'
     IN  /\ context' = dup_contexts(esp0, ctx2)
         /\ \E k \in insert_places(ready_get_priority(context'), ready, ctx2) :
              ready' = insert_elt(ready, k, ctx2)
  /\ hw_context_switch(esp0)
  /\ UNCHANGED <<current_time, next_wake_date, waiting, init_i>>

\* Handlers that leave the queues alone.
syscall_or_exception ==
  /\ \/ syscall_putchar
     \/ syscall_trigger_bug
     \/ syscall_dup_thread_fatal
     \/ bad_syscall
     \/ default_interrupt_handler
  /\ UNCHANGED queueVars

TimerInterrupt == timer_interrupt /\ UNCHANGED queueVars

-----------------------------------------------------------------------------
\* high_level_timer_interrupt_handler.  First the loop of sched_wake_tasks.
\* Fault: wakes one tick too early.
first_is_due_early ==
  /\ waiting # <<>>
  /\ context[get_first(waiting)].wakeup_date <= current_time + ACTUAL_TICK
\* Fault: a date that is reached exactly is left for the next tick.
first_is_due_late ==
  waiting # <<>> /\ context[get_first(waiting)].wakeup_date < current_time
first_is_due ==
  waiting # <<>> /\ context[get_first(waiting)].wakeup_date <= current_time

sched_wake_task ==
  /\ mode = "wake"
  /\ first_is_due
  /\ waiting' = remove_elt(waiting)
  /\ \/ /\ fits(ready)
        /\ \E k \in insert_places(ready_get_priority(context), ready, get_first(waiting)) :
             ready' = insert_elt(ready, k, get_first(waiting))
        /\ UNCHANGED <<mode, cause>>
     \/ /\ ~fits(ready)
        /\ Halt("assert")
        /\ UNCHANGED ready
  /\ UNCHANGED <<context, esp0, idx_reserve, current_time, next_wake_date, init_i>>

\* Then the choice of the context to resume.
\* Fault: a context of the same priority preempts.
preempts_equal(ctx) ==
  /\ ready # <<>>
  /\ ~is_gt_priority(ready_get_priority(context)[ctx],
                     ready_get_priority(context)[get_first(ready)])
\* Fault: the running context is never preempted.
preempts_never(ctx) == FALSE
preempts(ctx) ==
  /\ ready # <<>>
  /\ is_gt_priority(ready_get_priority(context)[get_first(ready)],
                    ready_get_priority(context)[ctx])

sched_maybe_preempt(ctx) ==
  \/ /\ preempts(ctx)
     /\ \E k \in insert_places(ready_get_priority(context), ready, ctx) :
          LET q == insert_elt(ready, k, ctx)
          IN  ready' = remove_elt(q) /\ hw_context_switch(get_first(q))
  \/ /\ ~preempts(ctx)
     /\ UNCHANGED ready
     /\ hw_context_switch(ctx)

sched_wake_done ==
  /\ mode = "wake"
  /\ ~first_is_due
  /\ \/ context_is_idle(esp0) /\ sched_choose_next
     \/ ~context_is_idle(esp0) /\ sched_maybe_preempt(esp0)
  /\ UNCHANGED <<context, idx_reserve, current_time, next_wake_date, waiting, init_i>>

Next ==
  \/ HighLevelInit
  \/ scheduler_init_task
  \/ boot
  \/ yield
  \/ syscall_dup_thread
  \/ syscall_or_exception
  \/ TimerInterrupt
  \/ sched_wake_task
  \/ sched_wake_done

\* The PIT goes on ticking, and the handlers of the kernel run to their end.
\* Nothing is assumed of the tasks.
Fairness ==
  /\ WF_vars(TimerInterrupt)
  /\ WF_vars(sched_wake_task)
  /\ WF_vars(sched_wake_done)

Spec == Init /\ [][Next]_vars
FairSpec == Spec /\ Fairness

-----------------------------------------------------------------------------
TypeOK ==
  /\ HighLevelTypeOK
  /\ ready \in Seq(Contexts)
  /\ waiting \in Seq(Contexts)
  /\ init_i \in 0 .. nb_tasks

\* Where control can be and what it implies for the other variables.
Control ==
  /\ mode \in {"high_level_init", "scheduler_init"} =>
       /\ esp0 = NoContext
       /\ idx_reserve = RESERVE_SIZE
       /\ waiting = <<>>
       /\ next_wake_date = DATE_FAR_AWAY
       /\ \A c \in Contexts : context[c].wakeup_date = 0
  /\ mode = "high_level_init" => init_i = 0 /\ ready = <<>>
  /\ mode \in {"user", "wake"} => esp0 \in Contexts
  /\ mode = "wake" => next_wake_date = DATE_FAR_AWAY
  /\ mode # "halted" => cause = "none"

\* The contexts scheduler_init has reached: all of them once it is over.
Started == IF mode \in {"high_level_init", "scheduler_init"} THEN 0 .. init_i - 1 ELSE Live

Running == {esp0} \ {NoContext, context_idle}

\* No context is lost or in two places: each started context is either the
\* running one, or once in the ready queue, or once in the waiting queue; the
\* idle context and the free contexts of the reserve are in no queue.  (An
\* assertion that fails halts the kernel in the middle of a move.)
Placement ==
  /\ IsInjective(ready) /\ IsInjective(waiting)
  /\ Range(ready) \cap Range(waiting) = {}
  /\ Running \cap (Range(ready) \cup Range(waiting)) = {}
  /\ cause # "assert" => Running \cup Range(ready) \cup Range(waiting) = Started

\* Both queues stay ordered although the dates their elements are ordered by
\* live in the contexts, which yield and dup_thread write.
QueuesOrdered ==
  /\ Ordered(ready_get_priority(context), ready)
  /\ Ordered(waiting_get_priority(context), waiting)

HasPriorityOver(ctxs, c, d) ==
  IF SCHEDULING = "EDF" THEN ctxs[c].deadline < ctxs[d].deadline
                        ELSE ctxs[c].priority > ctxs[d].priority

\* In user code no ready context has priority over the running one, and the
\* idle context runs only when no context is ready.
RunsHighest ==
  mode = "user" =>
    \A c \in Range(ready) : ~context_is_idle(esp0) /\ ~HasPriorityOver(context, c, esp0)

\* The timer is never armed for a date that nobody waits for: it is either
\* disarmed or set to the date of the first waiting context.
TimerSetToFirst ==
  next_wake_date # DATE_FAR_AWAY =>
    waiting # <<>> /\ next_wake_date = context[get_first(waiting)].wakeup_date

\* When the CPU idles the timer is set: nothing else could end the idling.
IdleIsWoken ==
  mode = "user" /\ context_is_idle(esp0) /\ waiting # <<>> =>
    next_wake_date = context[get_first(waiting)].wakeup_date

\* The handler of a wake-up finds a context to wake up, and keeps one ready.
WakeHasWork == mode = "wake" => first_is_due \/ ready # <<>>

\* scheduler.h:34, "If active, last time it was awaken": a context is never
\* ready or running before the date it asked for.
NeverEarly ==
  cause # "assert" =>
    \A c \in Running \cup Range(ready) : context[c].wakeup_date <= current_time

\* The assertions of the scheduler on the sizes of its queues can only fail
\* when at least nb_contexts + 2 threads are live: one more than nb_contexts in
\* the queue, and the one being inserted.  With the constants of config.h there
\* are never so many as soon as there are two tasks.
AssertionsNeedManyThreads ==
  cause = "assert" => nb_tasks + (RESERVE_SIZE - idx_reserve) > nb_contexts + 1

\* scheduler.h:14, "Change the status (to ready) of all tasks that are now
\* ready": back in user code, no waiting context is due.
NobodyDueIsLeft ==
  mode = "wake" /\ mode' = "user" =>
    \A c \in Range(waiting') : context'[c].wakeup_date > current_time'
WakesAllDue == [][NobodyDueIsLeft]_vars

\* A context that can still run leaves the CPU only for one that has priority
\* over it (scheduler.h:17-18).
YieldsToHigher ==
  esp0' # esp0 /\ esp0 \in Range(ready') => HasPriorityOver(context', esp0', esp0)
PreemptedByHigher == [][YieldsToHigher]_vars

\* Idling ends: with a date to wait for that the bounded clock reaches, some
\* task runs again.
Horizon == MaxTime - ACTUAL_TICK
IdlingEnds ==
  (/\ mode = "user" /\ context_is_idle(esp0)
   /\ current_time <= Horizon
   /\ \E c \in Range(waiting) : context[c].wakeup_date <= Horizon)
  ~> (mode = "user" /\ ~context_is_idle(esp0)) \/ mode = "halted"

-----------------------------------------------------------------------------
\* What comments of the repository say and the code does not do.

\* priority_scheduler.c:27, "Set a possible preemption point when we reach the
\* next wakeup": in user code with contexts waiting, the timer is set no later
\* than the first date.
PreemptionPointSet ==
  mode = "user" /\ waiting # <<>> =>
    next_wake_date <= context[get_first(waiting)].wakeup_date

\* config.h:19, "the parent can create several childs who cannot have childs
\* themselves".
ChildrenCannotDup == \A c \in Allocated : context[c].range = 0

\* priority_scheduler.c:24 and 107.
NoAssertionFails == cause # "assert"

=============================================================================
