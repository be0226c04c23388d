-------------------------- MODULE RoundRobinKernel --------------------------
(***************************************************************************)
(* EducRTOS with the round-robin scheduler (round_robin_scheduler.c): the  *)
(* handlers of HighLevel completed with the circular list of the contexts, *)
(* linked by the field next.  "Execute all the tasks round-robin; do not   *)
(* care about time; none of the tasks ever block."                         *)
(***************************************************************************)
EXTENDS HighLevel, FiniteSets, Sequences

ASSUME RoundRobinAssumption == SCHEDULING = "ROUND_ROBIN"

VARIABLES
  next,     \* sched_context.next of every context
  current,  \* the scheduler's idea of the running context
  init_i    \* the index of the loop of scheduler_init

vars == <<context, mode, cause, esp0, idx_reserve, current_time, next_wake_date,
          next, current, init_i>>

ringVars == <<next, current, init_i>>

-----------------------------------------------------------------------------
Init ==
  /\ HighLevelInitState
  /\ next = [c \in Contexts |-> NoContext]
  /\ current = NoContext
  /\ init_i = 0

\* Besides, high_level_init makes the contexts of the reserve point to the
\* first of them and the idle context to itself.
HighLevelInit ==
  /\ high_level_init
  /\ next' = [c \in Contexts |-> IF c \in Reserve THEN ReserveBase
                                 ELSE IF context_is_idle(c) THEN c ELSE next[c]]
  /\ UNCHANGED <<current, init_i>>

\* Fault: the loop starts with no previous context, and the list is not closed.
scheduler_init_prev_open(i) == IF i = 0 THEN context_idle ELSE i - 1

\* The context before task i in the list: the last one for the first.
scheduler_init_prev(i) == IF i = 0 THEN nb_tasks - 1 ELSE i - 1

\* One iteration of the loop of scheduler_init.
scheduler_init_task ==
  /\ mode = "scheduler_init"
  /\ init_i < nb_tasks
  /\ next' = [next EXCEPT ![scheduler_init_prev(init_i)] = init_i]
  /\ init_i' = init_i + 1
  /\ UNCHANGED <<context, mode, cause, esp0, idx_reserve, current_time, next_wake_date, current>>

\* Fault: advances without remembering where it is.
sched_choose_next_stale(cur) ==
  /\ UNCHANGED current
  /\ hw_context_switch(next[cur])

\* sched_choose_next, then the switch.
sched_choose_next(cur) ==
  /\ current' = next[cur]
  /\ hw_context_switch(next[cur])

\* The end of scheduler_init, which makes task 0 the current one, and of boot,
\* which already chooses the next one.
boot ==
  /\ mode = "scheduler_init"
  /\ init_i = nb_tasks
  /\ sched_choose_next(0)
  /\ UNCHANGED <<context, idx_reserve, current_time, next_wake_date, next, init_i>>

-----------------------------------------------------------------------------
\* sched_set_waiting does nothing: the context stays in the list, and the timer
\* is never set.  Hence no tick starts a wake-up, where sched_wake_tasks and
\* sched_maybe_preempt would do nothing either.
c_syscall_yield(incr_wakeup, incr_deadline) ==
  /\ TaskRunning
  /\ context' = [context EXCEPT ![esp0] = yield_dates(@, incr_wakeup, incr_deadline)]
  /\ sched_choose_next(current)
  /\ UNCHANGED <<idx_reserve, current_time, next_wake_date, next, init_i>>

yield ==
  \E incr_wakeup \in WakeupIncrements, incr_deadline \in DeadlineIncrements :
    c_syscall_yield(incr_wakeup, incr_deadline)

\* Fault: only the saved registers and the dates are copied, not the link.
copy_next_missing(dest, src) == next

\* copy_context copies the link too.
copy_next(dest, src) == [next EXCEPT ![dest] = next[src]]

\* Fault: the new context is put after the next one.
sched_insert_duplicated_context_far(links, orig, new) ==
  IF links[orig] = links[new]
  THEN next' = [links EXCEPT ![links[orig]] = new] /\ hw_context_switch(orig)
  ELSE next' = links /\ Halt("assert") /\ UNCHANGED esp0

\* The links after the insertion of new behind orig; the assertion is about the
\* copies copy_context has made.
sched_insert_duplicated_context(links, orig, new) ==
  IF links[orig] = links[new]
  THEN next' = [links EXCEPT ![orig] = new] /\ hw_context_switch(orig)
  ELSE next' = links /\ Halt("assert") /\ UNCHANGED esp0

syscall_dup_thread ==
  /\ TaskRunning
  /\ may_dup
  /\ idx_reserve' = idx_reserve - 1
  /\ LET ctx2 == ReserveBase + idx_reserve'
     IN  /\ context' = dup_contexts(esp0, ctx2)
         /\ sched_insert_duplicated_context(copy_next(ctx2, esp0), esp0, ctx2)
  /\ UNCHANGED <<current_time, next_wake_date, current, init_i>>

\* Handlers that leave the list alone.
syscall_or_exception ==
  /\ \/ syscall_putchar
     \/ syscall_trigger_bug
     \/ syscall_dup_thread_fatal
     \/ bad_syscall
     \/ default_interrupt_handler
  /\ UNCHANGED ringVars

TimerInterrupt == timer_interrupt /\ UNCHANGED ringVars

Next ==
  \/ HighLevelInit
  \/ scheduler_init_task
  \/ boot
  \/ yield
  \/ syscall_dup_thread
  \/ syscall_or_exception
  \/ TimerInterrupt

Spec == Init /\ [][Next]_vars

-----------------------------------------------------------------------------
TypeOK ==
  /\ HighLevelTypeOK
  /\ next \in [Contexts -> Contexts \cup {NoContext}]
  /\ current \in Contexts \cup {NoContext}
  /\ init_i \in 0 .. nb_tasks

Booted == mode \notin {"high_level_init", "scheduler_init"}

\* The live contexts form a single circle: the links stay among them, and no
\* smaller set of contexts is closed under them, so that wherever the scheduler
\* is it comes to every context.  dup_thread changes the circle while the
\* scheduler is on it.
Closed(S) == \A c \in S : next[c] \in S
Ring ==
  Booted => Closed(Live) /\ \A S \in SUBSET Live : S # {} /\ Closed(S) => S = Live

\* The scheduler's current context is the one the hardware runs, although
\* handlers are given the context by the hardware and choose the next one from
\* current; and it is never the idle context ("none of the tasks ever block").
CurrentRuns == Booted => current = esp0 /\ esp0 \in Live

\* round_robin_scheduler.c:39: the assertion holds.
NoAssertionFails == cause # "assert"

\* The order of turns the links describe, the running context first.
Orbit ==
  LET orbit[k \in 0 .. Cardinality(Live) - 1] == IF k = 0 THEN esp0 ELSE next[orbit[k - 1]]
  IN  [k \in 1 .. Cardinality(Live) |-> orbit[k - 1]]
order == IF Booted THEN Orbit ELSE <<>>

Turns == INSTANCE Rotation WITH order <- order, Initial <- Tasks, Spawned <- Reserve

\* The kernel gives turns as Rotation says: threads in a cyclic order that only
\* yields advance, a new thread right behind its parent.
TakesTurns == Turns!Spec
=============================================================================
