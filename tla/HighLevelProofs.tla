-------------------------- MODULE HighLevelProofs --------------------------
(***************************************************************************)
(* What the proofs about the kernels share: facts about the constants, the *)
(* contexts the handlers build and the reserve.                            *)
(***************************************************************************)
EXTENDS HighLevel, TLAPS

-----------------------------------------------------------------------------
\* The constants.
LEMMA Constants ==
  /\ nb_tasks \in Nat /\ nb_tasks > 0
  /\ RESERVE_SIZE \in Nat
  /\ CONTEXTS_PER_TASK \in Nat /\ CONTEXTS_PER_TASK > 0
  /\ DATE_MOD \in Nat /\ DATE_MOD > 0 /\ DATE_FAR_AWAY \in Date
  /\ ACTUAL_TICK \in Nat /\ MaxTime \in Nat /\ MaxTime < DATE_FAR_AWAY
  /\ context_idle \in Contexts /\ NoContext \notin Contexts
  /\ Tasks \subseteq Contexts /\ Reserve \subseteq Contexts
  /\ context_idle \notin Tasks /\ context_idle \notin Reserve
  BY TasksAssumption, ContextsPerTaskAssumption, ReserveAssumption, DateAssumption
  DEF context_idle, Contexts, Tasks, Reserve, ReserveBase, NoContext, DATE_FAR_AWAY, Date

\* The contexts that the handlers build are contexts.
LEMMA ContextTypes ==
  ASSUME NEW c \in Context
  PROVE  /\ \A w \in WakeupIncrements, d \in DeadlineIncrements : yield_dates(c, w, d) \in Context
         /\ \A p \in Nat : [c EXCEPT !.priority = p] \in Context
         /\ [c EXCEPT !.range = 0] \in Context
PROOF
  <1>1. \A x \in Nat : x % DATE_MOD \in Date
    BY Constants DEF Date
  <1>2. c.wakeup_date \in Nat BY DEF Context, Date
  <1>3. WakeupIncrements \subseteq Nat /\ DeadlineIncrements \subseteq Nat
    BY IncrementAssumption
  <1>4. ASSUME NEW w \in WakeupIncrements, NEW d \in DeadlineIncrements
        PROVE  yield_dates(c, w, d) \in Context
    <2>1. (c.wakeup_date + w) % DATE_MOD \in Date BY <1>1, <1>2, <1>3
    <2>2. ((c.wakeup_date + w) % DATE_MOD) + d \in Nat BY <2>1, <1>3 DEF Date
    <2>3. (((c.wakeup_date + w) % DATE_MOD) + d) % DATE_MOD \in Date BY <2>2, <1>1
    <2> QED BY <2>1, <2>3 DEF yield_dates, Context
  <1> QED BY <1>4 DEF Context

LEMMA InitContextTypes ==
  ASSUME context \in [Contexts -> Context]
  PROVE  /\ \A c \in Contexts, i \in Nat : context_init(c, i) \in Context
         /\ idle_init \in Context
PROOF
  <1>1. \A c \in Contexts, i \in Nat : context_init(c, i) \in Context
    <2> SUFFICES ASSUME NEW c \in Contexts, NEW i \in Nat PROVE context_init(c, i) \in Context
      OBVIOUS
    <2>1. i * CONTEXTS_PER_TASK \in Nat BY Constants
    <2> QED BY <2>1, Constants DEF context_init, Context
  <1>2. context_init(context_idle, 0) \in Context BY <1>1, Constants
  <1>3. 0 \in Date /\ DATE_FAR_AWAY \in Date BY Constants DEF Date
  <1>4. idle_init \in Context BY <1>2, <1>3 DEF idle_init, Context
  <1> QED BY <1>1, <1>4

\* The contexts handed to threads, before and after dup_thread.
LEMMA LiveFacts ==
  ASSUME idx_reserve \in 0 .. RESERVE_SIZE
  PROVE  /\ Live \subseteq Contexts \ {context_idle, NoContext}
         /\ idx_reserve = RESERVE_SIZE => Live = Tasks
         /\ idx_reserve # 0 /\ idx_reserve' = idx_reserve - 1 =>
              /\ ReserveBase + idx_reserve' \in Contexts \ {context_idle, NoContext}
              /\ ReserveBase + idx_reserve' \notin Live
              /\ Live' = Live \cup {ReserveBase + idx_reserve'}
PROOF
  <1>1. /\ Live \subseteq Contexts \ {context_idle, NoContext}
        /\ idx_reserve = RESERVE_SIZE => Live = Tasks
    BY Constants DEF Live, Allocated, Tasks, ReserveBase, Contexts, context_idle, NoContext
  <1>2. ASSUME idx_reserve # 0, idx_reserve' = idx_reserve - 1
        PROVE  /\ ReserveBase + idx_reserve' \in Contexts \ {context_idle, NoContext}
               /\ ReserveBase + idx_reserve' \notin Live
    BY <1>2, Constants
    DEF Live, Allocated, Tasks, ReserveBase, Contexts, context_idle, NoContext
  <1>3. ASSUME idx_reserve # 0, idx_reserve' = idx_reserve - 1
        PROVE  Live' = Live \cup {ReserveBase + idx_reserve'}
    <2>1. idx_reserve' .. RESERVE_SIZE - 1 = (idx_reserve .. RESERVE_SIZE - 1) \cup {idx_reserve'}
      BY <1>3, Constants
    <2>2. Allocated' = Allocated \cup {ReserveBase + idx_reserve'}
      BY <2>1 DEF Allocated
    <2> QED BY <2>2 DEF Live
  <1> QED BY <1>1, <1>2, <1>3

\* The handlers that do not involve the scheduler keep the types, the running
\* context and the contexts; they go on in user code or halt.
LEMMA PlainHandlerTypes ==
  ASSUME HighLevelTypeOK,
         \/ syscall_putchar \/ syscall_trigger_bug \/ syscall_dup_thread_fatal
         \/ bad_syscall \/ default_interrupt_handler
  PROVE  /\ HighLevelTypeOK'
         /\ mode = "user"
         /\ \/ mode' = "user" /\ cause' = cause
            \/ mode' = "halted" /\ cause' = "fatal"
         /\ UNCHANGED <<context, esp0, idx_reserve, current_time, next_wake_date>>
  BY DEF syscall_putchar, syscall_trigger_bug, syscall_dup_thread_fatal, bad_syscall,
     default_interrupt_handler, TaskRunning, hw_context_switch, Halt, HighLevelTypeOK, Modes, Causes

\* A tick starts a wake-up only if the timer is set.
LEMMA TickTypes ==
  ASSUME HighLevelTypeOK, timer_interrupt
  PROVE  /\ HighLevelTypeOK'
         /\ mode = "user" /\ mode' \in {"user", "wake"}
         /\ next_wake_date = DATE_FAR_AWAY => mode' = "user" /\ next_wake_date' = DATE_FAR_AWAY
         /\ UNCHANGED <<context, cause, esp0, idx_reserve>>
PROOF
  <1>1. current_time' \in 0 .. MaxTime
    BY Constants DEF timer_interrupt, HighLevelTypeOK
  <1>2. next_wake_date = DATE_FAR_AWAY => current_time' < next_wake_date
    BY <1>1, Constants DEF Date
  <1>3. HighLevelTypeOK'
    BY <1>1, Constants
    DEF timer_interrupt, timer_dont_wake, hw_context_switch, HighLevelTypeOK, Modes
  <1>4. next_wake_date = DATE_FAR_AWAY => mode' = "user" /\ next_wake_date' = DATE_FAR_AWAY
    BY <1>1, <1>2, Constants DEF timer_interrupt, hw_context_switch, Date
  <1> QED BY <1>3, <1>4 DEF timer_interrupt, timer_dont_wake, hw_context_switch
=============================================================================
