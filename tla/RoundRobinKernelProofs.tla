----------------------- MODULE RoundRobinKernelProofs -----------------------
(***************************************************************************)
(* Proofs about RoundRobinKernel, for every number of tasks and size of    *)
(* the reserve.                                                            *)
(***************************************************************************)
EXTENDS RoundRobinTurns, HighLevelProofs, FiniteSetTheorems,
        SequenceTheorems, WellFoundedInduction

-----------------------------------------------------------------------------
\* The inductive invariant.  What control implies:
Control ==
  /\ ~Booted => idx_reserve = RESERVE_SIZE
  /\ mode = "high_level_init" => init_i = 0
  /\ mode # "wake" /\ next_wake_date = DATE_FAR_AWAY

\* A set of numbers below i that contains the successor of each of its elements
\* reaches i - 1, and is all of them when it contains 0.
Chain(i) ==
  \A S \in SUBSET (0 .. i - 1) :
    (\A c \in S : c + 1 \in 0 .. i - 1 => c + 1 \in S) =>
      /\ S # {} => i - 1 \in S
      /\ 0 \in S => S = 0 .. i - 1

\* The part of the circle that scheduler_init has made.
Links ==
  mode = "scheduler_init" /\ init_i > 0 =>
    /\ next[nb_tasks - 1] = 0
    /\ \A i \in 0 .. init_i - 2 : next[i] = i + 1
    /\ Chain(init_i)

RingInv ==
  /\ TypeOK
  /\ Control
  /\ Links
  /\ Ring
  /\ CurrentRuns
  /\ NoAssertionFails

-----------------------------------------------------------------------------
LEMMA ChainStart == Chain(1)
PROOF
  <1>1. 0 .. 1 - 1 = {0} /\ 1 - 1 = 0 OBVIOUS
  <1>2. \A S \in SUBSET {0} : (S # {} => 0 \in S) /\ (0 \in S => S = {0}) OBVIOUS
  <1> QED BY <1>1, <1>2 DEF Chain

LEMMA ChainStep ==
  ASSUME NEW i \in Nat, i > 0, Chain(i)
  PROVE  Chain(i + 1)
PROOF
  <1> SUFFICES ASSUME NEW S \in SUBSET (0 .. i),
                      \A c \in S : c + 1 \in 0 .. i => c + 1 \in S
               PROVE  /\ S # {} => i \in S
                      /\ 0 \in S => S = 0 .. i
    <2>1. (i + 1) - 1 = i OBVIOUS
    <2> QED BY <2>1 DEF Chain
  <1> DEFINE T == S \cap (0 .. i - 1)
  <1>1. T \in SUBSET (0 .. i - 1) /\ S \subseteq T \cup {i} OBVIOUS
  <1>2. \A c \in T : c + 1 \in 0 .. i - 1 => c + 1 \in T OBVIOUS
  <1>3. (T # {} => i - 1 \in T) /\ (0 \in T => T = 0 .. i - 1)
    BY <1>1, <1>2 DEF Chain
  <1>4. i - 1 \in S => i \in S
    <2>1. (i - 1) + 1 = i /\ i \in 0 .. i OBVIOUS
    <2> QED BY <2>1
  <1>5. S # {} => i \in S
    BY <1>1, <1>3, <1>4
  <1>6. 0 \in S => S = 0 .. i
    <2> SUFFICES ASSUME 0 \in S PROVE S = 0 .. i OBVIOUS
    <2>1. 0 \in T OBVIOUS
    <2>2. 0 .. i = (0 .. i - 1) \cup {i} OBVIOUS
    <2> QED BY <1>3, <1>5, <2>1, <2>2
  <1> QED BY <1>5, <1>6

-----------------------------------------------------------------------------
LEMMA RingInvInit == Init => RingInv
PROOF
  <1> SUFFICES ASSUME Init PROVE RingInv OBVIOUS
  <1>1. BssContext \in Context BY Constants DEF BssContext, Context, Date
  <1>2. TypeOK
    BY <1>1, Constants DEF Init, HighLevelInitState, TypeOK, HighLevelTypeOK, Modes, Causes
  <1> QED BY <1>2 DEF Init, HighLevelInitState, RingInv, Control, Links, Ring, CurrentRuns,
    NoAssertionFails, Booted

\* The steps that change neither the circle nor the running context.
LEMMA SameRing ==
  ASSUME RingInv, Booted, Booted', UNCHANGED <<esp0, idx_reserve, next, current>>
  PROVE  Links' /\ Ring' /\ CurrentRuns'
  BY DEF RingInv, Links, Ring, CurrentRuns, Closed, Live, Allocated, Booted

LEMMA InitTask ==
  ASSUME RingInv, scheduler_init_task
  PROVE  RingInv'
PROOF
  <1> USE DEF scheduler_init_task
  <1>0. /\ next \in [Contexts -> Contexts \cup {NoContext}] /\ init_i \in 0 .. nb_tasks - 1
        /\ context \in [Contexts -> Context] /\ nb_tasks \in Nat /\ nb_tasks > 0
    BY Constants DEF RingInv, TypeOK, HighLevelTypeOK
  <1>1. init_i \in Contexts /\ \A i \in 0 .. nb_tasks - 1 : i \in Contexts
    BY <1>0, Constants DEF Tasks
  <1>2. scheduler_init_prev(init_i) \in 0 .. nb_tasks - 1
    BY <1>0 DEF scheduler_init_prev
  <1>3. TypeOK'
    <2>1. next' \in [Contexts -> Contexts \cup {NoContext}] BY <1>0, <1>1, <1>2
    <2>2. init_i' \in 0 .. nb_tasks BY <1>0
    <2> QED BY <2>1, <2>2 DEF RingInv, TypeOK, HighLevelTypeOK
  <1>4. next'[nb_tasks - 1] = 0 /\ \A i \in 0 .. init_i - 1 : next'[i] = i + 1
    <2>1. CASE init_i = 0
      BY <1>0, <1>1, <2>1 DEF scheduler_init_prev
    <2>2. CASE init_i > 0
      <3>1. next[nb_tasks - 1] = 0 /\ \A i \in 0 .. init_i - 2 : next[i] = i + 1
        BY <2>2 DEF RingInv, Links
      <3>2. next' = [next EXCEPT ![init_i - 1] = init_i]
        <4>1. scheduler_init_prev(init_i) = init_i - 1 BY <1>0, <2>2 DEF scheduler_init_prev
        <4> QED BY <4>1
      <3> QED BY <1>0, <1>1, <2>2, <3>1, <3>2
    <2> QED BY <1>0, <2>1, <2>2
  <1>5. Chain(init_i + 1)
    <2>1. CASE init_i = 0 BY <2>1, ChainStart
    <2>2. CASE init_i > 0
      <3>1. Chain(init_i) BY <2>2 DEF RingInv, Links
      <3> QED BY <1>0, <2>2, <3>1, ChainStep
    <2> QED BY <1>0, <2>1, <2>2
  <1>6. Links'
    <2>1. (init_i + 1) - 2 = init_i - 1 BY <1>0
    <2> QED BY <1>4, <1>5, <2>1 DEF Links
  <1> QED BY <1>3, <1>6 DEF RingInv, Control, Ring, CurrentRuns, NoAssertionFails, Booted

\* The circle is complete when boot starts.
LEMMA Boot ==
  ASSUME RingInv, boot
  PROVE  RingInv'
PROOF
  <1> USE DEF boot, sched_choose_next, hw_context_switch
  <1>0. /\ next \in [Contexts -> Contexts \cup {NoContext}]
        /\ nb_tasks \in Nat /\ nb_tasks > 0 /\ 0 \in Contexts
    BY Constants DEF RingInv, TypeOK, Tasks
  <1>1. TypeOK' BY <1>0 DEF RingInv, TypeOK, HighLevelTypeOK, Modes
  <1>2. Live = Tasks /\ Live' = Tasks
    <2>1. idx_reserve = RESERVE_SIZE BY DEF RingInv, Control, Booted
    <2>2. Live = Tasks BY <2>1, Constants, LiveFacts
    <2> QED BY <2>2 DEF Live, Allocated
  <1>3. /\ next[nb_tasks - 1] = 0 /\ Chain(nb_tasks)
        /\ \A i \in 0 .. nb_tasks - 2 : next[i] = i + 1
    BY <1>0 DEF RingInv, Links
  <1>4. \A c \in Tasks : next[c] \in Tasks
    BY <1>0, <1>3 DEF Tasks
  <1>5. ASSUME NEW S \in SUBSET Tasks, S # {}, \A c \in S : next[c] \in S PROVE S = Tasks
    <2>1. \A c \in S : c + 1 \in 0 .. nb_tasks - 1 => c + 1 \in S
      BY <1>0, <1>3, <1>5 DEF Tasks
    <2>2. nb_tasks - 1 \in S BY <1>3, <1>5, <2>1 DEF Chain, Tasks
    <2>3. 0 \in S BY <1>3, <1>5, <2>2
    <2> QED BY <1>3, <2>1, <2>3 DEF Chain, Tasks
  <1>6. Ring' BY <1>2, <1>4, <1>5 DEF Ring, Closed
  <1>7. CurrentRuns' BY <1>0, <1>2, <1>4 DEF CurrentRuns, Tasks
  <1> QED BY <1>1, <1>6, <1>7 DEF RingInv, Control, Links, NoAssertionFails, Booted

LEMMA Yield ==
  ASSUME RingInv, NEW w \in WakeupIncrements, NEW d \in DeadlineIncrements, c_syscall_yield(w, d)
  PROVE  RingInv'
PROOF
  <1> USE DEF c_syscall_yield, sched_choose_next, hw_context_switch
  <1>0. mode = "user" /\ Booted /\ Booted' BY DEF TaskRunning, Booted
  <1>1. esp0 \in Live /\ current = esp0 /\ Closed(Live) BY <1>0 DEF RingInv, Ring, CurrentRuns
  <1>2. Live \subseteq Contexts /\ Live' = Live
    BY LiveFacts DEF RingInv, TypeOK, HighLevelTypeOK, Live, Allocated
  <1>3. context' \in [Contexts -> Context]
    <2>1. context \in [Contexts -> Context] /\ esp0 \in Contexts
      BY <1>1, <1>2 DEF RingInv, TypeOK, HighLevelTypeOK
    <2>2. yield_dates(context[esp0], w, d) \in Context BY <2>1, ContextTypes
    <2> QED BY <2>1, <2>2
  <1>4. esp0' \in Live /\ current' = esp0' BY <1>1 DEF Closed
  <1>5. TypeOK' BY <1>2, <1>3, <1>4 DEF RingInv, TypeOK, HighLevelTypeOK, Modes
  <1>6. Ring' BY <1>0, <1>2 DEF RingInv, Ring, Closed
  <1>7. CurrentRuns' BY <1>2, <1>4 DEF CurrentRuns
  <1> QED BY <1>0, <1>5, <1>6, <1>7 DEF RingInv, Control, Links, NoAssertionFails

\* The child is put in the circle behind its parent: a set closed under the new
\* links that is not the whole circle would be closed under the old ones.
LEMMA DupThread ==
  ASSUME RingInv, syscall_dup_thread
  PROVE  RingInv'
PROOF
  <1> DEFINE ctx2 == ReserveBase + idx_reserve'
  <1>0. /\ mode = "user" /\ Booted /\ idx_reserve # 0 /\ idx_reserve' = idx_reserve - 1
        /\ context' = dup_contexts(esp0, ctx2)
        /\ sched_insert_duplicated_context(copy_next(ctx2, esp0), esp0, ctx2)
        /\ UNCHANGED <<current_time, next_wake_date, current, init_i>>
    BY DEF syscall_dup_thread, TaskRunning, may_dup, Booted
  <1>1. /\ next \in [Contexts -> Contexts \cup {NoContext}] /\ context \in [Contexts -> Context]
        /\ idx_reserve \in 0 .. RESERVE_SIZE
    BY DEF RingInv, TypeOK, HighLevelTypeOK
  <1>2. /\ ctx2 \in Contexts /\ ctx2 \notin Live /\ Live' = Live \cup {ctx2}
        /\ Live \subseteq Contexts /\ idx_reserve' \in 0 .. RESERVE_SIZE
    BY <1>0, <1>1, LiveFacts, Constants
  <1>3. esp0 \in Live /\ current = esp0 /\ Closed(Live)
    BY <1>0 DEF RingInv, Ring, CurrentRuns
  <1> HIDE DEF ctx2
  <1>4. esp0 # ctx2 /\ esp0 \in Contexts BY <1>2, <1>3
  <1>5. /\ next' = [[next EXCEPT ![ctx2] = next[esp0]] EXCEPT ![esp0] = ctx2]
        /\ esp0' = esp0 /\ mode' = "user" /\ cause' = cause
    BY <1>0, <1>1, <1>2, <1>4
    DEF sched_insert_duplicated_context, copy_next, hw_context_switch
  <1>6. /\ next'[esp0] = ctx2 /\ next'[ctx2] = next[esp0]
        /\ \A c \in Live \ {esp0} : next'[c] = next[c]
    BY <1>1, <1>2, <1>4, <1>5
  <1>7. context' \in [Contexts -> Context]
    <2>1. [context[ctx2] EXCEPT !.range = 0] \in Context BY <1>1, <1>2, ContextTypes
    <2> QED BY <1>0, <1>1, <1>2, <1>4, <2>1 DEF dup_contexts, copy_context
  <1>8. next' \in [Contexts -> Contexts \cup {NoContext}] BY <1>1, <1>2, <1>4, <1>5
  <1>9. TypeOK'
    BY <1>0, <1>2, <1>5, <1>7, <1>8 DEF RingInv, TypeOK, HighLevelTypeOK, Modes
  <1>10. \A c \in Live' : next'[c] \in Live'
    BY <1>2, <1>3, <1>6 DEF Closed
  <1>11. ASSUME NEW S \in SUBSET (Live'), S # {}, \A c \in S : next'[c] \in S PROVE S = Live'
    <2> DEFINE T == S \ {ctx2}
    <2>1. T \in SUBSET Live BY <1>2
    <2>2. Closed(T)
      <3> SUFFICES ASSUME NEW c \in T PROVE next[c] \in T BY DEF Closed
      <3>1. next[c] # ctx2 BY <1>2, <1>3, <2>1 DEF Closed
      <3>2. next[c] \in S
        <4>1. CASE c = esp0
          <5>1. ctx2 \in S BY <1>6, <1>11, <4>1
          <5> QED BY <1>6, <1>11, <4>1, <5>1
        <4>2. CASE c # esp0 BY <1>6, <1>11, <2>1, <4>2
        <4> QED BY <4>1, <4>2
      <3> QED BY <3>1, <3>2
    <2>3. T # {}
      <3>1. PICK c \in S : TRUE BY <1>11
      <3>2. CASE c = ctx2
        <4>1. next[esp0] \in S /\ next[esp0] # ctx2
          BY <1>2, <1>3, <1>6, <1>11, <3>1, <3>2 DEF Closed
        <4> QED BY <4>1
      <3>3. CASE c # ctx2 BY <3>1, <3>3
      <3> QED BY <3>2, <3>3
    <2>4. T = Live BY <1>0, <2>1, <2>2, <2>3 DEF RingInv, Ring
    <2>5. ctx2 \in S BY <1>3, <1>6, <1>11, <2>4
    <2> QED BY <1>2, <2>4, <2>5
  <1>12. Ring' BY <1>10, <1>11 DEF Ring, Closed
  <1>13. CurrentRuns' BY <1>0, <1>2, <1>3, <1>5 DEF CurrentRuns
  <1> QED BY <1>0, <1>5, <1>9, <1>12, <1>13 DEF RingInv, Control, Links, NoAssertionFails, Booted

LEMMA RingInvNext == RingInv /\ [Next]_vars => RingInv'
PROOF
  <1> SUFFICES ASSUME RingInv, [Next]_vars PROVE RingInv' OBVIOUS
  <1>0. HighLevelTypeOK BY DEF RingInv, TypeOK
  <1>1. CASE HighLevelInit
    <2> USE <1>1 DEF HighLevelInit, high_level_init
    <2>1. context' \in [Contexts -> Context]
      <3>1. \A c \in Tasks : c \in Nat BY DEF Tasks
      <3> QED BY <1>0, <3>1, InitContextTypes, Constants DEF HighLevelTypeOK
    <2>2. next' \in [Contexts -> Contexts \cup {NoContext}]
      BY Constants DEF RingInv, TypeOK, Reserve, ReserveBase, Contexts, context_idle, context_is_idle
    <2>3. TypeOK' BY <1>0, <2>1, <2>2 DEF RingInv, TypeOK, HighLevelTypeOK, Modes
    <2> QED BY <2>3 DEF RingInv, Control, Links, Ring, CurrentRuns, NoAssertionFails, Booted
  <1>2. CASE scheduler_init_task BY <1>2, InitTask
  <1>3. CASE boot BY <1>3, Boot
  <1>4. CASE yield BY <1>4, Yield DEF yield
  <1>5. CASE syscall_dup_thread BY <1>5, DupThread
  <1>6. CASE syscall_or_exception
    <2>1. /\ HighLevelTypeOK' /\ mode = "user" /\ mode' \in {"user", "halted"}
          /\ cause' \in {cause, "fatal"}
          /\ UNCHANGED <<esp0, idx_reserve, next_wake_date, next, current, init_i>>
      BY <1>0, <1>6, PlainHandlerTypes DEF syscall_or_exception, ringVars
    <2>2. Booted /\ Booted' BY <2>1 DEF Booted
    <2>3. Links' /\ Ring' /\ CurrentRuns' BY <2>1, <2>2, SameRing
    <2> QED BY <2>1, <2>2, <2>3 DEF RingInv, TypeOK, Control, NoAssertionFails
  <1>7. CASE TimerInterrupt
    <2>1. /\ HighLevelTypeOK' /\ mode = "user" /\ mode' = "user"
          /\ UNCHANGED <<cause, esp0, idx_reserve, next_wake_date, next, current, init_i>>
      BY <1>0, <1>7, TickTypes DEF TimerInterrupt, ringVars, RingInv, Control
    <2>2. Booted /\ Booted' BY <2>1 DEF Booted
    <2>3. Links' /\ Ring' /\ CurrentRuns' BY <2>1, <2>2, SameRing
    <2> QED BY <2>1, <2>2, <2>3 DEF RingInv, TypeOK, Control, NoAssertionFails
  <1>8. CASE UNCHANGED vars
    BY <1>8 DEF vars, RingInv, TypeOK, HighLevelTypeOK, Control, Links, Ring, Closed, CurrentRuns,
      NoAssertionFails, Booted, Live, Allocated
  <1> QED BY <1>1, <1>2, <1>3, <1>4, <1>5, <1>6, <1>7, <1>8 DEF Next

\* The links of the live contexts are a single circle at every moment after
\* boot, whatever threads have been created and from wherever on the circle.
THEOREM RingCorrect == Spec => []Ring
PROOF
  <1>1. RingInv => Ring BY DEF RingInv
  <1> QED BY RingInvInit, RingInvNext, <1>1, PTL DEF Spec

\* The scheduler and the hardware agree on the running context, which is never
\* the idle one.
THEOREM CurrentRunsCorrect == Spec => []CurrentRuns
PROOF
  <1>1. RingInv => CurrentRuns BY DEF RingInv
  <1> QED BY RingInvInit, RingInvNext, <1>1, PTL DEF Spec

\* The assertion of sched_insert_duplicated_context never fails.
THEOREM AssertionHolds == Spec => []NoAssertionFails
PROOF
  <1>1. RingInv => NoAssertionFails BY DEF RingInv
  <1> QED BY RingInvInit, RingInvNext, <1>1, PTL DEF Spec

-----------------------------------------------------------------------------
(* Turns.                                                                  *)

TurnCounts == [Contexts -> [Contexts -> 0 .. 2]]

\* pos orders the threads of L by their last turn, the running one r last: the
\* links follow it, from the last back to the first, and nobody but the threads
\* behind c in that order has had a turn since c had its last, each at most one.
Agrees(pos, L, nxt, r, t) ==
  /\ pos \in [L -> Int]
  /\ \A c, d \in L : pos[c] = pos[d] => c = d
  /\ \A c \in L : pos[nxt[r]] <= pos[c] /\ pos[c] <= pos[r]
  /\ \A c \in L : c # r =>
       /\ pos[c] < pos[nxt[c]]
       /\ \A d \in L : pos[c] < pos[d] => pos[nxt[c]] <= pos[d]
  /\ \A c, d \in L : t[c][d] <= (IF pos[c] < pos[d] THEN 1 ELSE 0)

Counted(t, d) ==
  [c \in Contexts |-> IF c = d THEN NoTurns ELSE [t[c] EXCEPT ![d] = IF @ = 2 THEN 2 ELSE @ + 1]]

\* What changes when d gets a turn.
OneMore(t, d, u) ==
  /\ \A e \in Contexts : u[d][e] = 0
  /\ \A c, e \in Contexts : c # d => u[c][e] =
       IF e = d THEN IF t[c][d] = 2 THEN 2 ELSE t[c][d] + 1 ELSE t[c][e]

LEMMA CountedFacts ==
  ASSUME NEW t \in TurnCounts, NEW d \in Contexts, NEW u, u = Counted(t, d)
  PROVE  u \in TurnCounts /\ OneMore(t, d, u)
PROOF
  <1>1. NoTurns \in [Contexts -> 0 .. 2] /\ \A e \in Contexts : NoTurns[e] = 0 BY DEF NoTurns
  <1> DEFINE row(c) == [t[c] EXCEPT ![d] = IF @ = 2 THEN 2 ELSE @ + 1]
  <1>2. ASSUME NEW c \in Contexts
        PROVE  /\ row(c) \in [Contexts -> 0 .. 2]
               /\ \A e \in Contexts : row(c)[e] =
                    IF e = d THEN IF t[c][d] = 2 THEN 2 ELSE t[c][d] + 1 ELSE t[c][e]
    <2>1. t[c] \in [Contexts -> 0 .. 2] BY DEF TurnCounts
    <2>2. t[c][d] \in 0 .. 2 BY <2>1
    <2>3. (IF t[c][d] = 2 THEN 2 ELSE t[c][d] + 1) \in 0 .. 2 BY <2>2
    <2> QED BY <2>1, <2>3
  <1>3. u = [c \in Contexts |-> IF c = d THEN NoTurns ELSE row(c)] BY DEF Counted
  <1> HIDE DEF row
  <1>4. u \in TurnCounts BY <1>1, <1>2, <1>3 DEF TurnCounts
  <1>5. \A e \in Contexts : u[d][e] = 0 BY <1>1, <1>3
  <1>6. \A c \in Contexts : c # d => u[c] = row(c) BY <1>3
  <1> QED BY <1>2, <1>4, <1>5, <1>6 DEF OneMore

\* The first of the order gets its turn and becomes the last.
LEMMA TurnTaken ==
  ASSUME NEW L \in SUBSET Contexts, NEW nxt, NEW r \in L, \A c \in L : nxt[c] \in L,
         NEW t \in TurnCounts, NEW d, d = nxt[r], NEW u, u = Counted(t, d),
         NEW pos, Agrees(pos, L, nxt, r, t)
  PROVE  \E pos2 : Agrees(pos2, L, nxt, d, u)
PROOF
  <1> DEFINE top == pos[r] + 1
             pos2 == [pos EXCEPT ![d] = top]
  <1>1. /\ pos \in [L -> Int] /\ \A c, e \in L : pos[c] = pos[e] => c = e
        /\ \A c \in L : pos[d] <= pos[c] /\ pos[c] <= pos[r]
        /\ \A c \in L : c # r => pos[c] < pos[nxt[c]] /\ \A e \in L : pos[c] < pos[e] => pos[nxt[c]] <= pos[e]
        /\ \A c, e \in L : t[c][e] <= (IF pos[c] < pos[e] THEN 1 ELSE 0)
    BY DEF Agrees
  <1>2. d \in L /\ d \in Contexts OBVIOUS
  <1>3. top \in Int /\ \A c \in L : pos[c] \in Int /\ pos[c] < top BY <1>1
  <1>4. pos2 \in [L -> Int] /\ pos2[d] = top /\ \A c \in L : c # d => pos2[c] = pos[c]
    BY <1>1, <1>2, <1>3
  <1>5. /\ u \in TurnCounts /\ \A e \in Contexts : u[d][e] = 0
        /\ \A c, e \in Contexts : c # d => u[c][e] =
              IF e = d THEN IF t[c][d] = 2 THEN 2 ELSE t[c][d] + 1 ELSE t[c][e]
    <2>1. u \in TurnCounts /\ OneMore(t, d, u) BY <1>2, CountedFacts
    <2> QED BY <2>1 DEF OneMore
  <1> HIDE DEF pos2, top
  <1>6. \A c, e \in L : pos2[c] = pos2[e] => c = e BY <1>1, <1>2, <1>3, <1>4
  <1>7. ASSUME NEW c \in L PROVE pos2[nxt[d]] <= pos2[c] /\ pos2[c] <= pos2[d]
    <2>1. pos2[c] <= pos2[d] BY <1>3, <1>4
    <2>2. CASE d = r
      <3>1. c = d BY <1>1, <1>2, <2>2
      <3>2. nxt[d] = d BY <2>2
      <3> QED BY <1>3, <1>4, <3>1, <3>2
    <2>3. CASE d # r
      <3>1. pos[d] < pos[nxt[d]] /\ nxt[d] \in L BY <1>1, <1>2, <2>3
      <3>2. nxt[d] # d BY <1>3, <1>2, <3>1
      <3>3. pos2[nxt[d]] = pos[nxt[d]] BY <1>4, <3>1, <3>2
      <3>4. CASE c = d BY <1>3, <1>4, <3>1, <3>3, <3>4
      <3>5. CASE c # d
        <4>1. pos[d] < pos[c] BY <1>1, <1>2, <1>3, <3>5
        <4>2. pos[nxt[d]] <= pos[c] BY <1>1, <1>2, <2>3, <4>1
        <4> QED BY <1>4, <2>1, <3>3, <3>5, <4>2
      <3> QED BY <2>1, <3>4, <3>5
    <2> QED BY <2>2, <2>3
  <1>8. ASSUME NEW c \in L, c # d
        PROVE  /\ pos2[c] < pos2[nxt[c]]
               /\ \A e \in L : pos2[c] < pos2[e] => pos2[nxt[c]] <= pos2[e]
    <2>1. pos2[c] = pos[c] /\ pos[c] < top /\ nxt[c] \in L BY <1>3, <1>4, <1>8
    <2>2. CASE c = r
      <3>1. nxt[c] = d BY <2>2
      <3>2. \A e \in L : pos2[c] < pos2[e] => e = d BY <1>1, <1>3, <1>4, <2>1, <2>2
      <3> QED BY <1>3, <1>4, <2>1, <3>1, <3>2
    <2>3. CASE c # r
      <3>1. pos[c] < pos[nxt[c]] BY <1>1, <2>3
      <3>2. nxt[c] # d BY <1>1, <1>2, <1>3, <2>1, <3>1
      <3>3. pos2[nxt[c]] = pos[nxt[c]] /\ pos[nxt[c]] < top BY <1>3, <1>4, <2>1, <3>2
      <3>4. ASSUME NEW e \in L, pos2[c] < pos2[e] PROVE pos2[nxt[c]] <= pos2[e]
        <4>1. CASE e = d BY <1>3, <1>4, <2>1, <3>3, <4>1
        <4>2. CASE e # d BY <1>1, <1>4, <2>1, <2>3, <3>3, <3>4, <4>2
        <4> QED BY <4>1, <4>2
      <3> QED BY <2>1, <3>1, <3>3, <3>4
    <2> QED BY <2>2, <2>3
  <1>9. ASSUME NEW c \in L, NEW e \in L PROVE u[c][e] <= (IF pos2[c] < pos2[e] THEN 1 ELSE 0)
    <2>1. c \in Contexts /\ e \in Contexts OBVIOUS
    <2>2. t[c][e] \in 0 .. 2 /\ t[c][d] \in 0 .. 2 BY <1>2, <2>1 DEF TurnCounts
    <2>3. CASE c = d BY <1>5, <2>1, <2>3
    <2>4. CASE c # d /\ e = d
      <3>1. ~(pos[c] < pos[d]) BY <1>1, <1>2, <1>3
      <3>2. t[c][d] = 0 BY <1>1, <1>2, <2>2, <3>1
      <3>3. u[c][e] = 1 BY <1>5, <2>1, <2>4, <3>2
      <3>4. pos2[c] < pos2[e] BY <1>3, <1>4, <2>4
      <3> QED BY <3>3, <3>4
    <2>5. CASE c # d /\ e # d
      <3>1. u[c][e] = t[c][e] BY <1>5, <2>1, <2>5
      <3>2. pos2[c] = pos[c] /\ pos2[e] = pos[e] BY <1>4, <2>5
      <3> QED BY <1>1, <3>1, <3>2
    <2> QED BY <2>3, <2>4, <2>5
  <1>10. Agrees(pos2, L, nxt, d, u) BY <1>4, <1>6, <1>7, <1>8, <1>9 DEF Agrees
  <1> QED BY <1>10

\* A new thread comes first.
LEMMA ThreadBorn ==
  ASSUME NEW L \in SUBSET Contexts, NEW nxt, NEW r \in L, \A c \in L : nxt[c] \in L,
         NEW e \in Contexts \ L, NEW nxt2, nxt2[r] = e, nxt2[e] = nxt[r],
         \A c \in L \ {r} : nxt2[c] = nxt[c],
         NEW t \in TurnCounts, \A c \in L : t[c][e] = 0,
         NEW u, u = [t EXCEPT ![e] = NoTurns],
         NEW pos, Agrees(pos, L, nxt, r, t)
  PROVE  \E pos2 : Agrees(pos2, L \cup {e}, nxt2, r, u)
PROOF
  <1> DEFINE M == L \cup {e}
             bot == pos[nxt[r]] - 1
             pos2 == [c \in M |-> IF c = e THEN bot ELSE pos[c]]
  <1>1. /\ pos \in [L -> Int] /\ \A c, d \in L : pos[c] = pos[d] => c = d
        /\ \A c \in L : pos[nxt[r]] <= pos[c] /\ pos[c] <= pos[r]
        /\ \A c \in L : c # r => pos[c] < pos[nxt[c]] /\ \A d \in L : pos[c] < pos[d] => pos[nxt[c]] <= pos[d]
        /\ \A c, d \in L : t[c][d] <= (IF pos[c] < pos[d] THEN 1 ELSE 0)
    BY DEF Agrees
  <1>2. nxt[r] \in L /\ pos[nxt[r]] \in Int BY <1>1
  <1>3. bot \in Int /\ \A c \in L : pos[c] \in Int /\ bot < pos[c] BY <1>1, <1>2
  <1>4. pos2 \in [M -> Int] /\ pos2[e] = bot /\ \A c \in L : pos2[c] = pos[c]
    BY <1>1, <1>3
  <1>5. bot < pos[nxt[r]] BY <1>2
  <1>6. /\ \A c \in M : c = e \/ c \in L
        /\ r # e /\ \A c \in L : c # e
    OBVIOUS
  <1>7. /\ \A d \in Contexts : u[e][d] = 0
        /\ \A c \in L : u[c] = t[c]
    BY <1>6 DEF TurnCounts, NoTurns
  <1> HIDE DEF pos2, bot, M
  <1>8. \A c, d \in M : pos2[c] = pos2[d] => c = d BY <1>1, <1>3, <1>4, <1>6
  <1>9. \A c \in M : pos2[nxt2[r]] <= pos2[c] /\ pos2[c] <= pos2[r]
    BY <1>1, <1>3, <1>4, <1>6
  <1>10. ASSUME NEW c \in M, c # r
         PROVE  /\ pos2[c] < pos2[nxt2[c]]
                /\ \A d \in M : pos2[c] < pos2[d] => pos2[nxt2[c]] <= pos2[d]
    <2>1. CASE c = e
      <3>1. pos2[nxt2[c]] = pos[nxt[r]] BY <1>2, <1>4, <2>1
      <3>2. pos2[c] < pos2[nxt2[c]] BY <1>4, <1>5, <2>1, <3>1
      <3>3. ASSUME NEW d \in M, pos2[c] < pos2[d] PROVE pos2[nxt2[c]] <= pos2[d]
        <4>1. d # e BY <1>3, <1>4, <2>1, <3>3
        <4>2. d \in L BY <1>6, <4>1
        <4> QED BY <1>1, <1>4, <3>1, <4>2
      <3> QED BY <3>2, <3>3
    <2>2. CASE c # e
      <3>1. c \in L /\ nxt2[c] = nxt[c] /\ nxt[c] \in L BY <1>6, <1>10, <2>2
      <3>2. pos2[c] = pos[c] /\ pos2[nxt2[c]] = pos[nxt[c]] BY <1>4, <3>1
      <3>3. pos[c] < pos[nxt[c]] BY <1>1, <1>10, <3>1
      <3>4. ASSUME NEW d \in M, pos2[c] < pos2[d] PROVE pos2[nxt2[c]] <= pos2[d]
        <4>1. d # e BY <1>3, <1>4, <3>1, <3>2, <3>4
        <4>2. d \in L /\ pos2[d] = pos[d] BY <1>4, <1>6, <4>1
        <4> QED BY <1>1, <1>10, <3>1, <3>2, <3>4, <4>2
      <3> QED BY <3>2, <3>3, <3>4
    <2> QED BY <2>1, <2>2
  <1>11. ASSUME NEW c \in M, NEW d \in M PROVE u[c][d] <= (IF pos2[c] < pos2[d] THEN 1 ELSE 0)
    <2>1. CASE c = e
      <3>1. d \in Contexts BY DEF M
      <3> QED BY <1>7, <2>1, <3>1
    <2>2. CASE c # e /\ d = e
      <3>1. u[c][d] = 0 BY <1>6, <1>7, <2>2
      <3> QED BY <3>1
    <2>3. CASE c # e /\ d # e
      <3>1. c \in L /\ d \in L BY <1>6, <2>3
      <3> QED BY <1>1, <1>4, <1>7, <3>1
    <2> QED BY <2>1, <2>2, <2>3
  <1>12. Agrees(pos2, M, nxt2, r, u) BY <1>4, <1>8, <1>9, <1>10, <1>11 DEF Agrees
  <1> QED BY <1>12 DEF M

\* The order of the tasks before the first turn, as if task 0 had had one.
LEMMA FirstOrder ==
  ASSUME NEW n \in Nat \ {0}, NEW L, L = 0 .. n - 1, NEW nxt, nxt[n - 1] = 0,
         \A i \in 0 .. n - 2 : nxt[i] = i + 1,
         NEW t, \A c, d \in L : t[c][d] = 0
  PROVE  \E pos : Agrees(pos, L, nxt, 0, t)
PROOF
  <1> DEFINE pos == [i \in L |-> IF i = 0 THEN n ELSE i]
  <1>1. pos \in [L -> Int] /\ pos[0] = n /\ \A i \in L : i # 0 => pos[i] = i OBVIOUS
  <1> HIDE DEF pos
  <1>2. \A c, d \in L : pos[c] = pos[d] => c = d BY <1>1
  <1>3. 0 \in L /\ \A c \in L : c \in 0 .. n - 1 OBVIOUS
  <1>4. \A c \in L : pos[c] \in Int /\ 1 <= pos[c] /\ pos[c] <= n BY <1>1, <1>3
  <1>5. \A c \in L : pos[nxt[0]] <= pos[c] /\ pos[c] <= pos[0]
    <2>1. CASE n = 1
      <3>1. nxt[0] = 0 /\ \A c \in L : c = 0 BY <2>1
      <3> QED BY <1>1, <3>1
    <2>2. CASE n # 1
      <3>1. nxt[0] = 1 /\ 1 \in L BY <2>2
      <3>2. pos[nxt[0]] = 1 BY <1>1, <3>1
      <3> QED BY <1>1, <1>4, <3>2
    <2> QED BY <2>1, <2>2
  <1>6. ASSUME NEW c \in L, c # 0
        PROVE  /\ pos[c] < pos[nxt[c]]
               /\ \A d \in L : pos[c] < pos[d] => pos[nxt[c]] <= pos[d]
    <2>1. pos[c] = c BY <1>1, <1>6
    <2>2. pos[nxt[c]] = c + 1
      <3>1. CASE c = n - 1 BY <1>1, <3>1
      <3>2. CASE c # n - 1
        <4>1. nxt[c] = c + 1 /\ c + 1 \in L /\ c + 1 # 0 BY <1>6, <3>2
        <4> QED BY <1>1, <4>1
      <3> QED BY <3>1, <3>2
    <2>3. c \in Int BY <1>3
    <2> QED BY <1>4, <2>1, <2>2, <2>3
  <1>7. \A c, d \in L : t[c][d] <= (IF pos[c] < pos[d] THEN 1 ELSE 0) OBVIOUS
  <1>8. Agrees(pos, L, nxt, 0, t) BY <1>1, <1>2, <1>5, <1>6, <1>7 DEF Agrees
  <1> QED BY <1>8

TurnsInv ==
  /\ turns \in TurnCounts
  /\ ~Booted => turns = [c \in Contexts |-> NoTurns]
  /\ Booted => /\ \A c \in Live, d \in Contexts \ Live : turns[c][d] = 0
               /\ \E pos : Agrees(pos, Live, next, esp0, turns)

LEMMA TurnsInvInit == HInit => TurnsInv
PROOF
  <1>1. NoTurns \in [Contexts -> 0 .. 2] BY DEF NoTurns
  <1> QED BY <1>1 DEF HInit, Init, HighLevelInitState, TurnsInv, TurnCounts, Booted

\* A turn: of the task after the first one at boot, of the next thread later.
LEMMA TurnKeeps ==
  ASSUME RingInv, RingInv', TurnsInv, boot \/ yield, CountTurn(esp0')
  PROVE  TurnsInv'
PROOF
  <1>1. PICK r \in Live : /\ esp0' = next[r] /\ next' = next /\ Live' = Live /\ Booted'
                          /\ \A c \in Live : next[c] \in Live
                          /\ \A c \in Live, d \in Contexts \ Live : turns[c][d] = 0
                          /\ \E pos : Agrees(pos, Live, next, r, turns)
    <2>1. CASE boot
      <3>1. /\ mode = "scheduler_init" /\ init_i = nb_tasks /\ esp0' = next[0] /\ next' = next
            /\ mode' = "user" /\ idx_reserve' = idx_reserve
        BY <2>1 DEF boot, sched_choose_next, hw_context_switch
      <3>2. ~Booted /\ Booted' BY <3>1 DEF Booted
      <3>3. Live' = Live BY <3>1 DEF Live, Allocated
      <3>4. Live = Tasks /\ Live \subseteq Contexts
        <4>1. idx_reserve = RESERVE_SIZE BY <3>2 DEF RingInv, Control
        <4> QED BY <4>1, Constants, LiveFacts
      <3>5. \A c \in Live : next[c] \in Live
        <4>1. \A c \in Live' : next'[c] \in Live' BY <3>2 DEF RingInv, Ring, Closed
        <4> QED BY <3>1, <3>3, <4>1
      <3>6. \A c, d \in Contexts : turns[c][d] = 0 BY <3>2 DEF TurnsInv, NoTurns
      <3>7. nb_tasks \in Nat \ {0} /\ 0 \in Tasks BY Constants DEF Tasks
      <3>8. next[nb_tasks - 1] = 0 /\ \A i \in 0 .. nb_tasks - 2 : next[i] = i + 1
        BY <3>1, <3>7 DEF RingInv, Links
      <3>9. \E pos : Agrees(pos, Live, next, 0, turns)
        <4>1. Live = 0 .. nb_tasks - 1 BY <3>4 DEF Tasks
        <4>2. \A c, d \in Live : turns[c][d] = 0 BY <3>4, <3>6
        <4> QED BY <3>7, <3>8, <4>1, <4>2, FirstOrder
      <3> QED BY <3>1, <3>2, <3>3, <3>4, <3>5, <3>6, <3>7, <3>9
    <2>2. CASE yield
      <3>1. /\ mode = "user" /\ esp0' = next[current] /\ next' = next /\ mode' = "user"
            /\ idx_reserve' = idx_reserve
        BY <2>2 DEF yield, c_syscall_yield, sched_choose_next, hw_context_switch, TaskRunning
      <3>2. Booted /\ Booted' BY <3>1 DEF Booted
      <3>3. Live' = Live BY <3>1 DEF Live, Allocated
      <3>4. current = esp0 /\ esp0 \in Live /\ \A c \in Live : next[c] \in Live
        BY <3>2 DEF RingInv, Ring, Closed, CurrentRuns
      <3> QED BY <3>1, <3>2, <3>3, <3>4 DEF TurnsInv
    <2> QED BY <2>1, <2>2
  <1>2. PICK pos : Agrees(pos, Live, next, r, turns) BY <1>1
  <1>3. turns \in TurnCounts /\ turns' = Counted(turns, next[r])
    BY <1>1 DEF TurnsInv, CountTurn, Counted
  <1>4. Live \in SUBSET Contexts /\ next[r] \in Live BY <1>1, LiveFacts DEF RingInv, TypeOK, HighLevelTypeOK
  <1>5. \E pos2 : Agrees(pos2, Live, next, next[r], turns')
    BY <1>1, <1>2, <1>3, <1>4, TurnTaken
  <1>6. turns' \in TurnCounts /\ \A c \in Live, d \in Contexts \ Live : turns'[c][d] = 0
    <2> DEFINE d == next[r]
    <2>1. d \in Contexts /\ d \in Live /\ turns' = Counted(turns, d) BY <1>3, <1>4
    <2> HIDE DEF d
    <2>2. turns' \in TurnCounts /\ OneMore(turns, d, turns') BY <1>3, <2>1, CountedFacts
    <2> QED BY <1>1, <1>4, <2>1, <2>2 DEF OneMore
  <1> QED BY <1>1, <1>5, <1>6 DEF TurnsInv

LEMMA BirthKeeps ==
  ASSUME RingInv, RingInv', TurnsInv, syscall_dup_thread,
         turns' = [turns EXCEPT ![ReserveBase + idx_reserve'] = NoTurns]
  PROVE  TurnsInv'
PROOF
  <1> DEFINE ctx2 == ReserveBase + idx_reserve'
  <1>0. /\ mode = "user" /\ Booted /\ idx_reserve # 0 /\ idx_reserve' = idx_reserve - 1
        /\ sched_insert_duplicated_context(copy_next(ctx2, esp0), esp0, ctx2)
        /\ UNCHANGED current
    BY DEF syscall_dup_thread, TaskRunning, may_dup, Booted
  <1>1. next \in [Contexts -> Contexts \cup {NoContext}] /\ idx_reserve \in 0 .. RESERVE_SIZE
    BY DEF RingInv, TypeOK, HighLevelTypeOK
  <1>2. /\ ctx2 \in Contexts /\ ctx2 \notin Live /\ Live' = Live \cup {ctx2}
        /\ Live \in SUBSET Contexts
    BY <1>0, <1>1, LiveFacts, Constants
  <1>3. esp0 \in Live /\ \A c \in Live : next[c] \in Live
    BY <1>0 DEF RingInv, Ring, Closed, CurrentRuns
  <1>4. turns \in TurnCounts /\ turns' = [turns EXCEPT ![ctx2] = NoTurns] BY DEF TurnsInv
  <1> HIDE DEF ctx2
  <1>5. esp0 # ctx2 /\ esp0 \in Contexts BY <1>2, <1>3
  <1>6. /\ next' = [[next EXCEPT ![ctx2] = next[esp0]] EXCEPT ![esp0] = ctx2]
        /\ esp0' = esp0 /\ mode' = "user"
    BY <1>0, <1>1, <1>2, <1>5
    DEF sched_insert_duplicated_context, copy_next, hw_context_switch
  <1>7. /\ next'[esp0] = ctx2 /\ next'[ctx2] = next[esp0]
        /\ \A c \in Live \ {esp0} : next'[c] = next[c]
    BY <1>1, <1>2, <1>5, <1>6
  <1>8. \A c \in Live, d \in Contexts \ Live : turns[c][d] = 0 BY <1>0 DEF TurnsInv
  <1>9. PICK pos : Agrees(pos, Live, next, esp0, turns) BY <1>0 DEF TurnsInv
  <1>10. \E pos2 : Agrees(pos2, Live \cup {ctx2}, next', esp0, turns')
    <2>1. ctx2 \in Contexts \ Live BY <1>2
    <2>2. \A c \in Live : turns[c][ctx2] = 0 BY <1>8, <2>1
    <2> QED BY <1>2, <1>3, <1>4, <1>7, <1>9, <2>1, <2>2, ThreadBorn
  <1>11. NoTurns \in [Contexts -> 0 .. 2] /\ \A d \in Contexts : NoTurns[d] = 0 BY DEF NoTurns
  <1>12. turns' \in TurnCounts BY <1>2, <1>4, <1>11 DEF TurnCounts
  <1>13. \A c \in Live', d \in Contexts \ Live' : turns'[c][d] = 0
    <2>1. turns'[ctx2] = NoTurns /\ \A c \in Live : turns'[c] = turns[c]
      BY <1>2, <1>4 DEF TurnCounts
    <2> QED BY <1>2, <1>8, <1>11, <2>1
  <1>14. Booted' BY <1>6 DEF Booted
  <1> QED BY <1>2, <1>6, <1>10, <1>12, <1>13, <1>14 DEF TurnsInv

LEMMA TurnsInvNext == RingInv /\ RingInv' /\ TurnsInv /\ [HNext]_<<vars, turns>> => TurnsInv'
PROOF
  <1> SUFFICES ASSUME RingInv, RingInv', TurnsInv, [HNext]_<<vars, turns>> PROVE TurnsInv' OBVIOUS
  <1>1. CASE (boot \/ yield) /\ CountTurn(esp0') BY <1>1, TurnKeeps
  <1>2. CASE syscall_dup_thread /\ turns' = [turns EXCEPT ![ReserveBase + idx_reserve'] = NoTurns]
    BY <1>2, BirthKeeps
  <1>3. CASE (HighLevelInit \/ scheduler_init_task) /\ UNCHANGED turns
    <2>1. ~Booted /\ ~Booted'
      BY <1>3 DEF HighLevelInit, high_level_init, scheduler_init_task, Booted
    <2> QED BY <1>3, <2>1 DEF TurnsInv
  <1>4. CASE (syscall_or_exception \/ TimerInterrupt \/ UNCHANGED vars) /\ UNCHANGED turns
    <2>1. /\ UNCHANGED <<esp0, idx_reserve, next>>
          /\ Booted' <=> Booted
      <3>0. HighLevelTypeOK BY DEF RingInv, TypeOK
      <3>1. CASE syscall_or_exception
        BY <3>0, <3>1, PlainHandlerTypes DEF syscall_or_exception, ringVars, Booted
      <3>2. CASE TimerInterrupt
        BY <3>0, <3>2, TickTypes DEF TimerInterrupt, ringVars, RingInv, Control, Booted
      <3>3. CASE UNCHANGED vars BY <3>3 DEF vars, Booted
      <3> QED BY <1>4, <3>1, <3>2, <3>3
    <2>2. Live' = Live BY <2>1 DEF Live, Allocated
    <2> QED BY <1>4, <2>1, <2>2 DEF TurnsInv
  <1> QED BY <1>1, <1>2, <1>3, <1>4 DEF HNext

\* Nobody overtakes a waiting thread: between two turns of a thread, or from its
\* creation to its first turn, every other thread gets at most one.
THEOREM NoOvertakingCorrect == HSpec => []NoOvertaking
PROOF
  <1>1. HInit => RingInv /\ TurnsInv BY RingInvInit, TurnsInvInit DEF HInit
  <1>2. [HNext]_<<vars, turns>> => [Next]_vars BY DEF HNext, Next
  <1>3. RingInv /\ TurnsInv /\ [HNext]_<<vars, turns>> => (RingInv /\ TurnsInv)'
    BY <1>2, RingInvNext, TurnsInvNext
  <1>4. RingInv /\ TurnsInv => NoOvertaking
    <2> SUFFICES ASSUME RingInv, TurnsInv, Booted, NEW c \in Live, NEW d \in Live
                 PROVE  turns[c][d] <= 1
      BY DEF NoOvertaking
    <2>1. PICK pos : Agrees(pos, Live, next, esp0, turns) BY DEF TurnsInv
    <2>2. turns[c][d] <= (IF pos[c] < pos[d] THEN 1 ELSE 0) BY <2>1 DEF Agrees
    <2>3. turns[c][d] \in 0 .. 2
      <3>1. c \in Contexts /\ d \in Contexts BY LiveFacts DEF RingInv, TypeOK, HighLevelTypeOK
      <3> QED BY <3>1 DEF TurnsInv, TurnCounts
    <2> QED BY <2>2, <2>3
  <1> QED BY <1>1, <1>3, <1>4, PTL DEF HSpec

-----------------------------------------------------------------------------
(* The refinement of Rotation.                                             *)

\* A set of numbers has a least element: induction, for sets.
LEMMA LeastElement ==
  ASSUME NEW T \in SUBSET Nat, T # {}
  PROVE  \E m \in T : \A n \in T : m <= n
PROOF
  <1> DEFINE R == OpToRel(<, Nat)
  <1>1. IsWellFoundedOn(R, Nat) BY NatLessThanWellFounded
  <1>2. \A x, y \in Nat : y < x => <<y, x>> \in R BY DEF OpToRel
  <1> HIDE DEF R
  <1>3. PICK x \in T : \A y \in T : ~(<<y, x>> \in R) BY <1>1, WFMin
  <1>4. \A y \in T : ~(y < x) BY <1>2, <1>3
  <1>5. x \in Nat OBVIOUS
  <1>6. \A y \in T : x <= y BY <1>4, <1>5
  <1> QED BY <1>6

\* q lists the threads of L along the links, from r once around.
Circle(q, n, L, nxt, r) ==
  /\ n \in Nat \ {0}
  /\ q \in [1 .. n -> L]
  /\ \A j, k \in 1 .. n : q[j] = q[k] => j = k
  /\ \A c \in L : \E k \in 1 .. n : q[k] = c
  /\ q[1] = r
  /\ \A k \in 1 .. n - 1 : nxt[q[k]] = q[k + 1]
  /\ nxt[q[n]] = r

LEMMA CircleSize ==
  ASSUME NEW q, NEW n, NEW L, NEW nxt, NEW r, Circle(q, n, L, nxt, r)
  PROVE  Cardinality(L) = n
PROOF
  <1>1. q \in Bijection(1 .. n, L) BY DEF Circle, Bijection, Injection, Surjection, IsInjective
  <1>2. ExistsBijection(1 .. n, L) BY <1>1 DEF ExistsBijection
  <1>3. n \in Nat BY DEF Circle
  <1> QED BY <1>2, <1>3, FS_CountingElements

\* What Orbit computes.
LEMMA OrbitIsCircle ==
  ASSUME NEW q, NEW n, Circle(q, n, Live, next, esp0)
  PROVE  Orbit = q
PROOF
  <1> DEFINE D == 0 .. Cardinality(Live) - 1
             orbit == CHOOSE g : g = [k \in D |-> IF k = 0 THEN esp0 ELSE next[g[k - 1]]]
  <1>1. Cardinality(Live) = n BY CircleSize
  <1>2. /\ n \in Nat \ {0} /\ q \in [1 .. n -> Live] /\ q[1] = esp0
        /\ \A k \in 1 .. n - 1 : next[q[k]] = q[k + 1]
    BY DEF Circle
  <1>3. \E g : g = [k \in D |-> IF k = 0 THEN esp0 ELSE next[g[k - 1]]]
    <2> DEFINE g == [k \in D |-> q[k + 1]]
    <2>1. ASSUME NEW k \in D PROVE q[k + 1] = IF k = 0 THEN esp0 ELSE next[g[k - 1]]
      <3>1. CASE k = 0 BY <1>2, <3>1
      <3>2. CASE k # 0
        <4>1. k - 1 \in D /\ k \in 1 .. n - 1 /\ (k - 1) + 1 = k BY <1>1, <1>2, <3>2
        <4>2. g[k - 1] = q[k] BY <4>1
        <4> QED BY <1>2, <3>2, <4>1, <4>2
      <3> QED BY <3>1, <3>2
    <2>2. g = [k \in D |-> IF k = 0 THEN esp0 ELSE next[g[k - 1]]] BY <2>1, Zenon
    <2> QED BY <2>2
  <1>4. orbit = [k \in D |-> IF k = 0 THEN esp0 ELSE next[orbit[k - 1]]] BY <1>3, Zenon
  <1>5. Orbit = [k \in 1 .. Cardinality(Live) |-> orbit[k - 1]] BY Zenon DEF Orbit
  <1> HIDE DEF orbit
  <1>6. \A k \in D : orbit[k] = q[k + 1]
    <2> DEFINE T == {k \in D : orbit[k] # q[k + 1]}
    <2> SUFFICES ASSUME T # {} PROVE FALSE OBVIOUS
    <2>1. T \in SUBSET Nat BY <1>1, <1>2
    <2>2. PICK m \in T : \A k \in T : m <= k
      <3> HIDE DEF T
      <3> QED BY <2>1, LeastElement
    <2>3. m \in D /\ orbit[m] # q[m + 1] OBVIOUS
    <2>4. m # 0 BY <1>1, <1>2, <1>4, <2>3
    <2>5. m - 1 \in D /\ m - 1 \notin T /\ m \in 1 .. n - 1 /\ (m - 1) + 1 = m BY <1>1, <1>2, <2>2, <2>3, <2>4
    <2>6. orbit[m - 1] = q[m] BY <2>5
    <2>7. orbit[m] = next[orbit[m - 1]] BY <1>4, <2>3, <2>4
    <2> QED BY <1>2, <2>3, <2>5, <2>6, <2>7
  <1>7. ASSUME NEW k \in 1 .. n PROVE orbit[k - 1] = q[k]
    <2>1. k - 1 \in D /\ (k - 1) + 1 = k BY <1>1, <1>2
    <2> QED BY <1>6, <2>1
  <1> QED BY <1>1, <1>2, <1>5, <1>7

OrbitFact == \A q, n : Circle(q, n, Live, next, esp0) => Orbit = q

LEMMA OrbitNow == OrbitFact
PROOF BY OrbitIsCircle DEF OrbitFact

LEMMA OrbitLater == OrbitFact'
PROOF BY OrbitNow, PTL

LEMMA OrbitNext ==
  ASSUME NEW q, NEW n, Circle(q, n, Live', next', esp0')
  PROVE  Orbit' = q
PROOF BY OrbitLater DEF OrbitFact

LEMMA SameCardinality == \A S : Turns!Cardinality(S) = Cardinality(S)
PROOF BY DEF Turns!Cardinality, Cardinality

\* A list of the initial tasks, from the one after task 0.
LEMMA FirstCircle ==
  ASSUME NEW n \in Nat \ {0}, NEW L, L = 0 .. n - 1, NEW nxt, nxt[n - 1] = 0,
         \A i \in 0 .. n - 2 : nxt[i] = i + 1
  PROVE  \E q : Circle(q, n, L, nxt, nxt[0])
PROOF
  <1> DEFINE q == [k \in 1 .. n |-> IF k = n THEN 0 ELSE k]
  <1>1. q \in [1 .. n -> L] /\ q[n] = 0 /\ \A k \in 1 .. n - 1 : q[k] = k OBVIOUS
  <1> HIDE DEF q
  <1>2. \A j, k \in 1 .. n : q[j] = q[k] => j = k BY <1>1
  <1>3. ASSUME NEW c \in L PROVE \E k \in 1 .. n : q[k] = c
    <2>1. CASE c = 0 BY <1>1, <2>1
    <2>2. CASE c # 0
      <3>1. c \in 1 .. n - 1 BY <2>2
      <3> QED BY <1>1, <3>1
    <2> QED BY <2>1, <2>2
  <1>4. q[1] = nxt[0]
    <2>1. CASE n = 1 BY <1>1, <2>1
    <2>2. CASE n # 1
      <3>1. nxt[0] = 1 /\ 1 \in 1 .. n - 1 BY <2>2
      <3> QED BY <1>1, <3>1
    <2> QED BY <2>1, <2>2
  <1>5. ASSUME NEW k \in 1 .. n - 1 PROVE nxt[q[k]] = q[k + 1]
    <2>1. q[k] = k BY <1>1
    <2>2. CASE k = n - 1
      <3>1. k + 1 = n BY <2>2
      <3> QED BY <1>1, <2>1, <2>2, <3>1
    <2>3. CASE k # n - 1
      <3>1. k \in 0 .. n - 2 /\ k + 1 \in 1 .. n - 1 BY <2>3
      <3>2. nxt[k] = k + 1 BY <3>1
      <3> QED BY <1>1, <2>1, <3>1, <3>2
    <2> QED BY <2>2, <2>3
  <1>6. nxt[q[n]] = nxt[0] BY <1>1
  <1>7. Circle(q, n, L, nxt, nxt[0]) BY <1>1, <1>2, <1>3, <1>4, <1>5, <1>6 DEF Circle
  <1> QED BY <1>7

\* After a turn.
LEMMA CircleTurns ==
  ASSUME NEW q, NEW n, NEW L, NEW nxt, NEW r, Circle(q, n, L, nxt, r)
  PROVE  /\ q \in Seq(L) /\ q # <<>>
         /\ Circle(Append(Tail(q), Head(q)), n, L, nxt, nxt[r])
PROOF
  <1>1. /\ n \in Nat \ {0} /\ q \in [1 .. n -> L] /\ \A j, k \in 1 .. n : q[j] = q[k] => j = k
        /\ \A c \in L : \E k \in 1 .. n : q[k] = c
        /\ q[1] = r /\ \A k \in 1 .. n - 1 : nxt[q[k]] = q[k + 1]
        /\ nxt[q[n]] = r
    BY DEF Circle
  <1>2. q \in Seq(L) /\ Len(q) = n /\ q # <<>> BY <1>1
  <1> DEFINE p == Append(Tail(q), Head(q))
  <1>3. p \in [1 .. n -> L] /\ p[n] = q[1] /\ \A k \in 1 .. n - 1 : p[k] = q[k + 1]
    <2>1. p \in Seq(L) /\ Len(p) = n BY <1>2
    <2>2. p[n] = q[1] /\ \A k \in 1 .. n - 1 : p[k] = q[k + 1] BY <1>1, <1>2
    <2> HIDE DEF p
    <2> QED BY <2>1, <2>2
  <1> HIDE DEF p
  <1>4. \A k \in 1 .. n : k = n \/ (k \in 1 .. n - 1 /\ k + 1 \in 1 .. n /\ k + 1 # 1) BY <1>1
  <1>5. 1 \in 1 .. n /\ n \in 1 .. n BY <1>1
  <1>6. \A j, k \in 1 .. n : p[j] = p[k] => j = k
    <2> TAKE j, k \in 1 .. n
    <2>1. CASE j = n /\ k # n BY <1>1, <1>3, <1>4, <1>5, <2>1
    <2>2. CASE j # n /\ k = n BY <1>1, <1>3, <1>4, <1>5, <2>2
    <2>3. CASE j # n /\ k # n BY <1>1, <1>3, <1>4, <2>3
    <2> QED BY <2>1, <2>2, <2>3
  <1>7. ASSUME NEW c \in L PROVE \E k \in 1 .. n : p[k] = c
    <2>1. PICK j \in 1 .. n : q[j] = c BY <1>1
    <2>2. CASE j = 1 BY <1>3, <1>5, <2>1, <2>2
    <2>3. CASE j # 1
      <3>1. j - 1 \in 1 .. n - 1 /\ (j - 1) + 1 = j /\ j - 1 \in 1 .. n BY <1>1, <2>3
      <3>2. p[j - 1] = c BY <1>3, <2>1, <3>1
      <3> QED BY <3>1, <3>2
    <2> QED BY <2>2, <2>3
  <1>8. p[1] = nxt[r] /\ nxt[p[n]] = nxt[r]
    <2>1. CASE n = 1 BY <1>1, <1>3, <2>1
    <2>2. CASE n # 1
      <3>1. 1 \in 1 .. n - 1 BY <1>1, <2>2
      <3> QED BY <1>1, <1>3, <3>1
    <2> QED BY <2>1, <2>2
  <1>9. ASSUME NEW k \in 1 .. n - 1 PROVE nxt[p[k]] = p[k + 1]
    <2>1. p[k] = q[k + 1] BY <1>3
    <2>2. CASE k + 1 = n BY <1>1, <1>3, <2>1, <2>2
    <2>3. CASE k + 1 # n
      <3>1. k + 1 \in 1 .. n - 1 BY <1>1, <2>3
      <3>2. nxt[q[k + 1]] = q[(k + 1) + 1] /\ p[k + 1] = q[(k + 1) + 1] BY <1>1, <1>3, <3>1
      <3> QED BY <2>1, <3>2
    <2> QED BY <2>2, <2>3
  <1>10. Circle(p, n, L, nxt, nxt[r]) BY <1>1, <1>3, <1>6, <1>7, <1>8, <1>9 DEF Circle
  <1> QED BY <1>2, <1>10 DEF p

\* s is s1 followed by s2.
Joined(s, s1, s2) ==
  /\ Len(s) = Len(s1) + Len(s2)
  /\ \A k \in 1 .. Len(s1) + Len(s2) : s[k] = IF k <= Len(s1) THEN s1[k] ELSE s2[k - Len(s1)]

LEMMA Concatenated ==
  ASSUME NEW S, NEW s1 \in Seq(S), NEW s2 \in Seq(S), NEW s, s = s1 \o s2
  PROVE  s \in Seq(S) /\ Joined(s, s1, s2)
PROOF BY ConcatProperties, Zenon DEF Joined

\* After a birth.
LEMMA CircleGrows ==
  ASSUME NEW q, NEW n, NEW L, NEW nxt, NEW r, Circle(q, n, L, nxt, r),
         NEW e, e \notin L, NEW nxt2, nxt2[r] = e, nxt2[e] = nxt[r],
         \A c \in L \ {r} : nxt2[c] = nxt[c],
         NEW p, p = Turns!InsertAt(q, 2, e)
  PROVE  Circle(p, n + 1, L \cup {e}, nxt2, r)
PROOF
  <1>1. /\ n \in Nat \ {0} /\ q \in [1 .. n -> L] /\ \A j, k \in 1 .. n : q[j] = q[k] => j = k
        /\ \A c \in L : \E k \in 1 .. n : q[k] = c
        /\ q[1] = r /\ \A k \in 1 .. n - 1 : nxt[q[k]] = q[k + 1]
        /\ nxt[q[n]] = r
    BY DEF Circle
  <1> DEFINE M == L \cup {e}
  <1>2. /\ p \in [1 .. n + 1 -> M] /\ p[1] = q[1] /\ p[2] = e
        /\ \A k \in 3 .. n + 1 : p[k] = q[k - 1]
    <2>1. q \in Seq(M) /\ Len(q) = n /\ 1 \in 1 .. n BY <1>1
    <2> DEFINE h == SubSeq(q, 1, 2 - 1)
               t == SubSeq(q, 2, Len(q))
    <2>2. h \in Seq(M) /\ Len(h) = 1 /\ h[1] = q[1] BY <1>1, <2>1
    <2>3. t \in Seq(M) /\ Len(t) = n - 1 /\ \A k \in 1 .. n - 1 : t[k] = q[k + 1] BY <1>1, <2>1
    <2>4. p = h \o <<e>> \o t BY DEF Turns!InsertAt
    <2> HIDE DEF h, t
    <2> DEFINE f == h \o <<e>>
    <2>5. f \in Seq(M) /\ Len(f) = 2 /\ f[1] = q[1] /\ f[2] = e
      <3> DEFINE g == <<e>>
      <3>1. g \in Seq(M) /\ Len(g) = 1 /\ g[1] = e OBVIOUS
      <3>2. f = h \o g OBVIOUS
      <3> HIDE DEF M, g, f
      <3>3. /\ f \in Seq(M) /\ Len(f) = Len(h) + Len(g)
            /\ \A k \in 1 .. Len(h) + Len(g) : f[k] = IF k <= Len(h) THEN h[k] ELSE g[k - Len(h)]
        <4>1. f \in Seq(M) /\ Joined(f, h, g) BY <2>2, <3>1, <3>2, Concatenated
        <4> QED BY <4>1 DEF Joined
      <3>4. f[1] = q[1] BY <2>2, <3>1, <3>3
      <3>5. f[2] = g[2 - 1] BY <2>2, <3>1, <3>3
      <3> QED BY <2>2, <3>1, <3>3, <3>4, <3>5
    <2>6. p = f \o t BY <2>4
    <2> HIDE DEF f
    <2>7. /\ p \in Seq(M) /\ Len(p) = n + 1
          /\ \A k \in 1 .. n + 1 : p[k] = IF k <= 2 THEN f[k] ELSE t[k - 2]
      <3> HIDE DEF M
      <3>1. /\ p \in Seq(M) /\ Len(p) = Len(f) + Len(t)
            /\ \A k \in 1 .. Len(f) + Len(t) : p[k] = IF k <= Len(f) THEN f[k] ELSE t[k - Len(f)]
        <4>1. p \in Seq(M) /\ Joined(p, f, t) BY <2>3, <2>5, <2>6, Concatenated
        <4> QED BY <4>1 DEF Joined
      <3>2. Len(f) + Len(t) = n + 1 /\ Len(f) = 2 BY <1>1, <2>3, <2>5
      <3> QED BY <3>1, <3>2
    <2>8. p \in [1 .. n + 1 -> M] BY <2>7
    <2>9. p[1] = q[1] /\ p[2] = e BY <1>1, <2>5, <2>7
    <2>10. ASSUME NEW k \in 3 .. n + 1 PROVE p[k] = q[k - 1]
      <3>1. k - 2 \in 1 .. n - 1 /\ (k - 2) + 1 = k - 1 /\ k \in 1 .. n + 1 /\ ~(k <= 2) BY <1>1
      <3> QED BY <2>3, <2>7, <3>1
    <2> QED BY <2>8, <2>9, <2>10
  <1> HIDE DEF M
  <1>3. \A k \in 1 .. n + 1 : k = 1 \/ k = 2 \/ (k \in 3 .. n + 1 /\ k - 1 \in 1 .. n /\ k - 1 # 1) BY <1>1
  <1>4. 1 \in 1 .. n /\ \A k \in 1 .. n : q[k] # e BY <1>1
  <1>5. \A j, k \in 1 .. n + 1 : p[j] = p[k] => j = k
    <2> SUFFICES ASSUME NEW j \in 1 .. n + 1, NEW k \in 1 .. n + 1, p[j] = p[k], j < k PROVE FALSE
      <3>1. \A j, k \in 1 .. n + 1 : j < k \/ k < j \/ j = k BY <1>1
      <3> QED BY <3>1
    <2>1. k = 2 \/ (k \in 3 .. n + 1 /\ k - 1 \in 1 .. n /\ k - 1 # 1) BY <1>3
    <2>2. CASE j = 1 BY <1>1, <1>2, <1>4, <2>1, <2>2
    <2>3. CASE j = 2
      <3>1. k \in 3 .. n + 1 /\ k - 1 \in 1 .. n BY <2>1, <2>3
      <3> QED BY <1>2, <1>4, <2>3, <3>1
    <2>4. CASE j # 1 /\ j # 2
      <3>1. j \in 3 .. n + 1 /\ j - 1 \in 1 .. n BY <1>3, <2>4
      <3>2. k \in 3 .. n + 1 /\ k - 1 \in 1 .. n BY <1>1, <2>1, <3>1
      <3>3. q[j - 1] = q[k - 1] BY <1>2, <3>1, <3>2
      <3>4. j - 1 = k - 1 BY <1>1, <3>1, <3>2, <3>3
      <3> QED BY <3>1, <3>2, <3>4
    <2> QED BY <2>2, <2>3, <2>4
  <1>6. ASSUME NEW c \in M PROVE \E k \in 1 .. n + 1 : p[k] = c
    <2>1. 1 \in 1 .. n + 1 /\ 2 \in 1 .. n + 1 BY <1>1
    <2>2. CASE c = e BY <1>2, <2>1, <2>2
    <2>3. CASE c # e
      <3>1. PICK j \in 1 .. n : q[j] = c BY <1>1, <2>3 DEF M
      <3>2. CASE j = 1 BY <1>2, <2>1, <3>1, <3>2
      <3>3. CASE j # 1
        <4>1. j + 1 \in 3 .. n + 1 /\ (j + 1) - 1 = j /\ j + 1 \in 1 .. n + 1 BY <1>1, <3>3
        <4>2. p[j + 1] = c BY <1>2, <3>1, <4>1
        <4> QED BY <4>1, <4>2
      <3> QED BY <3>2, <3>3
    <2> QED BY <2>2, <2>3
  <1>7. ASSUME NEW k \in 2 .. n PROVE q[k] \in L /\ q[k] # r
    <2>1. k \in 1 .. n /\ k # 1 BY <1>1
    <2> QED BY <1>1, <1>4, <2>1
  <1>8. ASSUME NEW k \in 1 .. (n + 1) - 1 PROVE nxt2[p[k]] = p[k + 1]
    <2>1. CASE k = 1 BY <1>1, <1>2, <2>1
    <2>2. CASE k = 2
      <3>1. 3 \in 3 .. n + 1 /\ 1 \in 1 .. n - 1 BY <1>1, <2>2
      <3>2. p[3] = q[2] BY <1>2, <3>1
      <3>3. nxt[r] = q[2] BY <1>1, <3>1
      <3> QED BY <1>2, <2>2, <3>2, <3>3
    <2>3. CASE k # 1 /\ k # 2
      <3>1. /\ k \in 3 .. n + 1 /\ k + 1 \in 3 .. n + 1 /\ k - 1 \in 1 .. n - 1
            /\ (k - 1) + 1 = k /\ (k + 1) - 1 = k /\ k - 1 \in 2 .. n
        BY <1>1, <2>3
      <3>2. p[k] = q[k - 1] /\ p[k + 1] = q[k] BY <1>2, <3>1
      <3>3. nxt[q[k - 1]] = q[k] BY <1>1, <3>1
      <3>4. nxt2[q[k - 1]] = nxt[q[k - 1]] BY <1>7, <3>1
      <3> QED BY <3>2, <3>3, <3>4
    <2> QED BY <2>1, <2>2, <2>3
  <1>9. nxt2[p[n + 1]] = r
    <2>1. CASE n = 1
      <3>1. p[n + 1] = e BY <1>2, <2>1
      <3> QED BY <1>1, <2>1, <3>1
    <2>2. CASE n # 1
      <3>1. n + 1 \in 3 .. n + 1 /\ (n + 1) - 1 = n /\ n \in 2 .. n BY <1>1, <2>2
      <3>2. p[n + 1] = q[n] BY <1>2, <3>1
      <3>3. nxt2[q[n]] = nxt[q[n]] BY <1>7, <3>1
      <3> QED BY <1>1, <3>2, <3>3
    <2> QED BY <2>1, <2>2
  <1>10. n + 1 \in Nat \ {0} /\ p[1] = r BY <1>1, <1>2
  <1>11. Circle(p, n + 1, M, nxt2, r)
    BY <1>2, <1>5, <1>6, <1>8, <1>9, <1>10 DEF Circle
  <1> QED BY <1>11 DEF M

CircleInv == Booted => \E q, n : Circle(q, n, Live, next, esp0)

\* What a step does to the order of turns, in Rotation's terms.
LEMMA StepTurns ==
  ASSUME RingInv, RingInv', CircleInv, [Next]_vars
  PROVE  CircleInv' /\ [Turns!Next]_order
PROOF
  <1>1. CASE boot
    <2>1. /\ mode = "scheduler_init" /\ init_i = nb_tasks /\ esp0' = next[0] /\ next' = next
          /\ mode' = "user" /\ idx_reserve' = idx_reserve
      BY <1>1 DEF boot, sched_choose_next, hw_context_switch
    <2>2. ~Booted /\ Booted' BY <2>1 DEF Booted
    <2>3. Live = Tasks /\ Live' = Tasks
      <3>1. idx_reserve = RESERVE_SIZE BY <2>2 DEF RingInv, Control
      <3>2. Live = Tasks BY <3>1, Constants, LiveFacts
      <3> QED BY <2>1, <3>2 DEF Live, Allocated
    <2>4. nb_tasks \in Nat \ {0} BY Constants
    <2>5. next[nb_tasks - 1] = 0 /\ \A i \in 0 .. nb_tasks - 2 : next[i] = i + 1
      BY <2>1, <2>4 DEF RingInv, Links
    <2>6. PICK q : Circle(q, nb_tasks, Tasks, next, next[0])
      <3>1. Tasks = 0 .. nb_tasks - 1 BY DEF Tasks
      <3> QED BY <2>4, <2>5, <3>1, FirstCircle
    <2>7. Circle(q, nb_tasks, Live', next', esp0') BY <2>1, <2>3, <2>6
    <2>8. order = <<>> /\ order' = q
      <3>1. Orbit' = q BY <2>7, OrbitNext
      <3> QED BY <2>2, <3>1 DEF order
    <2>9. q \in Turns!SetToSeqs(Tasks)
      <3>1. Turns!Cardinality(Tasks) = nb_tasks BY <2>6, CircleSize, SameCardinality
      <3> QED BY <2>6, <3>1 DEF Turns!SetToSeqs, Circle
    <2>10. Turns!Next BY <2>8, <2>9 DEF Turns!Next, Turns!Start
    <2> QED BY <2>7, <2>10 DEF CircleInv
  <1>2. CASE yield
    <2>1. /\ mode = "user" /\ esp0' = next[current] /\ next' = next /\ mode' = "user"
          /\ idx_reserve' = idx_reserve
      BY <1>2 DEF yield, c_syscall_yield, sched_choose_next, hw_context_switch, TaskRunning
    <2>2. Booted /\ Booted' BY <2>1 DEF Booted
    <2>3. Live' = Live /\ current = esp0 BY <2>1, <2>2 DEF Live, Allocated, RingInv, CurrentRuns
    <2>4. PICK q, n : Circle(q, n, Live, next, esp0) BY <2>2 DEF CircleInv
    <2> DEFINE p == Append(Tail(q), Head(q))
    <2>5. q # <<>> /\ Circle(p, n, Live, next, next[esp0]) BY <2>4, CircleTurns
    <2> HIDE DEF p
    <2>6. Circle(p, n, Live', next', esp0') BY <2>1, <2>3, <2>5
    <2>7. order = q /\ order' = p
      <3>1. Orbit' = p BY <2>6, OrbitNext
      <3>2. Orbit = q BY <2>4, OrbitIsCircle
      <3> QED BY <2>2, <3>1, <3>2 DEF order
    <2>8. Turns!Next BY <2>5, <2>7 DEF Turns!Next, Turns!Turn, p
    <2> QED BY <2>6, <2>8 DEF CircleInv
  <1>3. CASE syscall_dup_thread
    <2> DEFINE ctx2 == ReserveBase + idx_reserve'
    <2>0. /\ mode = "user" /\ Booted /\ idx_reserve # 0 /\ idx_reserve' = idx_reserve - 1
          /\ sched_insert_duplicated_context(copy_next(ctx2, esp0), esp0, ctx2)
      BY <1>3 DEF syscall_dup_thread, TaskRunning, may_dup, Booted
    <2>1. next \in [Contexts -> Contexts \cup {NoContext}] /\ idx_reserve \in 0 .. RESERVE_SIZE
      BY DEF RingInv, TypeOK, HighLevelTypeOK
    <2>2. /\ ctx2 \in Contexts /\ ctx2 \notin Live /\ Live' = Live \cup {ctx2}
          /\ Live \in SUBSET Contexts /\ ctx2 \in Reserve
      BY <2>0, <2>1, LiveFacts, Constants DEF Reserve, ReserveBase
    <2>3. esp0 \in Live BY <2>0 DEF RingInv, CurrentRuns
    <2> HIDE DEF ctx2
    <2>4. esp0 # ctx2 /\ esp0 \in Contexts BY <2>2, <2>3
    <2>5. /\ next' = [[next EXCEPT ![ctx2] = next[esp0]] EXCEPT ![esp0] = ctx2]
          /\ esp0' = esp0 /\ mode' = "user"
      BY <2>0, <2>1, <2>2, <2>4
      DEF sched_insert_duplicated_context, copy_next, hw_context_switch
    <2>6. /\ next'[esp0] = ctx2 /\ next'[ctx2] = next[esp0]
          /\ \A c \in Live \ {esp0} : next'[c] = next[c]
      BY <2>1, <2>2, <2>4, <2>5
    <2>7. PICK q, n : Circle(q, n, Live, next, esp0) BY <2>0 DEF CircleInv
    <2>8. PICK p : p = Turns!InsertAt(q, 2, ctx2) OBVIOUS
    <2>9. Circle(p, n + 1, Live \cup {ctx2}, next', esp0) BY <2>2, <2>6, <2>7, <2>8, CircleGrows
    <2>10. Circle(p, n + 1, Live', next', esp0') BY <2>2, <2>5, <2>9
    <2>11. Booted' BY <2>5 DEF Booted
    <2>12. order = q /\ order' = p
      <3>1. Orbit' = p BY <2>10, OrbitNext
      <3>2. Orbit = q BY <2>7, OrbitIsCircle
      <3> QED BY <2>0, <2>11, <3>1, <3>2 DEF order
    <2>13. q # <<>> /\ ctx2 \notin Turns!Range(q)
      <3>1. q # <<>> BY <2>7, CircleTurns
      <3>2. q \in [1 .. n -> Live] BY <2>7 DEF Circle
      <3> QED BY <2>2, <3>1, <3>2 DEF Turns!Range
    <2>14. Turns!Next BY <2>2, <2>8, <2>12, <2>13 DEF Turns!Next, Turns!Spawn
    <2> QED BY <2>10, <2>14 DEF CircleInv
  <1>4. CASE HighLevelInit \/ scheduler_init_task
    <2>1. ~Booted /\ ~Booted'
      BY <1>4 DEF HighLevelInit, high_level_init, scheduler_init_task, Booted
    <2> QED BY <2>1 DEF CircleInv, order
  <1>5. CASE syscall_or_exception \/ TimerInterrupt \/ UNCHANGED vars
    <2>1. /\ UNCHANGED <<esp0, idx_reserve, next>>
          /\ Booted' <=> Booted
      <3>0. HighLevelTypeOK BY DEF RingInv, TypeOK
      <3>1. CASE syscall_or_exception
        BY <3>0, <3>1, PlainHandlerTypes DEF syscall_or_exception, ringVars, Booted
      <3>2. CASE TimerInterrupt
        BY <3>0, <3>2, TickTypes DEF TimerInterrupt, ringVars, RingInv, Control, Booted
      <3>3. CASE UNCHANGED vars BY <3>3 DEF vars, Booted
      <3> QED BY <1>5, <3>1, <3>2, <3>3
    <2>2. Live' = Live BY <2>1 DEF Live, Allocated
    <2>3. CASE Booted
      <3>1. PICK q, n : Circle(q, n, Live, next, esp0) BY <2>3 DEF CircleInv
      <3>2. Circle(q, n, Live', next', esp0') BY <2>1, <2>2, <3>1
      <3>3. Orbit' = q BY <3>2, OrbitNext
      <3>4. Orbit = q BY <3>1, OrbitIsCircle
      <3>5. order' = order BY <2>1, <2>3, <3>3, <3>4 DEF order
      <3> QED BY <3>2, <3>5 DEF CircleInv
    <2>4. CASE ~Booted BY <2>1, <2>4 DEF CircleInv, order
    <2> QED BY <2>3, <2>4
  <1> QED BY <1>1, <1>2, <1>3, <1>4, <1>5 DEF Next

\* The kernel gives turns as Rotation says: only yields advance the cyclic order,
\* and a new thread gets its first turn right after its parent's.
THEOREM TakesTurnsCorrect == Spec => TakesTurns
PROOF
  <1>1. Init => RingInv /\ CircleInv /\ Turns!Init
    <2>1. Init => ~Booted BY DEF Init, HighLevelInitState, Booted
    <2> QED BY <2>1, RingInvInit DEF CircleInv, Turns!Init, order
  <1>2. RingInv /\ CircleInv /\ [Next]_vars => (RingInv /\ CircleInv)' /\ [Turns!Next]_order
    BY RingInvNext, StepTurns
  <1> QED BY <1>1, <1>2, PTL DEF Spec, TakesTurns, Turns!Spec
=============================================================================
