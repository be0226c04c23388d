SPECIFICATION FairSpec
CONSTANTS
  nb_tasks = 2
  CONTEXTS_PER_TASK = 1
  RESERVE_SIZE = 2
  SCHEDULING = "FP"
  DYNAMIC_TASK_CREATION = TRUE
  DEBUG_PRINTING = FALSE
  TaskPriority <- FirstPriority
  DATE_MOD = 9
  ACTUAL_TICK = 2
  MaxTime = 6
  WakeupIncrements = {1, 3, 8}
  DeadlineIncrements = {0}
CHECK_DEADLOCK FALSE
INVARIANTS
  RunsHighest
  AssertionsNeedManyThreads
PROPERTIES
  IdlingEnds
