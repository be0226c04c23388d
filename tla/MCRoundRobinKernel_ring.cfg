SPECIFICATION HSpec
CONSTANTS
  nb_tasks = 2
  CONTEXTS_PER_TASK = 8
  RESERVE_SIZE = 3
  SCHEDULING = "ROUND_ROBIN"
  DYNAMIC_TASK_CREATION = TRUE
  DEBUG_PRINTING = TRUE
  TaskPriority <- Priorities
  DATE_MOD = 4
  ACTUAL_TICK = 1
  MaxTime = 1
  WakeupIncrements = {2}
  DeadlineIncrements = {0}
CHECK_DEADLOCK FALSE
INVARIANTS
  Ring
  CurrentRuns
  NoAssertionFails
  NoOvertaking
PROPERTIES
  TakesTurns
