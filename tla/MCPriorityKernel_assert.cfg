SPECIFICATION Spec
CONSTANTS
  nb_tasks = 1
  CONTEXTS_PER_TASK = 8
  RESERVE_SIZE = 10
  SCHEDULING = "EDF"
  DYNAMIC_TASK_CREATION = TRUE
  DEBUG_PRINTING = TRUE
  TaskPriority <- RisingPriorities
  DATE_MOD = 5
  ACTUAL_TICK = 2
  MaxTime = 2
  WakeupIncrements = {1}
  DeadlineIncrements = {0}
CHECK_DEADLOCK FALSE
INVARIANTS
  NoAssertionFails
