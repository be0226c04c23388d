SPECIFICATION Spec
CONSTANTS
  nb_tasks = 2
  CONTEXTS_PER_TASK = 8
  RESERVE_SIZE = 1
  SCHEDULING = "EDF"
  DYNAMIC_TASK_CREATION = TRUE
  DEBUG_PRINTING = TRUE
  TaskPriority <- RisingPriorities
  DATE_MOD = 9
  ACTUAL_TICK = 2
  MaxTime = 6
  WakeupIncrements = {1, 3, 8}
  DeadlineIncrements = {0, 2}
CHECK_DEADLOCK FALSE
INVARIANTS
  PreemptionPointSet
