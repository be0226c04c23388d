SPECIFICATION Spec
CONSTANTS
  nb_tasks = 2
  RESERVE_SIZE = 1
  CONTEXTS_PER_TASK = 8
  WORD = 4
  task_begin <- Begins
  task_end <- Ends
  Instructions <- Writes
  Durations <- Yields
  Calls = {1, 2, 4}
CHECK_DEADLOCK FALSE
INVARIANTS
  HandlerGetsCaller
  YieldArrives
PROPERTIES
  ThreadsOwnTheCPU
