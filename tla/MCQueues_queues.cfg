SPECIFICATION MCSpec
CONSTANTS
  c1 = c1
  c2 = c2
  c3 = c3
  Null = Null
  Lists <- TwoLists
  Elements <- ThreeContexts
  Ranks = {0, 1, 2}
CHECK_DEADLOCK FALSE
INVARIANTS
  SizeCounts
  HeapOrder
PROPERTIES
  ImplementsQueues
  ImplementsBag
  OperationsEnd
