SPECIFICATION Spec
CONSTANTS
  Bits = 3
  start = 1
  Programs <- AllPrograms
CHECK_DEADLOCK FALSE
INVARIANTS
  EdgesAreJumps
  StacksDoNotRepeat
  FixpointIsClosed
  FindsJustBelow
PROPERTIES
  FixpointReached
