SPECIFICATION Spec
CONSTANTS
  Vertices = {1, 2, 3, 4}
  Edges <- AllEdges
  Prefs <- Preferences
  MaxEdges = 7
  MaxLength = 5
CHECK_DEADLOCK FALSE
INVARIANTS
  CoversReachable
  BackEdgesReachHeads
  ComponentsAreLoops
  NestedLoopsExpressed
  EntryPathsOnly
  FailsOnUnreachable
