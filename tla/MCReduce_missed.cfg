SPECIFICATION Spec
CONSTANTS
  Vertices = {1, 2, 3}
  Edges <- NoSelfLoops
  Prefs <- NoPreference
  MaxEdges = 6
  MaxLength = 5
CHECK_DEADLOCK FALSE
INVARIANTS
  ExpressesAllPaths
