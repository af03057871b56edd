CONSTANTS
  SIZE = 3
  Strings <- MCStrings
SPECIFICATION Spec
INVARIANTS
  NeighbourKept
CHECK_DEADLOCK FALSE
