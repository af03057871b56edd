CONSTANTS
  Blocks = {b1, b2, b3}
  Root = root
  Names <- MCFileNames
  Cut <- MCNoCut
  Rest <- MCNoCut
  Paths <- MCFilePaths
  Devices <- MCNoVals
  FlagSets <- MCFileFlags
  Vals = {u, v}
  Sizes <- MCSizes
  MIN_CAP = 2
  MAX_OPEN = 2
  MAX_DEPTH = 2
  MaxEnd = 3
SYMMETRY MCSymmetry
SPECIFICATION Spec
CHECK_DEADLOCK FALSE
INVARIANTS
  TypeOK
  MemoryOwned
  ContentsKept
PROPERTIES
  FailuresAreClean
