CONSTANTS
  Blocks = {b1, b2, b3}
  Root = root
  Names <- MCNames
  Cut <- MCCut
  Rest <- MCRest
  Paths <- MCTreePaths
  Devices <- MCDevices
  FlagSets <- MCTreeFlags
  Vals <- MCNoVals
  Sizes <- MCTreeSizes
  MIN_CAP = 2
  MAX_OPEN = 1
  MAX_DEPTH = 2
  MaxEnd = 1
SYMMETRY MCSymmetry
SPECIFICATION Spec
CHECK_DEADLOCK FALSE
INVARIANTS
  TreeShape
  PathsRoundTrip
  OnlyRemovalDangles
