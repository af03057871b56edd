CONSTANTS
  TotalPages = 8
  Counts <- MCCounts
SPECIFICATION Spec
INVARIANTS
  TypeOK
  BitmapMatchesCallers
  NoMissedRun
PROPERTY ImplementsPageSpec
