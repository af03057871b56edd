CONSTANTS
  HeapEnd = 216
  Sizes <- MCSizes
SPECIFICATION FairSpec
INVARIANTS
  TypeOK
  Tiled
  NullOnlyWhenFull
  FullyRestored
PROPERTIES
  CallsReturn
  ImplementsHeapSpec
