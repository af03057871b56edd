CONSTANTS
  MAX_ARM = 1500
  MIN_ARM = 600
  Rates <- MCRates
  WRAP = 4294
  FIFO = 3
SPECIFICATION FairSpec
INVARIANTS
  TypeOK
  BufferHandedOver
PROPERTIES
  ProfileShown
  CallsReturn
