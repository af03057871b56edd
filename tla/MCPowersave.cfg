CONSTANTS
  MAX_ARM = 1200
  MIN_ARM = 600
  Rates <- MCRates
  WRAP = 4294
  FIFO = 3
SPECIFICATION Spec
INVARIANTS
  PowersaveIsSlower
