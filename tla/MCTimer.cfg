CONSTANTS
  WRAP = 4
  TICK_INTERVAL = 2
  Delays <- MCDelays
  MaxHi = 2
SPECIFICATION Spec
INVARIANTS
  TypeOK
  ReadsTrue
  SleepLasts
  AlwaysArmed
PROPERTIES
  NoEarlyTick
