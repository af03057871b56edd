CONSTANTS
  Coords = {0, 2, 5}
  Sizes = {1, 3}
  Colors = {1, 2}
  Percents = {67}
  Scrolls = {0, 1}
  Texts <- MCTexts
  Font <- MCFont
  GLYPH = 2
  LEAD = 3
  Memory <- MCMemory
  Grants <- MCGrants
  BUS = 100
  WRAP = 1000
  MaxCalls = 3
SPECIFICATION Spec
INVARIANTS
  TypeOK
  OnlyFrameBufferWritten
PROPERTIES
  ImplementsScreen
CHECK_DEADLOCK FALSE
