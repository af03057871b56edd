CONSTANTS
  Keys <- MCKeys
  MAX_LEN = 6
  MAX_ARGS = 2
  HISTORY = 3
  Names <- MCNames
  REBOOT <- MCReboot
  SHUTDOWN <- MCShutdown
  PEEK <- MCPeek
  Lines <- MCLines
SPECIFICATION FairSpec
INVARIANTS
  TypeOK
PROPERTIES
  ImplementsShellSpec
  PromptReturns
CHECK_DEADLOCK FALSE
