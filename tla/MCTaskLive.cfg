CONSTANTS
  N = 3
  UserPages <- MCPagesLive
  STACK_PAGES = 1
  MaxSleep = 1
SPECIFICATION FairSpec
PROPERTIES
  EveryTaskRuns
  DeadStacksFreed
CHECK_DEADLOCK FALSE
