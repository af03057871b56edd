CONSTANTS
  N = 3
  UserPages <- MCPages
  STACK_PAGES = 2
  MaxSleep = 3
SPECIFICATION Spec
INVARIANTS
  TypeOK
  StackOwnership
  BoundedWait
  SleepHonoured
PROPERTIES
  KilledStaysDead
CHECK_DEADLOCK FALSE
