SPECIFICATION Spec
CONSTANTS
  Sessions = {a, b}
  Downloaders = {b}
  MaxReports = 1
  MaxKeys = 3
  FaultPlans <- MCFaultPlans
INVARIANTS
  TypeOK
  CreatorHasLock
  BoundToCurrent
  SavedIsCurrent
PROPERTIES
  GetsKey
CHECK_DEADLOCK FALSE
