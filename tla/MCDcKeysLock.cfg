SPECIFICATION Spec
CONSTANTS
  Sessions = {a, b}
  Downloaders = {b}
  MaxReports = 1
  MaxKeys = 3
  FaultPlans <- MCFaultPlans
INVARIANTS
  SomeoneIsCreating
CHECK_DEADLOCK FALSE
