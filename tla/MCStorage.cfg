SPECIFICATION Spec
CONSTANTS
  Names = {"a", "b"}
  Old = {"a"}
  MaxWrites = 3
  MaxCrashes = 1
  MaxFailures = 3
INVARIANTS
  TypeOK
PROPERTIES
  KeepsThePromise
  WritesArrive
CHECK_DEADLOCK FALSE
