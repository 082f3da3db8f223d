SPECIFICATION Spec
CONSTANTS
  MaxPts = 3
  MaxSeq = 2
  Counts = {0, 1, 2}
  Kinds = {"push", "reply", "affected"}
  MaxNet = 2
  MaxSilent = 1
  Faults = 1
INVARIANTS
  TypeOK
  RequestingEnds
  GapIsWaited
PROPERTIES
  KnownIsCovered
  FollowsTheLog
CHECK_DEADLOCK FALSE
