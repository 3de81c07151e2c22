CONSTANTS
  v1 = v1
  v2 = v2
  a = a
  b = b
  None = None
  Absent = Absent
  Values <- TwoValues
  Items <- TwoItems
  MaxOps = 3
  MaxFailures = 3
CHECK_DEADLOCK FALSE
SPECIFICATION FairSpec
INVARIANTS
  LatestValueKept
  KeptUntilConfirmed
PROPERTY
  EventuallySynced
