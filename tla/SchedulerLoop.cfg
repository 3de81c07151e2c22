CONSTANTS
  a1 = a1
  a2 = a2
  NoId = NoId
  Ids <- MCIds
  MaxDelays = 3
SPECIFICATION FairSpec
INVARIANTS
  AlwaysArmed
  LoopsBounded
PROPERTY
  InputServed
