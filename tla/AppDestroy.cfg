CONSTANTS
  a1 = a1
  a2 = a2
  n1 = n1
  n2 = n2
  n3 = n3
  Actors <- MCActors
  Nodes <- MCNodes
  Here = n1
  Retries = 2
  Destroys = 2
  MaxMoves = 1
  MaxFaults = 2
CHECK_DEADLOCK FALSE
SPECIFICATION FairSpec
INVARIANTS
  TypeOK
  OkMeansGone
  FailedMeansDisturbed
PROPERTY
  LastCallerTold
