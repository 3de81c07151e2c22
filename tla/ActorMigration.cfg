CONSTANTS
  n1 = n1
  n2 = n2
  n3 = n3
  src = src
  snk = snk
  snk2 = snk2
  op = op
  i1 = i1
  i2 = i2
  Nodes <- MCNodes
  InPorts <- MCInPorts
  OutPorts <- MCOutPorts
  Links <- MCLinks
  Actors <- PairActors
  Owner <- PairOwner
  Home <- PairHome
  Calls <- PairCalls
  MaxMoves = 2
  MaxFaults = 1
CHECK_DEADLOCK FALSE
SPECIFICATION Spec
INVARIANTS
  TypeOK
  AtOnePlace
  NoActorLost
  EnabledIffConnected
  Restored
  ToldOnce
