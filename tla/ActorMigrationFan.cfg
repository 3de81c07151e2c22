CONSTANTS
  n1 = n1
  n2 = n2
  n3 = n3
  src = src
  snk = snk
  snk2 = snk2
  op = op
  i1 = i1
  i2 = i2
  Nodes <- MCNodes
  InPorts <- MCInPorts
  OutPorts <- MCOutPorts
  Links <- MCLinks
  Actors <- FanActors
  Owner <- FanOwner
  Home <- FanHome
  Calls <- FanCalls
  MaxMoves = 1
  MaxFaults = 0
CHECK_DEADLOCK FALSE
SPECIFICATION Spec
INVARIANT
  Restored
