CONSTANTS
  n1 = n1
  n2 = n2
  c1 = c1
  c2 = c2
  c3 = c3
  op = op
  i1 = i1
  i2 = i2
  Nodes <- MCNodes
  Connects <- MCConnects
  NodeOf <- MCNodeOf
  PortOf <- MCPortOf
  PeerPortOf <- MCPeerPortOf
  InPorts <- MCInPorts
  TunnelIds <- MCTunnelIds
  MaxFaults = 1
CHECK_DEADLOCK FALSE
SPECIFICATION FairSpec
INVARIANTS
  TypeOK
  AnsweredOnce
  SameTunnel
  ConnectedAtBothEnds
  LinkedNeverDrops
PROPERTY
  ConnectsAnswered
