CONSTANTS
  n1 = n1
  n2 = n2
  a = a
  b = b
  l1 = l1
  l2 = l2
  l3 = l3
  l4 = l4
  l5 = l5
  Nodes <- MCNodes
  Here = n1
  Actors <- MCActors
  Lookups <- ExceptLookups
  Plus <- ExceptPlus
  Minus <- ExceptMinus
  Local <- MCLocal
  Answers <- MCAnswers
CHECK_DEADLOCK FALSE
SPECIFICATION FairSpec
INVARIANTS
  TypeOK
  CollectedAreMet
  PermittedPlaces
PROPERTY
  EventuallyPlaced
