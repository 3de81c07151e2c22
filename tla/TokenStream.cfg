\* Links break at any time; both actors move and may share a runtime unless a
\* (dis)connect was lost.
CONSTANTS
  EmptySlot = EmptySlot
  InPort = "in"
  Length = 3
  MaxTake = 2
  Placements <- Anywhere
  MaxWrites = 4
  MaxMoves = 3
  MaxLosses = 2
  MeetAfterLoss = FALSE
CHECK_DEADLOCK FALSE
SPECIFICATION FairSpec
INVARIANTS
  TypeOK
  NoTokenDropped
  QuietWhenApart
  AckedEmptied
PROPERTIES
  ImplementsTokenQueue
  EventuallyConsumed
