\* A link breaks at any time; the actors may come to share a runtime.
CONSTANTS
  EmptySlot = EmptySlot
  InPort = "in"
  Length = 3
  MaxTake = 2
  Placements <- Anywhere
  MaxWrites = 4
  MaxMoves = 3
  MaxLosses = 1
  MeetAfterLoss = TRUE
CHECK_DEADLOCK FALSE
SPECIFICATION Spec
INVARIANT
  NoTokenDropped
