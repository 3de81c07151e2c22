CONSTANTS
  lo = lo
  hi = hi
  Lo = lo
  Hi = hi
  Joiners <- Both
  MaxConns = 4
  MaxBreaks = 2
  ConnectMayFail = TRUE
CHECK_DEADLOCK FALSE
SPECIFICATION FairSpec
INVARIANTS
  LinkNotClosing
  SameLinkIfLowAsked
PROPERTY
  JoinAnsweredUnlessFailed
