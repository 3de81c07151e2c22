CONSTANTS
  lo = lo
  hi = hi
  Lo = lo
  Hi = hi
  Joiners <- Both
  MaxConns = 2
  MaxBreaks = 0
  ConnectMayFail = FALSE
CHECK_DEADLOCK FALSE
SPECIFICATION Spec
INVARIANT
  SameLinkWhenQuiet
