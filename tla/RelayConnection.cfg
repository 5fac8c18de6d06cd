SPECIFICATION FairSpec
CONSTANTS
  Sockets = {k1, k2}
  None = None
  Initial = 1
  MaxBackoff = 3
  MaxFaults = 3
INVARIANTS OneWayForward EveryAttemptWatched ClosedForGood
PROPERTY Reconnects
CHECK_DEADLOCK FALSE
