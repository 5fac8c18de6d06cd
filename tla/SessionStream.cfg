SPECIFICATION FairSpec
CONSTANTS
  Session = s1
  Capacity = 1
  QueueDepth = 1
  MaxAttempts = 1
  MaxSeq = 3
  MaxConnects = 2
  MaxFailures = 1
INVARIANTS RingAccountsForEverySeq AppliedOnce CaughtUpSinceCursor
PROPERTY EventuallyQuiet
CHECK_DEADLOCK FALSE
