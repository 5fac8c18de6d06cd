SPECIFICATION Spec
CONSTANTS
  Session = s1
  Capacity = 4
  QueueDepth = 4
  MaxAttempts = 0
  MaxSeq = 3
  MaxConnects = 2
  MaxFailures = 0
INVARIANT NoSilentGap
CHECK_DEADLOCK FALSE
