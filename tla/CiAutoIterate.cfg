SPECIFICATION FairSpec
CONSTANTS
  Shas = {a, b}
  NoSha = NoSha
  MaxAttempts = 2
  MaxPrs = 2
  MaxRuns = 1
  MaxLoops = 1
INVARIANT TurnsBounded
PROPERTIES StopHolds RepeatNeedsAnother RedIsNoticed
CHECK_DEADLOCK FALSE
