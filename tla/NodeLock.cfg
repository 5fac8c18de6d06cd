SPECIFICATION FairSpec
CONSTANTS
  Procs = {p1, p2, p3}
  None = None
  MaxAttempts = 2
  MaxBoots = 1
INVARIANTS ExclusiveUnlessReplaced ContestHasWinner
PROPERTY StaleLockIsTaken
CHECK_DEADLOCK FALSE
