SPECIFICATION UpdateFairSpec
CONSTANTS
  Requests = {r1, r2}
  NoVersion = NoVersion
  MaxVersion = 3
  MaxKills = 1
INVARIANTS LiveBuildStarts OldBuildKept
PROPERTIES UpdateTakesEffect EveryRequestAnswered
CHECK_DEADLOCK FALSE
