SPECIFICATION FairSpec
CONSTANTS
  Sessions = {s1, s2}
  MaxRunning = 1
INVARIANTS SlotsAccounted WaitsForFullTarget
PROPERTIES WithdrawnNeverLaunches QueueDrains
CHECK_DEADLOCK FALSE
