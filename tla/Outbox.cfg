SPECIFICATION OutboxFairSpec
CONSTANTS
  Keys = {k1, k2}
  MaxDepth = 2
  MaxProduced = 4
INVARIANTS EachSeqOnceInOrder OnlyOldestDropped DepthBounded
PROPERTY EventuallySent
CHECK_DEADLOCK FALSE
