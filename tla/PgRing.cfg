SPECIFICATION Spec
CONSTANTS
  Sockets = {s1, s2}
  Pruner = Pruner
  Capacity = 1
  MaxUpdates = 3
  MaxOthers = 2
SYMMETRY Symmetry
INVARIANTS OldestFirst AnswerHonest CapacityKept
CHECK_DEADLOCK FALSE
