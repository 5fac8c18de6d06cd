SPECIFICATION Spec
CONSTANTS
  Sockets = {c1, c2, c3}
  Devices = {d1, d2}
  NodeIds = {n1}
  None = None
  MaxInbox = 1
SYMMETRY Symmetry
INVARIANTS PromptCloseLeavesNoTrace OneOpenHolder
PROPERTY RouteKeptByDevice
CHECK_DEADLOCK FALSE
