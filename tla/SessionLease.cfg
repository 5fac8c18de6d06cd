SPECIFICATION LeaseFairSpec
CONSTANTS
  Nodes = {n1, n2}
  Nobody = Nobody
  Ttl = 3
  Beat = 1
  MaxWire = 2
  MaxLeaseFaults = 1
 
PROPERTIES LostStaysLost SplitHeals
CHECK_DEADLOCK FALSE
