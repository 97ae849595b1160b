SPECIFICATION Spec
CONSTANTS
  n1 = n1
  n2 = n2
  n3 = n3
  g1 = g1
  g2 = g2
  Nodes <- TwoNodes
  Gateways <- TwoGateways
  Slow = FALSE
  MaxUpdates = 1
  MaxFaults = 1
  MaxChanges = 1
  MaxCrashes = 1
INVARIANTS
  HolderRegisters
PROPERTIES
  ConfigIsFollowed
  DeposedStops
