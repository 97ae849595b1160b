SPECIFICATION Spec
CONSTANTS
  n1 = n1
  n2 = n2
  n3 = n3
  g1 = g1
  g2 = g2
  Nodes <- ThreeNodes
  Gateways <- OneGateway
  Slow = TRUE
  MaxUpdates = 2
  MaxFaults = 1
  MaxChanges = 1
  MaxCrashes = 1
INVARIANTS
  OneRegistrar
PROPERTIES
  RoleIsNotTaken
