SPECIFICATION Spec
CONSTANTS
  a = a
  b = b
  g = g
  Starters = {a, b}
  Guests = {g}
  Enders = {b}
  Server <- MCServer
  Nowhere = nowhere
CHECK_DEADLOCK FALSE
INVARIANTS
  RecordIsRemoved
  OneRoom
PROPERTIES
  
  KilledVerbEnds
