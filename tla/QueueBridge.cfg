SPECIFICATION Spec
CONSTANTS
  m1 = m1
  m2 = m2
  d1 = d1
  d2 = d2
  Members <- MCMembers
  Dequeuers <- MCDequeuers
  Impatient <- MCImpatient
  Leavers <- MCLeavers
  Lossy <- MCLossy
  Server <- MCServer
  Nobody = nobody
CHECK_DEADLOCK FALSE
INVARIANTS
  WaitingIsReachable
  BridgedHasMember
PROPERTIES
  QueueIsMemberQueue
  AskingEnds
  HangupEndsBoth
