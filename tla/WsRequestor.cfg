SPECIFICATION Spec
CONSTANTS
  h1 = h1
  h2 = h2
  s1 = s1
  Hooks <- TwoHooks
  Notes <- OneNote
  RetryHttp = FALSE
  MaxReconnects = 2
  MaxDrops = 2
  MaxFailures = 2
INVARIANTS
  OneConnection
PROPERTIES
  SendsOnlyWhenResumed
  SentRequestsSettle
  HeldMessagesAreReleased
CHECK_DEADLOCK FALSE
