SPECIFICATION Spec
CONSTANTS
  a = a
  b = b
  Targets = {a, b}
  Confirmed = {b}
  AnswerOnBridge = TRUE
  Nobody = nobody
CHECK_DEADLOCK FALSE
PROPERTY
  CalleesAreReleased
