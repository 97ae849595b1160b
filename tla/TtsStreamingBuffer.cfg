SPECIFICATION Spec
CONSTANTS
  High = 2
  Low = 1
  Texts <- SmallTexts
  MaxWords = 3
  MaxFlushes = 2
  MaxSays = 2
CHECK_DEADLOCK FALSE
INVARIANTS
  TypeOK
  FlushFollowsItsText
PROPERTIES
  StreamsText
  FinishedTextIsSpoken
  PausedIsResumed
