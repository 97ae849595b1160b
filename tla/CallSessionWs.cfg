SPECIFICATION Spec
CONSTANTS
  WebSockets = TRUE
  BotMode = TRUE
  AhdEnabled = TRUE
  GiveUp = {"hangup", "actions"}
  AhdMayFail = TRUE
  MaxRetries = 1
  Scripts <- WsScripts
  MaxCommands = 2
  MaxQueue = 3
INVARIANTS
  WaiterCanBeWoken
  InterruptsReachVerb
  QueueIsCurrentApp
  InviteGetsFinalResponse
  GivesUpOnlyOnWaiting
PROPERTIES
  ReportsCallStatus
  ReleasedSessionEnds
  QueuedVerbsRun
