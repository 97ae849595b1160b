SPECIFICATION Spec
CONSTANTS
  WebSockets = TRUE
  BotMode = FALSE
  AhdEnabled = FALSE
  GiveUp = {"hangup"}
  AhdMayFail = FALSE
  MaxRetries = 1
  Scripts <- WsScripts
  MaxCommands = 1
  MaxQueue = 3
INVARIANTS
  NoStaleVerb
