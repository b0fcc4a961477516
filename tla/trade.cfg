SPECIFICATION EachSpec
CONSTANTS
  o1 = o1
  Reqs = {o1}
  Intents <- TimedTaker
  Faults = {"ws_loss", "reject", "watch_expire", "db"}
  Api = {}
  PollTries = 2
  BailoutTries = 2
  AckGates = TRUE
  SlowTimers = FALSE
  Requests = {r1, r2}
  MaxConns = 2
  Closes = TRUE
INVARIANTS ReadyIsAuthenticated NoSendOnClosed WatchedPosition OutcomeCompletesUnfilled
PROPERTY DropWakes
CHECK_DEADLOCK FALSE
