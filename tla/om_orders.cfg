SPECIFICATION Spec
CONSTANTS
  r1 = r1
  Reqs = {r1}
  Intents <- AllOrders
  Faults = {"snapshot", "rest_read", "rest_write", "reject", "submit_ambiguous", "partial_cancel", "ws_loss", "db"}
  Api = {"redispatch"}
  PollTries = 2
  BailoutTries = 1
  AckGates = TRUE
  SlowTimers = TRUE
INVARIANT FilledIsGuarded
PROPERTIES NoSubmitAfterEnd KeepsPromise
CHECK_DEADLOCK FALSE
