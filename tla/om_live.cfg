SPECIFICATION FairSpec
CONSTANTS
  r1 = r1
  Reqs = {r1}
  Intents <- TakerAndMaker
  Faults = {"rest_read", "rest_write", "reject", "partial_cancel", "ws_loss"}
  Api = {}
  PollTries = 1
  BailoutTries = 2
  AckGates = TRUE
  SlowTimers = FALSE
PROPERTIES TimedOrderEnds UnfilledMakerEnds CompletedIsSaved
CHECK_DEADLOCK FALSE
