SPECIFICATION Spec
CONSTANTS
  r1 = r1
  Reqs = {r1}
  Intents <- MixedIntents
  Faults = {"rest_write", "submit_ambiguous", "watch_expire"}
  Api = {"redispatch", "cancel", "cancelOpen", "trail"}
  PollTries = 1
  BailoutTries = 1
  AckGates = TRUE
  SlowTimers = TRUE
INVARIANTS AtMostOneSubmission CompletedOnce RecordedFillIsReal
CHECK_DEADLOCK FALSE
