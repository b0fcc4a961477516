SPECIFICATION Spec
CONSTANTS
  c1 = c1
  Configs <- AllConfigs
  Callers = {c1}
  MaxWorkers = 1
  MaxVersion = 5
  Batch = 2
  InboxCap = 2
  StageMax = 2
  StageKeep = 1
  CommitSize = 2
  Faults = {"loss", "resend", "rest"}
INVARIANTS AwaitsOneAnswer OnlyMissedAreMissing
PROPERTIES VersionNeverFallsBack CommitsBridge
CHECK_DEADLOCK FALSE
