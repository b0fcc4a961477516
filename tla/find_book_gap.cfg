SPECIFICATION Spec
CONSTANTS
  Configs <- StrictConfigs
  Callers = {}
  MaxWorkers = 1
  MaxVersion = 4
  Batch = 2
  InboxCap = 2
  StageMax = 2
  StageKeep = 1
  CommitSize = 2
  Faults = {"lag"}
INVARIANTS ReadyIsExact
CHECK_DEADLOCK FALSE
