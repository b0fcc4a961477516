SPECIFICATION FairSpec
CONSTANTS
  c1 = c1
  c2 = c2
  Configs <- NoCommits
  Callers = {c1, c2}
  MaxWorkers = 1
  MaxVersion = 3
  Batch = 2
  InboxCap = 2
  StageMax = 2
  StageKeep = 1
  CommitSize = 2
  Faults = {"rest", "loss", "ctx"}
PROPERTIES FetchEnds CallsReturn
CHECK_DEADLOCK FALSE
