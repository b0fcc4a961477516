SPECIFICATION EachSpec
CONSTANTS
  Callers = {"a", "b"}
  Streams = {"s1", "s2", "s3"}
  Follows <- MCFollows
  MaxPairs = 2
  MaxCalls = 2
  MaxLosses = 1
  Cancels = {"b"}
  Skews <- MCSkews
  Error = 2
  Target = 20
  SpinLead = 3
  MaxClock = 30
  Times <- MCTimes
  WindowLead = 2
  Trailing = 2
  MaxNow = 12
  MaxTargets = 3
  Percent = 100
INVARIANTS CapacityKept RoutedIsStreamed OffsetIsClose CollectorOff
PROPERTIES CallsReturn StreamsResume NotEarly Fires CollectorReturns
CHECK_DEADLOCK FALSE
