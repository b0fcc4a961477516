SPECIFICATION Spec
CONSTANTS
  Subjects <- Binance
  Vol = 2
  PollTries = 2
  BailTries = 3
  MaxFaults = 0
INVARIANT EndedUnfilled
CHECK_DEADLOCK FALSE
