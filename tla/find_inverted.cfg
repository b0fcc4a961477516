SPECIFICATION FairSpec
CONSTANTS
  Subjects <- Unguarded
  Vol = 2
  PollTries = 2
  BailTries = 3
  MaxFaults = 1
INVARIANT NeverInverted
CHECK_DEADLOCK FALSE
