SPECIFICATION FairSpec
CONSTANTS
  Subjects <- Guarded
  Vol = 2
  PollTries = 2
  BailTries = 3
  MaxFaults = 1
INVARIANTS OutcomeNotOverstated BailedOutIsFlat
PROPERTIES EntryOpensItsLeg ClosesNeverOpen ExitsFitTheirLeg BailoutEmpties
CHECK_DEADLOCK FALSE
