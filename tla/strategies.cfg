SPECIFICATION EachSpec
CONSTANTS
  Targets = {"main", "sub"}
  Scanners = {"configured", "schedule"}
  Stream <- MCStream
  Scope <- MCScope
  Rates <- MCRates
  MinRate = 2
  Rounds = 1
  MaxTicks = 2
  QuoteTicks = 4
  MaxSlips = 1
  Sides = {"bid"}
  Prices = {1, 2}
  Shows <- MCShows
  MinLifespan = 1
  Cooldown = 1
  Second = 2
  MaxTime = 3
  MaxRotations = 1
  MaxFaults = 1
INVARIANTS OneCandidate TimersKept ExposureBounded
PROPERTIES EachEnds EndsInItsRow
CHECK_DEADLOCK FALSE
