SPECIFICATION HFairSpec
CONSTANTS
  NumRounds = 3
  MaxRuns = 2
CHECK_DEADLOCK FALSE
INVARIANTS
  FreeMeansSettled
  StatusTellsTheTruth
  NoShockLost
PROPERTIES
  RunEnds
