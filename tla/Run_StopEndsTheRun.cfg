SPECIFICATION HSpec
CONSTANTS
  NumRounds = 2
  MaxRuns = 1
INVARIANT
  StopEndsTheRun
CHECK_DEADLOCK FALSE
