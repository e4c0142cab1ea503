SPECIFICATION WFairSpec
CONSTANTS
  NumRounds = 2
  MaxRuns = 2
  Viewers = {q1, q2}
CHECK_DEADLOCK FALSE
INVARIANTS
  OrchestratorIsGuarded
  RunsAreAlone
PROPERTIES
  ReportFollowsRun
