SPECIFICATION Spec
CONSTANTS
  Events = {1}
  Arms <- SmallArms
  r1 = r1
  r2 = r2
  t1 = t1
  t2 = t2
  Setups <- SmallSetups
  Blocks = {b1, b2}
  Versions = {0, 1}
  NoDefaults = NoDefaults
  Idle = Idle
  Absent = Absent
  Torn = Torn
SYMMETRY Symmetry
CHECK_DEADLOCK FALSE
INVARIANTS
  ReportedIsComplete
  ScoredRunsComparable
PROPERTIES
  ResultsLast
