SPECIFICATION FairSpec
CONSTANTS
  Callers = {p1, p2}
  MaxInFlight = 2
  MaxRetries = 1
  Cap = 2
  MaxCost = 1
  MaxCalls = 2
CHECK_DEADLOCK FALSE
INVARIANTS
  CapHolds
  RefusalsAreBounded
PROPERTIES
  EveryCallEnds
