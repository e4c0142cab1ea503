SPECIFICATION Spec
CONSTANTS
  Callers = {p1, p2}
  MaxInFlight = 2
  MaxRetries = 1
  Cap = 2
  MaxCost = 1
  MaxCalls = 1
INVARIANT DowngradeSavesTheCall
CHECK_DEADLOCK FALSE
