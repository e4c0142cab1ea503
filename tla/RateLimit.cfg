SPECIFICATION HFairSpec
CONSTANTS
  Callers = {c1, c2, c3}
  MaxInFlight = 2
  MinInFlight = 1
  RpmCap = 1
  RpmRate = 1
  TpmCap = 1
  TpmRate = 1
  AvgTokens = 1
  Costs = {0, 2}
  Cooldowns = {0, 2}
  MaxRetries = 1
  Calls = 1
INVARIANTS
  PermitsConserved
  QuotasKept
PROPERTIES
  ServedAfterCooldown
  ImplementsSlotLimiter
