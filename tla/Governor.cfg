SPECIFICATION HFairSpec
CONSTANTS
  Agents = {a1, a2}
  Baseline = 1
  MaxParallel = 2
  Step = 1
  Window = 2
  FailPercent = 50
  RegrowSuccesses = 2
  ScaleUpChecks = 2
  CrisisTimeout = 1
  MaxDebt = 1
INVARIANTS
  SlotsKept
  CrashNeverSilent
PROPERTIES
  StepsEarned
  EveryWaitEnds
  ImplementsSlotLimiter
