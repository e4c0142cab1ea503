SPECIFICATION StoreSpec
CONSTANTS
  a1 = a1
  a2 = a2
  a3 = a3
  Agents <- MCAgents
  BracketOf <- MCBracketOf
  Setups <- MCSetups
  Positions <- MCPositions
  AbortPercent = 40
  ControlPercent = 20
  Knobs <- MCKnobs
  MaxNamed = 1
SYMMETRY Symmetry
CHECK_DEADLOCK FALSE
INVARIANTS
  ReadsAgreeWithRun
  RoundsAreWhole
  CitationsHold
  NothingStranded
