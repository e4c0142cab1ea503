SPECIFICATION Spec
CONSTANTS
  Positions <- MCPositions
  Unit = 2
  None = None
  NoTokens = NoTokens
  NoTicker = NoTicker
  NoUrl = NoUrl
  Nothing = Nothing
INVARIANTS
  MeasuresAgree
  StatsMatchDefinitions
  NoLookAhead
  AnswersAreKept
  CallsAgree
  InputsAreGrounded
  FailuresKeepTheirCause
CHECK_DEADLOCK FALSE
