SPECIFICATION MCSpec
CONSTANTS
  q1 = q1
  q2 = q2
  Requests = {q1, q2}
  Run = Run
  Tasks <- MCTasks
  Old = Old
  NoFile = NoFile
  Nothing = Nothing
  Urls = {"u1", "u2"}
  Empty = Empty
  Torn = Torn
  Default <- MCDefault
  First <- MCFirst
  Updates <- MCUpdates
  Models = {"orchestrator", "worker"}
  MaxCrashes = 1
SYMMETRY Symmetry
CHECK_DEADLOCK FALSE
INVARIANTS
  KeysStayWithEndpoint
  ProvidersOwned
  ConfigIsCurrent
  RoundsHoldOneModel
