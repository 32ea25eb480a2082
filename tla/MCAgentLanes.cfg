CONSTANTS
  Runs <- MCRuns
  Kind <- MCKind
  SessionLane <- MCSessionLane
  Tasks <- MCTasks
  Lanes <- MCLanes
  Waiters = {}
  ConcurrencyArgs <- MCArgs
  MaxGeneration = 1
SPECIFICATION NestedSpec
INVARIANTS
  OneTurnPerSession
  
PROPERTIES
  AcceptedRunSettles
CHECK_DEADLOCK FALSE
