CONSTANTS
  Runs <- MCRuns
  Kind <- MCKind
  SessionLane <- MCSessionLane
  Tasks <- MCTasks
  Lanes <- MCLanes
  Waiters = {}
  ConcurrencyArgs <- MCArgs
  MaxGeneration = 1
SPECIFICATION NestedSpec
PROPERTIES
  WaitingRunSurvivesDrain
CHECK_DEADLOCK FALSE
