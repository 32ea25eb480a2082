SPECIFICATION FairSpec
CONSTANTS
  Messages <- MCMessages
  Routes <- MCRoutes
  Settings <- MCCapOfOne
  Queues <- MCQueues
  None = None
  Unroutable = Unroutable
  MaxFailures = 0
PROPERTIES
  DrainRetires
CHECK_DEADLOCK FALSE
