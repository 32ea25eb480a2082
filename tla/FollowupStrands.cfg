SPECIFICATION FairSpec
CONSTANTS
  Messages <- MCMessages
  Routes <- MCRoutes
  Settings <- MCSettings
  Queues <- MCQueues
  None = None
  Unroutable = Unroutable
  MaxFailures = 0
PROPERTIES
  EveryFollowupRuns
CHECK_DEADLOCK FALSE
