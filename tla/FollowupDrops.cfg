SPECIFICATION Spec
CONSTANTS
  Messages <- MCMessages
  Routes <- MCRoutes
  Settings <- MCSettings
  Queues <- MCQueues
  None = None
  Unroutable = Unroutable
  MaxFailures = 0
INVARIANT
  DroppedAreAnnounced
CHECK_DEADLOCK FALSE
