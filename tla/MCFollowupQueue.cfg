SPECIFICATION FairSpec
CONSTANTS
  Messages <- MCMessages
  Routes <- MCRoutes
  Settings <- MCSettings
  Queues <- MCQueues
  None = None
  Unroutable = Unroutable
  MaxFailures = 1
INVARIANTS
  
  AnsweredOnce
  OnlyOverflowLoses
PROPERTIES
  HandedInOrder
  
CHECK_DEADLOCK FALSE
