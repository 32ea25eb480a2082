CONSTANTS
  Lanes = {main, session}
  Tasks = {t1, t2, t3}
  Waiters = {w1}
  ConcurrencyArgs <- MCArgs
  MaxGeneration = 2
SPECIFICATION Spec
SYMMETRY Interchangeable
INVARIANTS
  TypeOK
  QueueAccounting
  SlotAccounting
  WorkConserving
  DrainedVerdict
PROPERTIES
  LanesAreServers
  ResetPreservesWork
CHECK_DEADLOCK FALSE
