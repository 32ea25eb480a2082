CONSTANTS
  Lanes = {main}
  Tasks = {t1, t2}
  Waiters = {}
  ConcurrencyArgs <- MCArgs
  MaxGeneration = 2
  MaxSchedules = 2
SPECIFICATION LoopSpec
INVARIANT ServesLockedAlways
CHECK_DEADLOCK FALSE
