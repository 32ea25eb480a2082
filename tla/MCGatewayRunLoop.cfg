CONSTANTS
  Lanes = {main}
  Tasks = {t1, t2}
  Waiters = {}
  ConcurrencyArgs <- MCArgs
  MaxGeneration = 2
  MaxSchedules = 2
SPECIFICATION FairLoopSpec
INVARIANTS
  LoopTypeOK
  
  SlotsOfThisLifecycle
  DrainingEnds
  ServesLocked
PROPERTIES
  StopEnds
  RestartTurnsLoop
  ScheduledRestartFires
CHECK_DEADLOCK FALSE
