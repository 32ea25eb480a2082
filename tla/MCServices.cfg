SPECIFICATION Spec
CONSTANTS
  Gateways = {g1, g2}
  Supervised = {g1}
  NobodyYet = nobodyyet
  NoLongerAlive = nolongeralive
  MaxFaults = 2
  Messages <- MCMessages
  Passes = {r1}
  NoEntry = noentry
  MaxRetries = 1
  MaxCrashes = 1
  Runners <- MCRunners
  Sessions = {s}
  Untargeted = main
  Firings = {f1, f2}
  Requests = {q1, q2}
  Ids = {i1}
  Nobody = nobody
  MaxRuns = 2
  Jobs = {recurring, oneshot}
  OneShots = {oneshot}
  MaxServices = 2
  MaxImmediate = 1
  MaxLoad = 2
  Removed = Removed
  p = p
  c = c
  Subagents = {p, c}
  ParentOf <- MCParentOf
  Deleting = {c}
  Embedded = {p}
  Gone = gone
  MaxTries = 2
  MaxTroubles = 1
INVARIANTS
  ServicesTypeOK
  NothingLost
  WakeKept
  WakeNotStalled
  OneDecision
  
  
  AnnouncedOnce
PROPERTIES
  
  ClosedIsFinal
  NotWhileSteered
  NoLockOut
  QueueDrains
  HeartbeatGoesOn
  RequestsAnswered
  JobGoesOn
  EveryRunSettles
CHECK_DEADLOCK FALSE
