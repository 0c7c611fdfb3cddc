\* Two workers pass the check that nothing runs before either claims.
SPECIFICATION Spec
CONSTANTS
  k1 = k1
  r1 = r1
  r2 = r2
  e1 = e1
  o1 = o1
  Keys <- MCKeys
  Runners <- MCRunners
  Enqueuers <- MCEnqueuers
  Operators <- MCOperators
  MaxTasks = 2
  MaxIngests = 1
  MaxTriggers = 2
  MaxCrashes = 0
  MaxSlow = 0
  MaxRetries = 0
CHECK_DEADLOCK FALSE
INVARIANTS
  OneRefreshRunning
