SPECIFICATION FairSpec
CONSTANTS
  k1 = k1
  r1 = r1
  r2 = r2
  e1 = e1
  o1 = o1
  Keys <- MCKeys
  Runners <- MCRunners
  Enqueuers <- MCEnqueuers
  Operators <- MCOperators
  MaxTasks = 2
  MaxIngests = 1
  MaxTriggers = 2
  MaxCrashes = 1
  MaxSlow = 1
  MaxRetries = 1
INVARIANTS
  TypeOK
  CompletedIsFresh
PROPERTIES
  FreshNeverRegresses
  OpenRowsEnd
