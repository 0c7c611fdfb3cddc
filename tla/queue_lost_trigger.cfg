\* An event is coalesced into a task whose sync has read for the last time.
SPECIFICATION Spec
CONSTANTS
  tb1 = tb1
  w1 = w1
  d1 = d1
  c1 = c1
  NoWorker = NoWorker
  Tables = {tb1}
  Workers = {w1}
  Dispatchers = {d1}
  Clerks = {c1}
  MaxTasks = 2
  MaxRetries = 1
  RecoverLimit = 1
  MaxIngests = 2
  MaxCrashes = 0
  MaxCommands = 0
  MaxRecoveries = 0
CHECK_DEADLOCK FALSE
INVARIANTS
  BacklogHasTask
