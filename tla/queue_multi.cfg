\* Two workers race on the task table.
SPECIFICATION Spec
CONSTANTS
  tb1 = tb1
  w1 = w1
  w2 = w2
  d1 = d1
  c1 = c1
  NoWorker = NoWorker
  Tables = {tb1}
  Workers = {w1, w2}
  Dispatchers = {d1}
  Clerks = {c1}
  MaxTasks = 1
  MaxRetries = 1
  RecoverLimit = 1
  MaxIngests = 1
  MaxCrashes = 1
  MaxCommands = 1
  MaxRecoveries = 1
CHECK_DEADLOCK FALSE
SYMMETRY WorkerSymmetry
INVARIANTS
  RunningIsExecuted
  CompletedCoversCreation
PROPERTIES
  RunningIsReclaimable
  CancelledIsKept
