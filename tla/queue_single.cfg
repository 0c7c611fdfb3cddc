\* One worker, two dispatchers: retries, crashes, leases, admin commands.
SPECIFICATION FairSpec
CONSTANTS
  tb1 = tb1
  w1 = w1
  d1 = d1
  d2 = d2
  c1 = c1
  NoWorker = NoWorker
  Tables = {tb1}
  Workers = {w1}
  Dispatchers = {d1, d2}
  Clerks = {c1}
  MaxTasks = 2
  MaxRetries = 1
  RecoverLimit = 1
  MaxIngests = 2
  MaxCrashes = 1
  MaxCommands = 1
  MaxRecoveries = 1
CHECK_DEADLOCK FALSE
INVARIANTS
  TypeOK
  BudgetRespected
PROPERTIES
  TasksSettle
