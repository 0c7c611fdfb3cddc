SPECIFICATION FairSpec
CONSTANTS
  c1 = c1
  c2 = c2
  s1 = s1
  s2 = s2
  o1 = o1
  Shops <- MCShops
  ScopeOf <- MCScopeOf
  MaxRunsOf <- MCMaxRunsOf
  Operators <- MCOperators
  Configs <- MCConfigs
  MaxRuns = 2
  MaxEvents = 2
INVARIANTS
  TypeOK
  OneRunRunning
  CompletedRunIsWhole
  ShopHasOneOpenTask
PROPERTIES
  VerdictStands
  QueueDrains
CHECK_DEADLOCK FALSE
