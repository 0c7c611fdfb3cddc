\* One execution at a time, one ingester: freshness and termination.
SPECIFICATION FairSpec
CONSTANTS
  k1 = k1
  k2 = k2
  k3 = k3
  w1 = w1
  i1 = i1
  Keys = {k1, k2, k3}
  Workers = {w1}
  Ingesters = {i1}
  BatchSize = 2
  MaxStamps = 3
  MaxRepairs = 1
CHECK_DEADLOCK FALSE
INVARIANTS
  TypeOK
  CheckpointFresh
  CaughtUpIsCurrent
PROPERTIES
  OnlyRepairRegresses
  SyncTerminates
