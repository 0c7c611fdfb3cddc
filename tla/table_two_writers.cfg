\* Two executions of sync_table on the same table.
SPECIFICATION Spec
CONSTANTS
  k1 = k1
  k2 = k2
  w1 = w1
  w2 = w2
  i1 = i1
  Keys = {k1, k2}
  Workers = {w1, w2}
  Ingesters = {i1}
  BatchSize = 1
  MaxStamps = 3
  MaxRepairs = 0
CHECK_DEADLOCK FALSE
INVARIANTS
  QuietIsCurrent
