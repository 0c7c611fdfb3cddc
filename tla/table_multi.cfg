\* Two executions of sync_table at once: nothing is skipped, deliveries hold.
SPECIFICATION Spec
CONSTANTS
  k1 = k1
  k2 = k2
  w1 = w1
  w2 = w2
  i1 = i1
  Keys = {k1, k2}
  Workers = {w1, w2}
  Ingesters = {i1}
  BatchSize = 1
  MaxStamps = 3
  MaxRepairs = 1
SYMMETRY RowAndWorkerSymmetry
CHECK_DEADLOCK FALSE
INVARIANTS
  NoSkippedRow
  CompletedDelivers
PROPERTIES
  ImplementsMirror
