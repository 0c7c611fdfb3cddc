\* Two ingesters stamp the same table and commit in either order.
SPECIFICATION Spec
CONSTANTS
  k1 = k1
  k2 = k2
  w1 = w1
  i1 = i1
  i2 = i2
  Keys = {k1, k2}
  Workers = {w1}
  Ingesters = {i1, i2}
  BatchSize = 1
  MaxStamps = 3
  MaxRepairs = 0
CHECK_DEADLOCK FALSE
INVARIANTS
  NoSkippedRow
