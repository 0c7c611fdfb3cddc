\* One execution at a time, failing between checkpoint and projection.
SPECIFICATION Spec
CONSTANTS
  k1 = k1
  w1 = w1
  i1 = i1
  Keys = {k1}
  Workers = {w1}
  Ingesters = {i1}
  BatchSize = 1
  MaxStamps = 3
  MaxRepairs = 0
CHECK_DEADLOCK FALSE
INVARIANTS
  SuccessIsProjected
