SPECIFICATION Spec
CONSTANTS
  Clients = {c1, c2, c3}
  DBPs = {d1, d2, d3}
  None = None
  PoolSize = 3
  MaxArrays = 4
CHECK_DEADLOCK FALSE
INVARIANTS
  ReleaseClosesAll
