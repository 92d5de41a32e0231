SPECIFICATION Spec
CONSTANTS
  Clients = {k1, k2}
  Conns = {c1, c2}
  None = None
  Batches <- MCBatches
  MaxCalls = 1
  MaxLosses = 2
INVARIANTS
  AppliedOnce
  CountExact
  LastInsertIdOwn
PROPERTY
  ExecReturns
CHECK_DEADLOCK FALSE
