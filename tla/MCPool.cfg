SPECIFICATION Spec
CONSTANTS
  Clients = {c1, c2, c3}
  DBPs = {d1, d2, d3}
  ConStrs = {s1, s2}
  None = None
  PoolSize = 2
  MaxTimers = 2
  MaxFailed = 2
SYMMETRY Symmetry
CHECK_DEADLOCK FALSE
INVARIANTS
  ListedOnce
  CounterExact
  ExclusiveBelowLimit
  IdleWatched
  ReleaseClosesAll
