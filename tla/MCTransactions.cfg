SPECIFICATION Spec
CONSTANTS
  Conns = {c1, c2}
  Works = {w1, w2, w3}
  None = None
  MaxDb = 2
SYMMETRY Symmetry
CHECK_DEADLOCK FALSE
INVARIANTS
  ModesApart
  ToldTruly
  PendingExplained
  CountsExplained
PROPERTIES
  NoForeignCommit
