SPECIFICATION Spec
CONSTANTS
  ODBCStmts = {o1, o2, o3}
  Stmts = {s1, s2}
  RowSets = {w1, w2}
  None = None
SYMMETRY Symmetry
CHECK_DEADLOCK FALSE
INVARIANTS
  OwnersHoldLiveHandle
  NoSharedHandle
  LeaksExplained
  StmtCountExact
PROPERTIES
  SuccessLeavesNoStrayCursor
  RowsKeepTheirCursor
  OwnershipSpec
