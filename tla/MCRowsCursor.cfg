SPECIFICATION Spec
CONSTANTS
  FetchSizes = {1, 2}
  MaxRows = 3
  MaxSets = 2
CHECK_DEADLOCK FALSE
INVARIANTS
  RowsInOrder
  CompleteAtEOF
  RowsetInBuffer
  PanicExplained
