SPECIFICATION BindingSpec
CONSTANTS
  NumParams = 2
  Dests = {d1, d2}
  Lens = {0, 2, 10}
  WordsPerParameter = 9
  WordsLeft = 3
  None = None
  MaxExecs = 2
SYMMETRY Symmetry
CHECK_DEADLOCK FALSE
INVARIANTS
  FreshBindings
  RowsSent
PROPERTIES
  OutLatest
  NothingUnwritten
