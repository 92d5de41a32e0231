SPECIFICATION ColumnSpec
CONSTANTS
  Columns <- MCColumns
  CharTexts <- MCCharTexts
  WideTexts <- MCWideTexts
  Binaries <- MCBinaries
  MaxElements = 2
  Int16Range = 8
  FirstBuffer = 4
  FetchSize = 2
  MaxFetches = 2
INVARIANTS
  NextExact
  BatchExact
PROPERTY
  ReadStays
CHECK_DEADLOCK FALSE
