SPECIFICATION DataSpec
CONSTANTS
  Lengths = {0, 1, 2, 1022, 1023, 1024, 1025, 1026, 2044, 2046, 2047, 2048, 2049,
             32767, 32768, 33791, 40000, 65534, 65535, 65536, 66558, 66559, 66560, 132094}
  MaxNoTotal = 70
CHECK_DEADLOCK FALSE
INVARIANTS
  AssembledExactly
  NilExplained
PROPERTY
  ReadEnds
