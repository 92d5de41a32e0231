SPECIFICATION ParamSpec
CONSTANTS
  ParamTypes <- MCParamTypes
  DestTypes <- GoTypes
  Strings <- MCStrings
  CharTexts <- MCCharTexts
  WideTexts <- MCWideTexts
  Binaries <- MCBinaries
  IntNumerals <- MCNumerals
  FloatNumerals <- MCNumerals
  MaxElements = 5
INVARIANTS
  StringsArrive
  OutExact
CHECK_DEADLOCK FALSE
