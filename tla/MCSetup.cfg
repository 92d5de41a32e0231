SPECIFICATION Spec
CONSTANTS
  Platforms <- AllPlatforms
  Versions = {1, 2}
  MaxFaults = 3
INVARIANTS
  SkipMeansComplete
  SuccessMeansInstalled
PROPERTY
  RetryHeals
