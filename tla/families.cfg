SPECIFICATION FairSpec
CONSTANTS
  MaxRuns = 3
  Roots = {1}
  MaxAttempts = 2
  MaxRunningAttempts = 1
  BootTimeKnown = FALSE
  Configs <- MCConfigs
INVARIANTS
  TypeOK
  ChildrenShareItsFate
  OnlyWaitersExceedTheCap
PROPERTIES
  FamiliesWindDown
  WaitsEnd
CHECK_DEADLOCK FALSE
