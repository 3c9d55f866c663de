SPECIFICATION FairSpec
CONSTANTS
  None = None
  v1 = v1
  v2 = v2
  Versions <- TwoVersions
  MaxGenerations = 4
  IdleSamples = 1
  MaxSwapFailures = 2
  KeepGenerations = 1
  BindClosure = TRUE
  InitialActive <- OnlyUp
  Seeded = TRUE
  MaxFaults = 1
  MaxCrashes = 0
  MaxOutside = 0
  MaxDeploys = 2
PROPERTIES
  SwapResolved
