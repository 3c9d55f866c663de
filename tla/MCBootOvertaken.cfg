SPECIFICATION BootSpec
CONSTANTS
  None = None
  v1 = v1
  v2 = v2
  Versions <- TwoVersions
  FirstVersions <- JustV1
  MaxGenerations = 4
  IdleSamples = 1
  MaxSwapFailures = 2
  KeepGenerations = 1
  BindClosure = TRUE
  InitialActive <- Inactive
  Seeded = TRUE
  MaxFaults = 0
  MaxCrashes = 0
  MaxOutside = 0
  MaxDeploys = 0
INVARIANTS
  UpRunsItsProfile
