SPECIFICATION Spec
CONSTANTS
  None = None
  v1 = v1
  v2 = v2
  Versions <- TwoVersions
  MaxGenerations = 4
  IdleSamples = 1
  MaxSwapFailures = 2
  KeepGenerations = 1
  BindClosure = TRUE
  InitialActive <- OnlyUp
  Seeded = TRUE
  MaxFaults = 2
  MaxCrashes = 2
  MaxOutside = 1
  MaxDeploys = 2
SYMMETRY SymTwo
INVARIANTS
  TypeOK
  UngatedIsRecorded
  RestartsUnderOwnClosure
  UpRunsItsProfile
PROPERTIES
  RestartsAreHeldAndNeeded
  NeverBackToCondemned
