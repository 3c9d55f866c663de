SPECIFICATION FairSpec
CONSTANTS
  None = None
  d1 = d1
  d2 = d2
  d3 = d3
  Images <- ThreeImages
  IdleSamples = 2
  MaxSwapFailures = 2
  MaxFaults = 2
  MaxCrashes = 1
  MaxMoves = 2
INVARIANTS
  TypeOK
  GatedContainerSurvives
  NothingUngatedIsLeft
PROPERTIES
  StandsUpWhatItAskedFor
  KeepsTheProven
  Converges
