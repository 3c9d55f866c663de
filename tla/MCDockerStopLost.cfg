SPECIFICATION Spec
CONSTANTS
  None = None
  d1 = d1
  d2 = d2
  d3 = d3
  Images <- TwoImages
  IdleSamples = 1
  MaxSwapFailures = 2
  MaxFaults = 1
  MaxCrashes = 0
  MaxMoves = 2
INVARIANTS
  FailedSwapLeavesRunning
