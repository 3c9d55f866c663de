SPECIFICATION NeededSpec
CONSTANTS
  None = None
  unit = unit
  container = container
  SourceWorkloads <- OneEach
  LooksAgain = {unit}
  IdleSamples = 2
  FaultyCalls = {"clear"}
  Vacating = {unit}
  MaxFaults = 1
  MaxChanges = 1
  MaxUpdates = 1
INVARIANTS
  TypeOK
  LeavesNoStatus
  StatusSaysSwapping
PROPERTIES
  RebootSparesPlayers
  RebootWaitsForDebounce
