SPECIFICATION FairSpec
CONSTANTS
  None = None
  unit = unit
  container = container
  SourceWorkloads <- JustOne
  LooksAgain = {unit}
  IdleSamples = 1
  FaultyCalls <- AnyCall
  Vacating = {unit}
  MaxFaults = 1
  MaxChanges = 0
  MaxUpdates = 1
PROPERTIES
  TickNeverWaits
  StopEnds
  RebootHappens
