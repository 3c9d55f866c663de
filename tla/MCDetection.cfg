SPECIFICATION FairSpec
CONSTANTS
  None = None
  client = client
  Clients = {client}
  Settings <- AllDetectors
  Threshold = 1
  IdleSamples = 2
  PassWaits = {1}
  TickWaits = {0, 1}
  MaxArrivals = 2
  MaxBytes = 2
  MaxRestarts = 1
  MaxFaults = 1
  MaxTicks = 1
INVARIANTS
  TypeOK
PROPERTIES
  UpdatesAfterTheDebounce
  QuietIsUpdated
