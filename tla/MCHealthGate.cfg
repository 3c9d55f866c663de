SPECIFICATION FairSpec
CONSTANTS
  Poll = 2
  Slow = 1
  Settings <- AllKinds
  MaxChanges = 3
  MaxFaults = 2
INVARIANTS
  TypeOK
PROPERTIES
  RollsBackOnEvidence
  NeverServedNeverCommitted
  EarlyCommitHasBeenUp
  WrongAddressIsCaught
  GateReturns
CHECK_DEADLOCK FALSE
