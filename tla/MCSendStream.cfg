SPECIFICATION FairSpec
CONSTANTS
  Capacity = 5
  LO_MSS = 2
  MaxLen = 6
  MaxBytes = 8
INVARIANTS
  TypeOK
  StreamIntact
PROPERTIES
  SendReturns
CHECK_DEADLOCK FALSE
