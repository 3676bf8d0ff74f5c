SPECIFICATION Spec
CONSTANTS
  Capacity = 3
  MaxItems = 30
INVARIANTS
  TypeOK
  RingHolds
PROPERTY ImplementsFifo
CHECK_DEADLOCK FALSE
