SPECIFICATION Spec
CONSTANTS
  Capacity = 3
  MaxLen = 4
  MaxBytes = 9
INVARIANTS
  TypeOK
  RingShape
  Contents
  StaysInBuffer
PROPERTY ImplementsFifo
CHECK_DEADLOCK FALSE
