SPECIFICATION Spec
CONSTANTS
  Capacity = 3
  MaxMessages = 6
INVARIANTS
  TypeOK
  RestsWellFormed
PROPERTY LoadsImplementFifo
CHECK_DEADLOCK FALSE
