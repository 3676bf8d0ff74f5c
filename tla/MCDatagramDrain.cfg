SPECIFICATION Spec
CONSTANTS
  Capacity = 2
  MaxMessages = 8
INVARIANT NeverExhausted
CHECK_DEADLOCK FALSE
