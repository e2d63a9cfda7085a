SPECIFICATION Spec
CONSTANTS
  Bus <- MCBus
  EC_MAXSM = 4
  MaxLost = 2
INVARIANT
  OffsetsAreStarts
CHECK_DEADLOCK FALSE
