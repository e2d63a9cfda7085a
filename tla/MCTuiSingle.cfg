SPECIFICATION Spec
CONSTANTS
  NumSlaves = 2
  Rows <- MCRowsTwins
  MaxKeys = 2
INVARIANT
  SingleSlaveShown
CHECK_DEADLOCK FALSE
