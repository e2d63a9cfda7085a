SPECIFICATION Spec
CONSTANTS
  SlaveLists <- MCSlaveLists
  MaxData = 3
  MaxQueue = 2
  MaxDiscover = 2
INVARIANT
  AllDataShown
CHECK_DEADLOCK FALSE
