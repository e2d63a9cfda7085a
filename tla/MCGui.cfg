SPECIFICATION Spec
CONSTANTS
  SlaveLists <- MCSlaveLists
  MaxData = 3
  MaxQueue = 2
  MaxDiscover = 2
INVARIANTS
  TypeOK
  StartHasSource
  RunsOnlyUnderStop
  ZmqMatchesCheckbox
  MisfitsAreLate
  LastCallbackShown
CHECK_DEADLOCK FALSE
