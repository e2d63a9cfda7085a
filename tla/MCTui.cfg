SPECIFICATION FairSpec
CONSTANTS
  NumSlaves = 2
  Rows <- MCRowsMixed
  MaxKeys = 3
INVARIANTS
  TypeOK
  UndisturbedFrame
  WindowsOutliveCallbacks
PROPERTY
  QuitEnds
CHECK_DEADLOCK FALSE
