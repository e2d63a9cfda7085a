SPECIFICATION Spec
CONSTANTS
  Capture <- MCCapture
  ConfigFiles <- MCConfigFiles
  MaxSlaves = 2
INVARIANT
  OnlyCorrectWorkingCount
CHECK_DEADLOCK FALSE
