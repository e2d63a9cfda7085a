SPECIFICATION FairSpec
CONSTANTS
  Capture <- MCCapture
  ConfigFiles <- MCConfigFiles
  MaxSlaves = 2
INVARIANTS
  TypeOK
  NoThreadLeftBehind
  AllOfTheFile
PROPERTIES
  ImplementsDataSource
  StopReturns
  FilePlaysToItsEnd
  FileDeleteReturns
CHECK_DEADLOCK FALSE
