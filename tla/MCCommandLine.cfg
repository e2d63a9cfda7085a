SPECIFICATION FairSpec
CONSTANTS
  Argvs <- MCArgvs
  Interfaces <- MCInterfaces
INVARIANTS
  TypeOK
  LastValueCounts
  StartedIsComplete
PROPERTY Decides
CHECK_DEADLOCK FALSE
