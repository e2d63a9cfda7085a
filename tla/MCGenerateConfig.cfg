SPECIFICATION FairSpec
CONSTANTS
  Bus <- MCBus
  EC_MAXSM = 4
  MaxLost = 2
INVARIANTS
  TypeOK
  CompleteWhenAnswered
  NeverShifted
  SnifferReadsOwnPdos
PROPERTY
  Finishes
CHECK_DEADLOCK FALSE
