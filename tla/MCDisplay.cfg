SPECIFICATION FairSpec
CONSTANTS
  SlaveLists <- MCSlaveLists
  Word <- MCWord
  MaxPackets = 2
  MaxQueue = 2
INVARIANTS
  TypeOK
  OneNameOneMember
  TooltipTellsValue
  SettledIsLastPacket
PROPERTIES
  NeverBackwards
  CallbacksAreShown
CHECK_DEADLOCK FALSE
