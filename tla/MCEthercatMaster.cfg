SPECIFICATION FairSpec
CONSTANTS
  Bus <- MCBus
  NumRetries = 2
  UIntMod = 8
  MaxImage = 3
INVARIANTS
  TypeOK
  PublishedWhole
  LiveSocket
  NoThreadLeftBehind
PROPERTIES
  StopReleases
  ImplementsDataSource
  StopReturns
  StartReturns
