SPECIFICATION Spec
CONSTANTS
  Bus <- MCBus
  NumRetries = 1
  UIntMod = 8
  MaxImage = 3
INVARIANT
  OnlyReceivedDataPublished
