SPECIFICATION FairSpec
CONSTANTS
  RotateAt = 3
  HighWater = 2
  Dialed <- AnyKey
  MaxMessages = 4
INVARIANTS
  ReadyIsAuthentic
  NonceIsFresh
  OnlyCrossingRotationsFail
PROPERTY WrittenIsRead
CHECK_DEADLOCK FALSE
