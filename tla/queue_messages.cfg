SPECIFICATION FairSpec
CONSTANTS
  Default = Default
  Larger = Larger
  Peers = {Default, Larger}
  HighWater <- HighWaters
  Sends <- Kinds
  MayThrow = TRUE
  MaxConnections = 1
  MaxMessages = 2
  MaxBlocks = 1
INVARIANTS
  NoLostWakeup
  ReadyFirst
PROPERTY MessagesHandled
CHECK_DEADLOCK FALSE
