SPECIFICATION FairSpec
CONSTANTS
  Standard = Standard
  Legacy = Legacy
  None = None
  Peers = {Standard, Legacy, None}
  Style <- OfEachKind
  ChunkSize = 1
  Target = 1
  MaxPart = 1
  MaxChannels = 2
  MaxConnections = 3
INVARIANTS
  OneSync
  RelayFollows
  AllAsked
  EnabledWhenSynced
PROPERTY SyncEnds
CHECK_DEADLOCK FALSE
