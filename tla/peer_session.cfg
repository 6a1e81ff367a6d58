SPECIFICATION FairSpec
CONSTANTS
  PingInterval = 4
  PongTimeout = 1
  FloodThreshold = 2
  ReconnectTimeout = 1
  HighWater = 1
  MaxUnread = 2
INVARIANT SilenceIsBounded
PROPERTIES
  LostIsRetried
  IsSession
CHECK_DEADLOCK FALSE
