SPECIFICATION Spec
CONSTANTS
  c1 = c1
  c2 = c2
  n1 = n1
  n2 = n2
  n3 = n3
  Channel = {c1, c2}
  Node = {n1, n2, n3}
  Ends <- TwoChannels
  Gossip <- Messages
  Kinds = {"memory", "rocksdb"}
  MaxReceived = 4
  MaxRemovals = 1
  MaxFaults = 1
INVARIANTS
  NothingDangles
  AnnouncedIsLinked
  LastIsHeld
  GraphIsWhole
CHECK_DEADLOCK FALSE
