SPECIFICATION Spec
CONSTANTS
  c1 = c1
  c2 = c2
  p1 = p1
  p2 = p2
  Channel = {c1, c2}
  Peer = {p1, p2}
  PeerOf <- TwoPeers
  Depths = {3}
  Verdicts = {TRUE, FALSE}
  Strays <- BadSignedOrReady
  PeerMayLead = TRUE
  CallsMayFail = TRUE
  MaxHeight = 3
  MaxDrops = 1
  MaxReplies = 1
  MaxStrays = 1
SYMMETRY Swaps
INVARIANTS
  BroadcastIsStored
  ReadyIsDeep
  StoredUpToReady
PROPERTY DeadStaysDead
CHECK_DEADLOCK FALSE
