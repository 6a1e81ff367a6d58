SPECIFICATION FairSpec
CONSTANTS
  c1 = c1
  c2 = c2
  p1 = p1
  p2 = p2
  Channel = {c1, c2}
  Peer = {p1, p2}
  PeerOf <- OnePeer
  Depths = {1, 2}
  Verdicts = {TRUE, FALSE}
  Strays <- BadSignedOrReady
  PeerMayLead = FALSE
  CallsMayFail = FALSE
  MaxHeight = 3
  MaxDrops = 0
  MaxReplies = 1
  MaxStrays = 1
PROPERTY BecomesNormal
CHECK_DEADLOCK FALSE
