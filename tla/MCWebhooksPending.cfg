SPECIFICATION FairSpec
CONSTANTS
  a = a
  b = b
  d1 = d1
  d2 = d2
  w1 = w1
  w2 = w2
  k1 = k1
  k2 = k2
  Sites = {a, b}
  Peer <- MCPeer
  Cascades = {}
  Deliveries = {d1, d2}
  Workers = {w1}
  Ticks = {k1, k2}
  None = None
  MaxAttempts = 2
  DisableAfter = 2
PROPERTIES PendingPickedUp
CHECK_DEADLOCK FALSE
