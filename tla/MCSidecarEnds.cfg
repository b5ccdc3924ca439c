CONSTANTS
  d1 = d1  d2 = d2  g1 = g1  g2 = g2  w1 = w1  w2 = w2  a = a  b = b
  DMs = {d1, d2}
  Posts = {}
  Wakes = {}
  SenderOf <- OneSender
  Passes = {a, b}
  MaxInbox = 2
  ForceOnExpiry = TRUE
  Bounds <- Endings
SPECIFICATION FairSpec
PROPERTIES
  EveryDmEnds
CHECK_DEADLOCK FALSE
