CONSTANTS
  d1 = d1  d2 = d2  g1 = g1  g2 = g2  w1 = w1  w2 = w2  a = a  b = b
  DMs = {d1, d2}
  Posts = {g1, g2}
  Wakes = {w1, w2}
  SenderOf <- OneSender
  Passes = {a, b}
  MaxInbox = 2
  ForceOnExpiry = TRUE
  Bounds <- Worlds
SPECIFICATION Spec
INVARIANT
  OneTyperAtATime
CHECK_DEADLOCK FALSE
