CONSTANTS
  None = None
  p1 = p1  p2 = p2  p3 = p3  p4 = p4
  s1 = s1  s2 = s2  w1 = w1  w2 = w2
  Procs = {p1, p2, p4}
  PidOf <- ReusedPid
  Tokens = {1, 2}
  Sessions = {s1, s2}
  Windows = {w1, w2}
  WindowOf <- OneEach
SPECIFICATION Spec
PROPERTY
  RecordIsAtomic
CHECK_DEADLOCK FALSE
