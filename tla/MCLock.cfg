CONSTANTS
  None = None
  p1 = p1  p2 = p2  p3 = p3  p4 = p4
  s1 = s1  s2 = s2  w1 = w1  w2 = w2
  Procs = {p1, p2, p3, p4}
  PidOf <- OwnPid
  Tokens = {1, 2}
  Sessions = {}
  Windows = {}
  WindowOf <- OneEach
SYMMETRY Interchangeable
SPECIFICATION Spec
INVARIANTS
  TypeOK
  MutualExclusion
  OwnershipNeverLost
  RemovesOnlyTheDead
  LeftoversAreRecovered
CHECK_DEADLOCK FALSE
