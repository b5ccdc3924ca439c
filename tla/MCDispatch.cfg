CONSTANTS
  None = None
  near = near  far = far  window = window  gate = gate
  i1 = i1  i2 = i2  c1 = c1  c2 = c2  c3 = c3
  Agents = {near, far}
  Transport <- MCTransport
  MergeGate = gate
  SelfManaged = {}
  Ids = {i1, i2}
  Conns = {c1, c2}
  Walk = {"in_progress", "submitted"}
  MaxRetries = 2
SPECIFICATION Spec
INVARIANTS
  TypeOK
  NothingHangs
  TakenOnce
PROPERTIES
  FreshWhenHandedOver
  EveryDispatchEnds
CHECK_DEADLOCK FALSE
