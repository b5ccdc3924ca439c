CONSTANTS
  None = None
  ann = ann  ben = ben  gate = gate  o1 = o1  o2 = o2
  MergeGate = ann
  SelfManaged = {}
  Orders = {o1, o2}
  Agents = {ann, ben}
  Starts = {"in_progress"}
  Walk = {"in_progress", "submitted", "auditing"}
  ClaimIdle = 1
  ProgressIdle = 2
  Base = 1
  Cap = 3
  After = 2
  Enough = 3
  Horizon = 3
  MaxMoves = 1
SPECIFICATION Spec
INVARIANT
  NobodyIsPassedOverTwice
PROPERTIES
  BacksOff
  EveryDueOrderIsReminded
