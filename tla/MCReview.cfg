CONSTANTS
  None = None
  o1 = o1  o2 = o2
  gate = gate  dev = dev  solo = solo  human = human
  server = server  d1 = d1  d2 = d2
  Orders = {o1}
  Agents = {gate, dev, solo}
  Humans = {}
  MergeGate = gate
  SelfManaged = {solo}
  Repos = {server}
  Owns <- MCOwns
  RepoOf <- MCRepoOf
  Deliveries = {d1, d2}
  LegacyReview = {}
  MaxRev = 2
SPECIFICATION Spec
SYMMETRY DeliverySymmetry
INVARIANTS
  TypeOK
  FrozenMatchesSnapshot
  OneSnapshotPerRevision
  DecisionIsOfSnapshot
  MergedIsReviewed
  OnlyDraftSkipsReview
  OnlyGateEndsReview
