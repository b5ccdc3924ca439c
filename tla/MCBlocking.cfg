CONSTANTS
  None = None
  o1 = o1  o2 = o2
  gate = gate  dev = dev  solo = solo  human = human
  server = server  d1 = d1  d2 = d2
  Orders = {o1, o2}
  Agents = {gate}
  Humans = {}
  MergeGate = gate
  SelfManaged = {}
  Repos = {server}
  Owns <- MCOwns
  RepoOf <- MCRepoOf
  Deliveries = {}
  LegacyReview = {o2}
  MaxRev = 1
SPECIFICATION Spec
INVARIANTS
  ReviewIsFrozen
PROPERTIES
  CompletionReleasesWaiters
  OnlyCompletionReleases
