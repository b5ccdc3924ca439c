CONSTANTS
  None = None
  Jobs = {j1, j2, j3}
  SpawnFails = TRUE
  WriteThrows = TRUE
SPECIFICATION FairSpec
INVARIANT
  QueueIsTended
PROPERTY
  EveryMessageSettles
CHECK_DEADLOCK FALSE
