CONSTANTS
  None = None
  NoSession = NoSession
  Jobs = {j1, j2}
  Procs = {1, 2}
  Sessions <- MCSessions
SPECIFICATION FairSpec
INVARIANTS
  TypeOK
  AnswersAreForTheirJob
  QueueDoesNotInterrupt
  RotationLands
  NothingIsForgotten
PROPERTIES
  EveryJobSettles
