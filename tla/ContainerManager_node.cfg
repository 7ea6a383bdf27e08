SPECIFICATION FairSpec
CONSTANTS
  ProblemIDs = {p1, p2}
  Incs = {1, 2}
  Conts = {1, 2}
  IDs = {0, 1}
  MaxInstances = 2
  None = None
INVARIANTS
  TypeOK
  OnlyTrackedRun
  TableHoldsRunning
PROPERTIES
  StoppedIsRemoved
  GenerationsEnd
  MutexReleased
CHECK_DEADLOCK FALSE
