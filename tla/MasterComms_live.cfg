SPECIFICATION FairSpec
CONSTANTS
  WorkerIDs = {w1}
  Conns = {c1, c2}
  None = None
  Impatient = {w1}
  MaxFrames = 1
  MaxRounds = 1
PROPERTIES
  DepartedWorkerRemoved
  ScheduleSendTaken
CHECK_DEADLOCK FALSE
