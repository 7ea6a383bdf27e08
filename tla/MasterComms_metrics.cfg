SPECIFICATION Spec
CONSTANTS
  WorkerIDs = {w1}
  Conns = {c1, c2}
  None = None
  Impatient = {}
  MaxFrames = 1
  MaxRounds = 1
SYMMETRY Symmetry
INVARIANT MetricsOfKnownWorker
CHECK_DEADLOCK FALSE
