SPECIFICATION PromptSpec
CONSTANTS
  WorkerIDs = {w1}
  Conns = {c1}
  None = None
  Impatient = {}
  MaxFrames = 1
  MaxRounds = 1
PROPERTY RoundCompletes
CHECK_DEADLOCK FALSE
