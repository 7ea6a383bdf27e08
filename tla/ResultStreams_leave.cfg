SPECIFICATION FairSpec
CONSTANTS
  Listeners = {l1}
  Conts = {1}
  None = None
PROPERTY RemovalCompletes
CHECK_DEADLOCK FALSE
