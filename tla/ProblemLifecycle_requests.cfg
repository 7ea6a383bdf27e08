SPECIFICATION FairSpec
CONSTANTS
  Reqs = {r1, r2}
  Versions = {0, 1}
  MaxReqs = 4
  None = None
INVARIANTS
  TypeOK
  BareOnlyWhileStarting
  ScheduledIsTracked
  ShownConsistent
PROPERTIES
  RequestsReturn
  AbortedIsStopped
CHECK_DEADLOCK FALSE
