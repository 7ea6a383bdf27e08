SPECIFICATION FairSpec
CONSTANTS
  Chunk = 2
  Limit = 5
  Sizes = {3, 5}
  Window = 1
  MaxFile = 6
  MaxEvents = 3
  MaxInstances = 2
  MaxInbox = 1
  MaxStrays = 1
  None = None
INVARIANTS
  TypeOK
  ImageFaithful
  InstancesBounded
PROPERTIES
  FileNotRewritten
  TableFollowsSchedule
  LostStreamEndsWorker
  TransferEnds
CHECK_DEADLOCK FALSE
