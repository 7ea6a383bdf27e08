SPECIFICATION FairSpec
CONSTANTS
  Listeners = {l1, l2}
  Conts = {1, 2}
  None = None
INVARIANTS
  TypeOK
  RegisteredIsServed
  PanicNeedsLeaver
PROPERTIES
  ChannelsStable
  StreamEnds
  PcMutReleased
CHECK_DEADLOCK FALSE
