SPECIFICATION Spec
CONSTANTS
  WorkerIDs = {w1, w2}
  Conns = {c1, c2}
  None = None
  Impatient = {w2}
  MaxFrames = 1
  MaxRounds = 2
SYMMETRY Symmetry
INVARIANTS
  TypeOK
  NoGhostWorker
  ScheduleAddressable
  PatientServedIsRegistered
PROPERTY RoundsMonotone
CHECK_DEADLOCK FALSE
