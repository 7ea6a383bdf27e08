SPECIFICATION FairSpec
CONSTANTS
  w1 = w1
  w2 = w2
  p1 = p1
  p2 = p2
  WorkerIDs = {w1, w2}
  ProblemIDs = {p1, p2}
  Hellos <- MCHellos
  Problems <- MCProblems
  None = None
  CountRange = 7
  IntRange = 14
INVARIANTS
  TypeOK
  PacksToTheCap
  
  RemovedProblemStopped
  ShownWasTold
PROPERTIES
  PackingImplemented
  FillTerminates
  HeaviestReachesWorker
