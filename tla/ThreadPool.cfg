CONSTANTS
  w1 = w1  w2 = w2  w3 = w3  s1 = s1  s2 = s2
  j1 = j1  j2 = j2  j3 = j3  j4 = j4
  Workers = {w1, w2}
  Submitters = {s1, s2}
  Jobs = {j1, j2, j3, j4}
  BufferSize = 2
  Controller = Controller
  NoThread = NoThread
  NULL = NULL
SPECIFICATION FairSpec
INVARIANTS
  TypeOK
  MutualExclusion
  ListConsistent
  JobConservation
  NoLostJobWakeup
  NoLostSlotWakeup
  ShutdownWakesAll
  GracefulShutdown
  FreedPoolUnused
PROPERTIES
  ImplementsJobQueue
  DestroyCompletes
  AcceptedJobsSynced
  EnqueueReturns
