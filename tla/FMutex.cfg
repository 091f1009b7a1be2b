CONSTANTS
  Threads = {t1, t2}
  None = None
  recursiveMutex = TRUE
  MaxDepth = 2
  WakeCounts = {2}
  MaxSignals = 2
SPECIFICATION FairSpec
INVARIANTS
  MutualExclusion
  NoLostWakeup
  NoLostSignal
  NestingAgrees
PROPERTIES Progress
