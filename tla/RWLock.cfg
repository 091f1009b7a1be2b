CONSTANTS
  Threads = {t1, t2, t3}
  None = None
SPECIFICATION FairSpec
INVARIANTS
  WriterExcludesAll
  NoLostWakeup
PROPERTIES
  SleeperIsWoken
