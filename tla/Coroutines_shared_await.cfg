CONSTANTS
  w0 = w0
  w1 = w1
  Workers = {w0, w1}
  MainWorker = w0
  None = None
  Main = Main
  Program = Program
  MaxLaunch = 2
  MaxYields = 0
  SharedAwait = TRUE
SPECIFICATION FairSpec
INVARIANTS AllUnblocked
CHECK_DEADLOCK FALSE
