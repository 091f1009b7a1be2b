CONSTANTS
  t1 = t1
  t2 = t2
  t3 = t3
  i1 = i1
  i2 = i2
  i3 = i3
  i4 = i4
  h1 = h1
  h2 = h2
  None = None
  Threads = {t1, t2}
  Ids = {i1, i2, i3}
  Hashes = {h1, h2}
  IdBits <- SecondThread
  LightMax = 2
  MaxDepth = 3
  Ops = {"enter", "tryenter", "exit", "wait", "waitignore", "timeout", "notify", "notifyall", "interrupt", "hash", "gc"}
SPECIFICATION Spec
INVARIANTS Exclusion NestingKept NoDanglingMonitor AssertsHold HashStable
SYMMETRY SymmetricIds
