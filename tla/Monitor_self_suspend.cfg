CONSTANTS
  t1 = t1
  t2 = t2
  t3 = t3
  i1 = i1
  i2 = i2
  i3 = i3
  i4 = i4
  h1 = h1
  h2 = h2
  None = None
  Threads = {t1, t2}
  Ids = {i1, i2, i3}
  Hashes = {h1}
  IdBits <- SecondThread
  LightMax = 3
  MaxDepth = 1
  Ops = {"enter", "exit", "hash"}
SPECIFICATION Spec
INVARIANTS NeverSuspendsItself
