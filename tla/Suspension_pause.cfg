CONSTANTS
  m = m
  t1 = t1
  t2 = t2
  gc = gc
  None = None
  Main = m
  Threads = {m, t1}
  Daemons = {}
  Initial = {m}
  Collectors = {gc}
  Stoppers = {m}
  Inflators = {m, t1}
  Debuggable = {t1}
  MaxRounds = 2
SPECIFICATION Spec
INVARIANTS StopTheWorld CountsAgree OwnerParked
PROPERTIES NoneStartsRunning
