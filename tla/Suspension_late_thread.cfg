CONSTANTS
  m = m
  t1 = t1
  t2 = t2
  gc = gc
  None = None
  Main = m
  Threads = {m, t1, t2}
  Daemons = {t1, t2}
  Initial = {m, t1}
  Collectors = {}
  Stoppers = {}
  Inflators = {}
  Debuggable = {}
  MaxRounds = 0
SPECIFICATION FairSpec
PROPERTIES OtherStatusesEnd
