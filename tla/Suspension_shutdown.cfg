CONSTANTS
  m = m
  t1 = t1
  t2 = t2
  gc = gc
  None = None
  Main = m
  Threads = {m, t1}
  Daemons = {t1}
  Initial = {m}
  Collectors = {}
  Stoppers = {m, t1}
  Inflators = {m, t1}
  Debuggable = {}
  MaxRounds = 2
SPECIFICATION FairSpec
INVARIANTS DeregisteredNeverRuns
PROPERTIES PauseHappens InflationEnds ShutdownCompletes
