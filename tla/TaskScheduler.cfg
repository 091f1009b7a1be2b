CONSTANTS
  w1 = w1
  w2 = w2
  u1 = u1
  m = m
  fg = fg
  bg = bg
  Workers = {w1, w2}
  Users = {u1}
  Main = m
  None = None
  Props = {fg, bg}
  Foreground = {fg}
  QueueSize = 4
  MaxEvents = 3
SPECIFICATION FairSpec
INVARIANTS CountExact NothingLeft
PROPERTIES TasksRun WaitersReturn
CHECK_DEADLOCK FALSE
