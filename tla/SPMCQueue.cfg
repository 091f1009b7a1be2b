CONSTANTS
  w = w
  t1 = t1
  h1 = h1
  Owner = w
  Thieves = {t1}
  Helpers = {h1}
  None = None
  NodeSize = 2
  SizeMod = 8
  MaxPush = 5
SPECIFICATION FairSpec
INVARIANTS NoUseAfterFree SweepAlone
PROPERTIES Refines EveryTaskTaken
CHECK_DEADLOCK FALSE
