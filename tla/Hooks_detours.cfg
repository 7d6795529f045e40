SPECIFICATION FairSpec
CONSTANTS
  f1 = f1
  f2 = f2
  f3 = f3
  t1 = t1
  t2 = t2
  None = None
  Symbols = {f1, f2, f3}
  Functions = {f1, f2}
  GameThreads = {t1, t2}
  MaxFailures = 2
INVARIANTS TypeOK PatchedReachesOriginal TableIsTrue NothingLeft
PROPERTY GameIsUnhooked
CHECK_DEADLOCK FALSE
