CONSTANTS
  Call = {c1, c2}
  Session = {s1, s2}
  Database = {d}
  Enabled <- LiveTools
  None = None
  Worker = Worker
SPECIFICATION FairSpec
INVARIANT NobodyWaitsForItself
PROPERTY EveryCallReturns
CHECK_DEADLOCK FALSE
