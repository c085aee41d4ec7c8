CONSTANTS
  Call = {c1, c2}
  Session = {s1, s2}
  Database = {d}
  Enabled <- MigrateTools
  None = None
  Worker = Worker
SPECIFICATION Spec
SYMMETRY Symmetry
INVARIANT NobodyWaitsForItself
CHECK_DEADLOCK FALSE
