CONSTANTS
  Call = {c1, c2}
  Session = {s1, s2}
  Database = {d}
  Enabled <- DeleteTools
  None = None
  Worker = Worker
SPECIFICATION Spec
SYMMETRY Symmetry
PROPERTY DeletesUnusedDatabase
CHECK_DEADLOCK FALSE
