CONSTANTS
  Call = {c1, c2}
  Session = {s1, s2}
  Database = {d}
  Enabled <- CommitTools
  None = None
  Worker = Worker
SPECIFICATION Spec
SYMMETRY Symmetry
INVARIANT GatesStandForTheSchema
CHECK_DEADLOCK FALSE
