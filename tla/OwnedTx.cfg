CONSTANTS
  Call = {c1, c2}
  Session = {s1, s2}
  Database = {d}
  Enabled <- OwnedTxTools
  None = None
  Worker = Worker
SPECIFICATION Spec
SYMMETRY Symmetry
INVARIANT AtMostOneTransaction
CHECK_DEADLOCK FALSE
