CONSTANTS
  Call = {c1, c2}
  Session = {s1, s2}
  Database = {d}
  Enabled <- AllTools
  None = None
  Worker = Worker
SPECIFICATION Spec
SYMMETRY Symmetry
INVARIANTS TypeOK OneTransaction StaleGatesAreClosed ReservationsAreOwned NoHoldAndWait
PROPERTY KeepsLifecycle
CHECK_DEADLOCK FALSE
