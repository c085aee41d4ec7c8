CONSTANTS
  Call = {c1, c2, c3}
  Session = {s1}
  Kind = {"write"}
  IdleTimeout <- Idle
  Ttl = 2
  Prompt = FALSE
  MaxTime = 4
  Reaper = Reaper
  None = None
SPECIFICATION Spec
SYMMETRY Symmetry
INVARIANT NoOrphans
CHECK_DEADLOCK FALSE
