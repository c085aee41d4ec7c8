CONSTANTS
  Call = {c1, c2}
  Session = {s1, s2}
  Kind = {"write"}
  IdleTimeout <- Idle
  Ttl = 2
  Prompt = TRUE
  MaxTime = 4
  Reaper = Reaper
  None = None
SPECIFICATION Spec
SYMMETRY Symmetry
INVARIANT BodiesBlockOnlyTheirSession
CHECK_DEADLOCK FALSE
