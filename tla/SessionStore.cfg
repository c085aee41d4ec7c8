CONSTANTS
  Call = {c1, c2, c3}
  Session = {s1}
  Kind = {"read", "write"}
  IdleTimeout <- Idle
  Ttl = 3
  Prompt = TRUE
  MaxTime = 6
  Reaper = Reaper
  None = None
SPECIFICATION Spec
SYMMETRY Symmetry
INVARIANTS TypeOK UsedSessionsAreLive NoOrphans
PROPERTIES OnlyExpiredArePurged OnlyIdleAreReaped
CHECK_DEADLOCK FALSE
