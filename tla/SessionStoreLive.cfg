CONSTANTS
  Call = {c1, c2}
  Session = {s1}
  Kind = {"write"}
  IdleTimeout <- Idle
  Ttl = 2
  Prompt = TRUE
  MaxTime = 4
  Reaper = Reaper
  None = None
SPECIFICATION FairSpec
PROPERTY AbandonedAreReaped
CHECK_DEADLOCK FALSE
