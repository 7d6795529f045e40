SPECIFICATION FairSpec
CONSTANTS
  g1 = g1
  g2 = g2
  s1 = s1
  s2 = s2
  None = None
  Games = {g1, g2}
  Sessions = {s1, s2}
  Restarts = {}
  Incompatible = {g2}
  Supported = {g1, g2}
  Buttons = {"Retry"}
  CanFreeze = TRUE
  Launches = {"Executable"}
  CommandCapacity = 1
  PipeCapacity = 1
INVARIANTS TypeOK IpcIsForProcess InjectedIsBacked
PROPERTIES LostSessionIsReported DeathIsNoticed
