SPECIFICATION FairSpec
CONSTANTS
  g1 = g1
  g2 = g2
  s1 = s1
  r1 = r1
  None = None
  Games = {g1, g2}
  Sessions = {s1}
  Restarts = {r1}
  Incompatible = {}
  Supported = {g1}
  Buttons = {"Restart", "Request"}
  CanFreeze = FALSE
  Launches = {"Executable", "Steam"}
  CommandCapacity = 1
  PipeCapacity = 1
INVARIANTS IpcIsForProcess
PROPERTIES SendsEnd RestartingEnds
CHECK_DEADLOCK FALSE
