SPECIFICATION FairSpec
CONSTANTS
  g1 = g1
  g2 = g2
  s1 = s1
  s2 = s2
  s3 = s3
  r1 = r1
  None = None
  Games = {g1, g2}
  Sessions = {s1, s2, s3}
  Restarts = {r1}
  Incompatible = {}
  Supported = {g2}
  Buttons = {"Restart"}
  CanFreeze = FALSE
  Launches = {"Executable"}
  CommandCapacity = 2
  PipeCapacity = 1
PROPERTIES RunningGameIsInjected
CHECK_DEADLOCK FALSE
