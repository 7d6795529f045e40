SPECIFICATION FairSpec
CONSTANTS
  GameThreads = {g1}
  BreakInThreads = {k1}
  Addrs = {a1, a2}
  Elsewhere = elsewhere
  BreakIn = breakin
  None = none
  MaxFailures = 0
  GameFaults = FALSE
PROPERTY LeavingEnds
