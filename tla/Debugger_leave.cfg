SPECIFICATION Spec
CONSTANTS
  GameThreads = {g1, g2}
  BreakInThreads = {k1}
  Addrs = {a1}
  Elsewhere = elsewhere
  BreakIn = breakin
  None = none
  MaxFailures = 0
  GameFaults = FALSE
SYMMETRY Symmetry
INVARIANT LeavingKeepsTheGame
CHECK_DEADLOCK FALSE
