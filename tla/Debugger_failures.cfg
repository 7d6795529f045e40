SPECIFICATION Spec
CONSTANTS
  GameThreads = {g1}
  BreakInThreads = {k1}
  Addrs = {a1}
  Elsewhere = elsewhere
  BreakIn = breakin
  None = none
  MaxFailures = 2
  GameFaults = TRUE
SYMMETRY Symmetry
INVARIANTS
  TypeOK
  CodeMatchesTable
  TrapFlagsOwned
CHECK_DEADLOCK FALSE
