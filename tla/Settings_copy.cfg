SPECIFICATION Spec
CONSTANTS
  p = p
  q = q
  None = None
  NoFile = NoFile
  Ids = {p, q}
  MaxSlots = 4
  MaxPlayers = 3
  Classes = {1, 2}
  Rolled = {1}
  Societies = {0, 1}
  MapFiles = {}
  Bodies <- TwoBodies
  DefaultProfile <- Large
  UserGames <- OneGame
  SetupScreen <- Proposal
  MaxEdits = 2
  MaxFailures = 1
  MaxGames = 2
  MaxEliminated = 1
  Files <- BothProfiles
SYMMETRY Symmetry
INVARIANTS CopyMirrorsTheGame
CHECK_DEADLOCK FALSE
