SPECIFICATION Spec
CONSTANTS
  g1 = g1
  None = None
  Other = Other
  Assistant = Assistant
  c1 = c1
  c2 = c2
  Keys = {"Q", "W"}
  Buttons = {"X1"}
  Control = "Ctrl"
  Games = {g1}
  Chords = {c1, c2}
  InitialRows <- OneRow
  NewRow <- KeyRow
  NewMouseRow <- MouseRow
  MaxRows = 2
  MaxEdits = 3
  MaxHeld = 2
  MaxCut = 1
SYMMETRY Symmetry
INVARIANTS TypeOK NothingSticks TwoPressesPerRestart
PROPERTIES OthersLeftAlone CapturedKeyLands HotkeyIsOurs OutputsComeToAnEnd
CHECK_DEADLOCK FALSE
