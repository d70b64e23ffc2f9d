CONSTANTS
  Halls = {h1, h2}
  None = None
  ReadOnly = FALSE
  NeuralMode = FALSE
  MaxEdits = 1
  MaxFlight = 2
SPECIFICATION Spec
INVARIANT OwnConfig
PROPERTIES QuietWhileLoading SwitchSaves ShowsLatest
SYMMETRY Sym
