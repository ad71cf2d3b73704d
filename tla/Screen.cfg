SPECIFICATION Spec
CONSTANTS
  Cols = 1
  Rows = 2
  NumTerminal = 3
  Written = {"letter", "newline"}
  EraseTo = {0}
  Poked = {0}
INVARIANTS
  NoCursorLeftBehind
PROPERTIES
  SwitchingShowsTheSame
  DrawsOnOne
  ComesHome
