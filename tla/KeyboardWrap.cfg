SPECIFICATION Spec
CONSTANTS
  BufSize = 3
  NumTerminal = 1
  Keys = {"A", "Enter", "Backspace"}
  ReadSizes = {3}
  MaxPressed = 1
  EraseOverWrap = TRUE
INVARIANT LinesAreCounted
