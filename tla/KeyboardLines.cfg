SPECIFICATION Spec
CONSTANTS
  BufSize = 3
  NumTerminal = 1
  Keys = {"L", "Enter", "Backspace", "LCtrl", "CapsLock", "KeypadSlash"}
  ReadSizes = {0, 2}
  MaxPressed = 2
  EraseOverWrap = FALSE
INVARIANTS
  LinesAreCounted
PROPERTY LineInputSpec
