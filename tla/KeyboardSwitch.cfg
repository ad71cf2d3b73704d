SPECIFICATION Spec
CONSTANTS
  BufSize = 2
  NumTerminal = 2
  Keys = {"Enter", "LAlt", "F1", "F2"}
  ReadSizes = {2}
  MaxPressed = 1
  EraseOverWrap = FALSE
PROPERTIES
  TerminalsApart
  ReaderServed
  LineInputSpec
