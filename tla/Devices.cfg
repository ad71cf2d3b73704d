CONSTANTS
  Terminals = {1, 2}
  Raised = {0, 1, 4, 8, 14}
  Frequencies = {1024, 1000}
  MaxTail = 1
SPECIFICATION Spec
INVARIANTS MasterLinesGated ReadSawTick RateAsAsked
PROPERTIES LoneReaderReturns SomeReaderReturns
