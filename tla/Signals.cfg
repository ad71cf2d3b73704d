SPECIFICATION Spec
CONSTANTS
  Pids = {1, 2, 3, 4}
  NumTerminal = 2
  Raised = {0, 1, 2, 3}
  Exceptions = {0, 13, 14}
  Catchable = {1, 3}
  AlarmTicks = 1
INVARIANTS
  HandlersDoNotNest
  UserCodeStops
PROPERTY CtrlCIsTaken
