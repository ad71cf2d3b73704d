SPECIFICATION Spec
CONSTANTS
  MaxPnum = 7
  NumTerminal = 2
  MaxFd = 3
INVARIANTS
  IInv
  RunningContext
  ProcessTree
  VisibleIsForeground
  SavedContexts
  RestartHasRoom
  HandedStayOpen
PROPERTIES
  Isolation
  EveryTerminalRuns
  SessionsSpec
