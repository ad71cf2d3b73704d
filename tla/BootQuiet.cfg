SPECIFICATION BootSpec
CONSTANTS
  MaxPnum = 6
  NumTerminal = 2
  MaxFd = 3
  Preempted = FALSE
INVARIANTS
  BootsIntoProcess
  StartedShellsAreSafe
