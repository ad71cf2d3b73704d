SPECIFICATION Spec
CONSTANTS
  FnameLen = 4
  MaxCommand = 6
  MaxArgs = 3
  ArgLen = 5
  BlockSize = 2
  Image <- MCImage
  Commands <- MCCommands
  OpenNames <- MCOpenNames
  ReadSizes = {0, 1, 3}
  MaxFd = 4
  HeaderBytes = 5
  ProgramSpace = 8
  ProgramRoom = 7
  U32 = 64
INVARIANT ImageLoadedWhole
PROPERTIES NamedProgramRuns ArgsReachProgram StreamsSpec
