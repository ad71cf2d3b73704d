CONSTANTS
  Terminals = {1, 2}
  Pids = {1, 2, 3, 4, 5}
  Images = {"program"}
  Values = {"command"}
SPECIFICATION Spec
INVARIANT OnlyOwnPages
PROPERTY MemoryIsPrivate
