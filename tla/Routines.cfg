SPECIFICATION Spec
CONSTANTS
  MemSize = 7
  Memories <- MCMemories
  Fills = {9}
  Values = {0, 1, 10, 13}
  Radixes = {2, 10}
  MaxCalls = 2
  BLOCK_NUM = 6
  ALLOCBLOCK_SIZE = 2
  Sizes = {0, 1, 2, 3, 6}
  Behind = {0, 1}
  MaxLive = 4
  BUFSIZE = 3
  Pattern <- MCPattern
  Files <- MCFiles
  Junk <- MCJunk
  MaxFile = 6
  MaxFd = 8
  Directory <- MCDirectory
INVARIANTS CallsKeepPromise OwnBlocks LinesFound TestsPass
PROPERTY FailsOnlyWhenFull
\* The routines and the programs end.
CHECK_DEADLOCK FALSE
