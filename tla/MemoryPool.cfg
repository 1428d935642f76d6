SPECIFICATION Spec
CONSTANTS
  s1 = s1  s2 = s2
  BlocksPerChunk = 2
  MaxFree = 4
  MaxChunks = 3
  MaxLarge = 1
  Stacks <- TwoStacks
  MinSize = 2
  MaxSize = 4
  Requests <- SomeRequests
  MaxCached = 1
CHECK_DEADLOCK FALSE
INVARIANTS
  Accounting
  BrokenByPeak
