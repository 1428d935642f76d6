SPECIFICATION Spec
CONSTANTS
  w1 = w1  w2 = w2  c1 = c1
  f1 = f1  f2 = f2  f3 = f3  k1 = k1
  None = None
  Workers <- TwoWorkers
  Clients <- OneClient
  Funcs <- ThreeFuncs
  Conts <- OneCont
  Priority <- SomePriority
  MaxForeign = 1
CHECK_DEADLOCK FALSE
INVARIANTS
  InOnePlace
PROPERTIES
  PoolSafe
  QueuedRuns
