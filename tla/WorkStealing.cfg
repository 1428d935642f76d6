SPECIFICATION Spec
CONSTANTS
  w1 = w1  w2 = w2  c1 = c1
  f1 = f1  f2 = f2  k1 = k1
  None = None
  Workers <- TwoWorkers
  ThreadCount = 2
  Clients <- OneClient
  Funcs <- TwoFuncs
  Conts <- OneCont
INVARIANTS
  TakenOnce
  NobodyTurnedAway
PROPERTIES
  PoolSafe
  QueuedIsTaken
  StopReturns
