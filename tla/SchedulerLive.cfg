SPECIFICATION Spec
CONSTANTS
  w1 = w1  w2 = w2  c1 = c1  c2 = c2
  f1 = f1  f2 = f2  k1 = k1  k2 = k2
  None = None
  Workers <- TwoWorkers
  ThreadCount = 2
  Clients <- OneClient
  RegisteredClients <- OneClient
  Funcs <- OneFunc
  Coros <- OneCoro
  MaxQueueSize = 1
  CounterAtStart = 1
  ForeignStarts = 0
INVARIANTS
  PrivateQueues
  Drained
PROPERTIES
  StopTerminates
  PoolLive
