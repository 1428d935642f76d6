SPECIFICATION SafeSpec
CONSTANTS
  w1 = w1  w2 = w2  c1 = c1  c2 = c2
  f1 = f1  f2 = f2  k1 = k1  k2 = k2
  None = None
  Workers <- TwoWorkers
  ThreadCount = 2
  Clients <- OneClient
  RegisteredClients = {}
  Funcs <- OneFunc
  Coros <- TwoCoros
  MaxQueueSize = 1
  CounterAtStart = 1
  ForeignStarts = 1
SYMMETRY WorkerSymmetry
INVARIANTS
  TypeOK
  OwnedOnce
  ActiveExact
  WaitedForCounted
  NothingLeftBehind
