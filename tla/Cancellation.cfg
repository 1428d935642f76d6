SPECIFICATION Spec
CONSTANTS
  t1 = t1  t2 = t2  Timer = Timer
  r1 = r1  r2 = r2  r3 = r3
  None = None
  Threads <- ThreeThreads
  Callbacks <- ThreeCallbacks
  Reentrant <- OneReentrant
CHECK_DEADLOCK FALSE
INVARIANTS
  TypeOK
  EachAsPromised
PROPERTIES
  Returns
