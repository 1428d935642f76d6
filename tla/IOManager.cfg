SPECIFICATION Spec
CONSTANTS
  c1 = c1  c2 = c2  f1 = f1
  None = None
  Coros <- TwoCoros
  Fds <- OneFd
  IOThreadCount = 2
  Owned <- FirstCoro
  MaxOps = 2
  MaxCloses = 1
  MaxDeletes = 1
CHECK_DEADLOCK FALSE
INVARIANTS
  ResumesTheWaiting
  WaitersRegistered
  RegistersUnlocked
PROPERTIES
  ReadyIsServed
