SPECIFICATION Spec
CONSTANTS
  c1 = c1  c2 = c2  c3 = c3
  None = None
  Coros <- ThreeCoros
  MaxWaits = 1
CHECK_DEADLOCK FALSE
INVARIANTS
  HeldOnce
  ResultReady
PROPERTIES
  GracefulIsComplete
  AwaitEnds
