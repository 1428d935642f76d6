SPECIFICATION Spec
CONSTANTS
  a1 = a1  a2 = a2
  None = None
  Awaiters <- TwoAwaiters
  MaxAwaits = 2
CHECK_DEADLOCK FALSE
INVARIANTS
  HeldOnce
  OutcomeReady
  SameOutcome
PROPERTIES
  FutureSafe
  Resumes
