SPECIFICATION Spec
CONSTANTS
  e1 = e1  e2 = e2  e3 = e3
  Sleeps <- AllSleeps
  Scheduled <- ScheduledSleeps
  MaxTime = 2
  MaxStarts = 2
CHECK_DEADLOCK FALSE
PROPERTIES
  StopReturns
