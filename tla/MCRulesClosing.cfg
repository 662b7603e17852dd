SPECIFICATION Spec
CONSTANTS
  None = None
  LocalOffset <- MCOffset
  Now <- MCNow
  Closings <- MCClosings
  Said <- MCSaid
INVARIANT ClosesAtEndOfDay
CHECK_DEADLOCK FALSE
