SPECIFICATION Spec
CONSTANTS
  None = None
  LocalOffset <- MCOffset
  Now <- MCNow
  Closings <- MCClosings
  Said <- MCSaid
INVARIANT ReadAsUnderstood
PROPERTY MoreIsNotWorse
CHECK_DEADLOCK FALSE
