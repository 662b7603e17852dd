SPECIFICATION FairRecoverySpec
CONSTANTS
  Reconcilers = {r1}
  Reenqueue = TRUE
  Sources = {s1}
  Jobs = {j1}
  Schedulers = {p1}
  Workers = {w1, w2}
  NoJob = NoJob
  NoSource = NoSource
  Lease = 2
  JobTimeout = 1
  QueuedStale = 1
  Interval = 1
  FailCap = 0
  Multiplier <- MCMultiplier
  RetryDelay = 0
  MaxTries = 2
  MaxAttempts = 1
  ClaimLimit = 2
  Managed = {s1}
PROPERTY JobsSettle SourceComesDue
