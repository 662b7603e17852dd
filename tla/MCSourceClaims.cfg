SPECIFICATION Spec
CONSTANTS
  Sources = {s1, s2}
  Jobs = {j1, j2}
  Schedulers = {p1, p2}
  Workers = {w1, w2}
  NoJob = NoJob
  NoSource = NoSource
  Lease = 2
  JobTimeout = 1
  QueuedStale = 1
  Interval = 1
  FailCap = 1
  Multiplier <- MCMultiplier
  RetryDelay = 1
  MaxTries = 2
  MaxAttempts = 1
  ClaimLimit = 2
  Managed = {s1, s2}
SYMMETRY MCSymmetry
INVARIANT TypeOK DisjointClaims ClaimHolderIsLive 
PROPERTY NeverClaimedMidCrawl ImplementsClaimLease
