SPECIFICATION Spec
CONSTANTS
  admin = admin
  reader = reader
  spare = spare
  ip = ip
  Keys <- MCKeys
  Grants <- MCGrants
  Lifetimes <- MCLifetimes
  Allowed <- MCAllowed
  WindowSeconds = 2
  TicksPerSecond = 2
  MaxEntries = 1
  Ips = {ip}
  Replicas = {p1}
  Requests = {r1, r2}
  Calls <- MCCalls
  Terms <- MCTerms
  NewScopes = {"read"}
  Start = 1
  MaxCalls = 3
  Configs <- MCConfigs
  MaxTime = 4
  MaxEvents = 1
  Never = Never
  None = None
SYMMETRY MCSymmetry
INVARIANT AccessTypeOK  RetryIsNearReset ClosedMeansCounted
PROPERTY RevocationHolds
CHECK_DEADLOCK FALSE
