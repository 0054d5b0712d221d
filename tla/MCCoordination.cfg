CONSTANTS
  Caller = {"c1", "c2", "c3"}
  Server = {"s1", "s2"}
  Home <- TwoServers
  Redis = Redis
  Nobody = Nobody
  Ttl = 2
  RetryCount = 1
  MaxTime = 3
  MaxFaults = 2
  KeyTtl = 2
  MaxFailures = 1
  None = None
  WaitTimeout = 1
  Horizon = 2
  FaultKinds = {"redis", "crash"}
SPECIFICATION CoordinationSpec
INVARIANT Exclusive
INVARIANT NoOrphanLock
INVARIANT OneRunner
INVARIANT NoOrphanMarker
PROPERTY OwnRelease
PROPERTY ResultLasts
PROPERTY AllCallsEnd
CHECK_DEADLOCK FALSE
