CONSTANTS
  Caller = {"c1", "c2", "c3"}
  Server = {"s1", "s2"}
  Home <- TwoServers
  Redis = Redis
  None = None
  KeyTtl = 4
  WaitTimeout = 1
  Horizon = 2
  MaxTime = 3
  FaultKinds = {"redis"}
  MaxFailures = 1
SPECIFICATION KeySpec
INVARIANT AtMostOnce
CHECK_DEADLOCK FALSE
