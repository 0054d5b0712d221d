CONSTANTS
  Request = {"q1"}
  MaxAttempts = 2
  Stamps = {TRUE}
  MaxPolls = 1
  Property = {"p1"}
  Worker = {w1, w2}
  maxAttempts = 2
  MaxVersions = 2
  MaxRows = 2
  MaxFaults = 2
SPECIFICATION ServicesSpec
 
PROPERTY TerminalStays
 
 
CHECK_DEADLOCK FALSE
