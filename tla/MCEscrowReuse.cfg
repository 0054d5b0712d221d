CONSTANTS
  Address <- Parties
  NoAddress = NoAddress
  Candidates = {}
  PauseReasons = {}
  DefaultTimeouts <- OneDay
  TimeoutChoices = {}
  Token = {"usdc"}
  Terms <- TwoDeposits
  Amounts = {}
  Screened = {}
  Day = 1
  MaxPerBlock = 10
  MaxPerDay = 100
  MaxTime = 2
  Horizon = 0
  MaxCreates = 2
SPECIFICATION Spec
INVARIANT IdsUnique
CHECK_DEADLOCK FALSE
