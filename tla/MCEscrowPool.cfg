CONSTANTS
  Address <- Parties
  NoAddress = NoAddress
  Candidates = {}
  PauseReasons = {}
  DefaultTimeouts <- OneDay
  TimeoutChoices = {}
  Token = {"usdc"}
  Terms <- TwoDeposits
  Amounts = {}
  Screened = {}
  Day = 1
  MaxPerBlock = 10
  MaxPerDay = 100
  MaxTime = 2
  Horizon = 0
  MaxCreates = 3
SPECIFICATION Spec
INVARIANT PoolBalances
PROPERTY SettledForGood
CHECK_DEADLOCK FALSE
