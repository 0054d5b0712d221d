CONSTANTS
  Address <- Parties
  NoAddress = NoAddress
  Candidates = {}
  PauseReasons = {}
  DefaultTimeouts <- OneDay
  TimeoutChoices = {}
  Token = {"usdc"}
  Terms <- OneDeposit
  Amounts = {1}
  Screened = {}
  Day = 1
  MaxPerBlock = 10
  MaxPerDay = 100
  MaxTime = 2
  Horizon = 0
  MaxCreates = 1
SPECIFICATION DisciplinedSpec
INVARIANT PaysItsDeposit
PROPERTY TwoConsents
PROPERTY ImplementsVault
CHECK_DEADLOCK FALSE
INVARIANT TypeOK
 
INVARIANT CountsMatchSigners
