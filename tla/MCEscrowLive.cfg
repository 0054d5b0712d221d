CONSTANTS
  Address <- Parties
  NoAddress = NoAddress
  Candidates = {"arbiter", "landlord"}
  PauseReasons = {"incident"}
  DefaultTimeouts <- OneDay
  TimeoutChoices <- ConfigChoices
  Token = {"usdc"}
  Terms <- OneDeposit
  Amounts = {}
  Screened = {"tenant"}
  Day = 1
  MaxPerBlock = 1
  MaxPerDay = 1
  MaxTime = 3
  Horizon = 0
  MaxCreates = 1
SPECIFICATION FairSpec
PROPERTY EveryDepositSettles
CHECK_DEADLOCK FALSE
PROPERTY HandoverByConsent
