CONSTANTS
  Address = {x1, x2, x3}
  Day = 3
  MaxPerBlock = 3
  MaxPerDay = 2
  MaxTime = 5
  MaxClock = 1
  Arbiter = {x1, x2, x3}
  Candidate = {"admin"}
  Party = {"tenant", "landlord"}
  Outsider = "outsider"
  MinVotes = 1
  BenchSize = 2
  AppealWindow = 1
  Timeouts = {1}
  Ratings = {100}
  Experience = {100}
  MaxBallots = 2
  MaxChanges = 1
  LastInstant = 2
  Signer = {x1, x2, x3}
  Owner = {"owner", "other"}
  Signatures = {0, 2}
  Expiry = 0
  Delays = {0, 1}
  MinDelay <- OneLedger
  MaxItems = 2
  Property = {"h1"}
  Person = {"ann", "bob"}
  Request = {x1, x2, x3}
SPECIFICATION ContractsSpec
INVARIANT TypesOK
INVARIANT RateCaps
INVARIANT VotesCounted
INVARIANT AppealByBench
INVARIANT PauseRecordsAgree
INVARIANT MirrorIsTrue
PROPERTY RulingStands
PROPERTY ChangesAuthorised
SYMMETRY Symmetry
CHECK_DEADLOCK FALSE
