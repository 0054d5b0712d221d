CONSTANTS
  Call = {"s1", "s2"}
  Rent = {"r1"}
  KeyOf <- Keys
  NoKey = NoKey
  MaxAttempts = 2
  MaxFaults = 2
  MaxMishaps = 2
  Request = {q1, q2}
  CardRequest = {q1, q2}
  ClientKey = {k1}
  NoHeader = NoHeader
  Amount = 2
  Interval = 2
  MaxRetries = 2
  MaxSlot = 1
  MaxRows = 2
  MaxCardFaults = 1
  MaxEvents = 1
  MaxCardRequests = 4
  MaxRequests = 4
  Escrow = {"e1", "e2"}
  Agreement = {"lease", "room", "bare"}
  Deposit <- Deposits
  Terms <- InterestTerms
  Funding = {12}
  Gaps = {4}
  Pooled = 1400
  MaxFunds = 24
  LastDay = 8
  Lease <- Leases
  Base = "usdc"
  Foreign = {"xlm"}
  Limits <- TokenLimits
  Rates = {1, 2}
  Scale = 2
  Fees = {0, 2500}
  Rents = {5, 6}
  MaxPayments = 2
SPECIFICATION MoneySpec
INVARIANT TypesOK
INVARIANT NoChargeLost
 
INVARIANT KeyOfFunds
INVARIANT BooksFollowLedger
INVARIANT OncePerCall
INVARIANT OncePerKey
INVARIANT RowsFollowLedger
INVARIANT InterestIsEarnedAndFunded
INVARIANT RentReachesLandlord
PROPERTY ChargeOncePerRow
SYMMETRY Symmetry
CHECK_DEADLOCK FALSE
