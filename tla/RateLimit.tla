------------------------------ MODULE RateLimit ------------------------------
(***************************************************************************)
(* The call limiter of the escrow contract (escrow/src/rate_limit.rs) and  *)
(* the ledger clock it reads.  One unit of time is one ledger: the code    *)
(* takes a day to be BLOCKS_PER_DAY ledgers, here the constant Day, and a  *)
(* transaction sees the sequence number and the timestamp of its ledger,   *)
(* so several calls may share one value of now.                            *)
(*                                                                         *)
(* The escrow contract has no entry point that writes RateLimitConfig, so  *)
(* its limits are the defaults, with no cooldown: MaxPerBlock and          *)
(* MaxPerDay stand for the 10 and 100 of the code.                         *)
(***************************************************************************)
EXTENDS Integers

CONSTANTS
  Address,       \* the accounts that call the contract
  Day,           \* ledgers in a day (BLOCKS_PER_DAY)
  MaxPerBlock,   \* max_calls_per_block, shared by all the callers
  MaxPerDay,     \* max_calls_per_user_per_day
  MaxTime        \* bound: the last ledger of a behaviour

ASSUME RateLimitAssumption ==
  /\ Day \in Nat \ {0}
  /\ MaxPerBlock \in Nat
  /\ MaxPerDay \in Nat
  /\ MaxTime \in Nat

VARIABLES
  now,           \* the ledger being built: env.ledger().sequence() and timestamp()
  userCalls,     \* UserCallCount: the daily count and the ledger its day began
  blockCalls     \* BlockCallCount of the current ledger

rateVars == <<now, userCalls, blockCalls>>

RateTypeOK ==
  /\ now \in 0..MaxTime
  /\ userCalls \in [Address -> [daily: Nat, reset: Nat]]
  /\ blockCalls \in Nat

RateInit ==
  /\ now = 0
  /\ userCalls = [u \in Address |-> [daily |-> 0, reset |-> 0]]
  /\ blockCalls = 0

\* Mutant: the day of a user starts afresh with every ledger.
DailyWindow(u) ==
  IF userCalls[u].daily = 0 \/ now > userCalls[u].reset
    THEN [daily |-> 0, reset |-> now]
    ELSE userCalls[u]

\* The counter the call works with.  A count of 0 is an absent entry, which
\* starts its day now, like an entry whose day is over.
Window(u) ==
  IF userCalls[u].daily = 0 \/ now - userCalls[u].reset >= Day
    THEN [daily |-> 0, reset |-> now]
    ELSE userCalls[u]

\* check_rate_limit: refuses the call, or counts it for the user and the ledger.
CheckRateLimit(u) ==
  /\ Window(u).daily < MaxPerDay
  /\ blockCalls < MaxPerBlock
  /\ userCalls' = [userCalls EXCEPT ![u] = [Window(u) EXCEPT !.daily = @ + 1]]
  /\ blockCalls' = blockCalls + 1

\* The next ledger closes: its block counter is a new, absent key.
Tick ==
  /\ now < MaxTime
  /\ now' = now + 1
  /\ blockCalls' = 0
  /\ UNCHANGED userCalls
=============================================================================
