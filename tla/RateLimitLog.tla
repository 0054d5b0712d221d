---------------------------- MODULE RateLimitLog ----------------------------
(***************************************************************************)
(* The call limiter of the escrow contract on its own, with a log of the   *)
(* calls it let through.                                                   *)
(***************************************************************************)
EXTENDS RateLimit, FiniteSetsExt

\* Accounts have addresses of a fixed width.
ASSUME LogAssumption == IsFiniteSet(Address)

VARIABLE log    \* ghost: how many calls of each user each ledger carried

logVars == <<rateVars, log>>

LogInit == RateInit /\ log = [u \in Address |-> [t \in 0..MaxTime |-> 0]]

Call(u) ==
  /\ CheckRateLimit(u)
  /\ log' = [log EXCEPT ![u][now] = @ + 1]
  /\ UNCHANGED now

LogNext == (\E u \in Address : Call(u)) \/ (Tick /\ UNCHANGED log)

LogSpec == LogInit /\ [][LogNext]_logVars

-----------------------------------------------------------------------------
Total(f, S) == MapThenSumSet(LAMBDA x : f[x], S)

CallsOf(u, from) == Total(log[u], from .. IF from + Day <= MaxTime
                                            THEN from + Day - 1 ELSE MaxTime)

\* No ledger carries more calls, of all the users together, than the block
\* limit, even as the days of the users begin and end at different ledgers.
LedgerCap ==
  \A t \in 0..MaxTime :
    Total([u \in Address |-> log[u][t]], Address) <= MaxPerBlock

\* The window of a user starts at a call and is replaced, not slid, when it is
\* over.  Whatever day one looks at, a user gets at most twice the daily limit
\* through, and it gets the limit itself whenever the day is a window.
DayCap ==
  \A u \in Address :
    /\ \A t \in 0..MaxTime : CallsOf(u, t) <= 2 * MaxPerDay
    /\ userCalls[u].daily > 0 =>
         /\ CallsOf(u, userCalls[u].reset) = userCalls[u].daily
         /\ userCalls[u].daily <= MaxPerDay

\* The two caps together.
RateCaps == LedgerCap /\ DayCap
=============================================================================
