--------------------------- MODULE DepositInterest ----------------------------
(***************************************************************************)
(* Interest on security deposits (vespera/src/deposit_interest.rs): the    *)
(* admin sets the terms, anyone accrues what the time since the last       *)
(* accrual earned, funds the reserve of an agreement, or has the accrued   *)
(* interest paid from that reserve.  The contract holds the money of all   *)
(* agreements in one account.  Time is counted in days, amounts stay far   *)
(* below the width of an i128, and the pause is Governance's.              *)
(***************************************************************************)
EXTENDS Integers, FiniteSetsExt, Functions

CONSTANTS
  Agreement,    \* the agreements with one payment token
  Deposit,      \* their security deposits
  Terms,        \* the interest terms the admin sets
  Funding,      \* the amounts paid into a reserve
  Gaps,         \* the days between two calls
  Pooled,       \* what the contract holds of rent and deposits
  MaxFunds,     \* bound: what the reserves hold together
  LastDay       \* bound: the last day of a behaviour

VARIABLES
  config,       \* DepositInterestConfig of an agreement, or NoConfig
  interest,     \* DepositInterest of an agreement, or NoInterest
  reserve,      \* InterestReserve of an agreement
  pool,         \* the contract's balance of the token
  today,
  used,         \* ghost: the terms an agreement ever had
  since,        \* ghost: the day of its first terms
  paid          \* ghost: the interest paid for it

interestVars == <<config, interest, reserve, pool, today, used, since, paid>>

\* Rates are unsigned, deposits are not; the bounds are numbers.
ASSUME InterestAssumption ==
  /\ IsFiniteSet(Agreement) /\ IsFiniteSet(Terms)
  /\ Deposit \in [Agreement -> Int]
  /\ Terms \subseteq [rate: Nat,
                     frequency: {"daily", "weekly", "monthly", "quarterly", "annually"},
                     recipient: {"tenant", "landlord", "split"}]
  /\ Funding \subseteq Int /\ Gaps \subseteq Nat
  /\ {Pooled, MaxFunds, LastDay} \subseteq Nat

NoConfig == [rate |-> -1, frequency |-> "none", recipient |-> "none"]
NoInterest == [principal |-> 0, accrued |-> 0, total |-> 0, last |-> -1]

\* period_seconds, in days, and periods_per_year.
Period == [daily |-> 1, weekly |-> 7, monthly |-> 30, quarterly |-> 90, annually |-> 365]
PerYear == [daily |-> 365, weekly |-> 52, monthly |-> 12, quarterly |-> 4, annually |-> 1]

InterestInit ==
  /\ config = [a \in Agreement |-> NoConfig]
  /\ interest = [a \in Agreement |-> NoInterest]
  /\ reserve = [a \in Agreement |-> 0]
  /\ pool = Pooled
  /\ today = 0
  /\ used = [a \in Agreement |-> {}]
  /\ since = [a \in Agreement |-> -1]
  /\ paid = [a \in Agreement |-> 0]

\* A balance after n periods: each adds the share of a period, rounded down.
Compounded(balance, terms, n) ==
  LET after[k \in Nat] ==
        IF k = 0 THEN balance
        ELSE after[k - 1] + (after[k - 1] * terms.rate) \div (PerYear[terms.frequency] * 10000)
  IN after[n]

\* compute_interest: whole periods only.
Earned(terms, balance, from, to) ==
  IF to <= from \/ balance <= 0 \/ terms.rate = 0 THEN 0
  ELSE Compounded(balance, terms, (to - from) \div Period[terms.frequency]) - balance

\* set_deposit_interest_config: the record of the deposit is made only once.
SetConfig(a, terms) ==
  /\ terms.rate <= 10000
  /\ interest[a] = NoInterest => Deposit[a] > 0
  /\ config' = [config EXCEPT ![a] = terms]
  /\ interest' = [interest EXCEPT ![a] =
       IF @ # NoInterest THEN @
       ELSE [principal |-> Deposit[a], accrued |-> 0, total |-> Deposit[a], last |-> today]]
  /\ used' = [used EXCEPT ![a] = @ \cup {terms}]
  /\ since' = [since EXCEPT ![a] = IF @ = -1 THEN today ELSE @]
  /\ UNCHANGED <<reserve, pool, today, paid>>

\* Mutant: the day of the accrual is not stored, so the same days earn again.
AccrueAgain(a) ==
  LET amount == Earned(config[a], interest[a].total, interest[a].last, today)
  IN /\ config[a] # NoConfig
     /\ interest' = [interest EXCEPT ![a].accrued = @ + amount, ![a].total = @ + amount]
     /\ UNCHANGED <<config, reserve, pool, today, used, since, paid>>

\* The days of a started period are lost with the stored date.
Accrue(a) ==
  LET amount == Earned(config[a], interest[a].total, interest[a].last, today)
  IN /\ config[a] # NoConfig
     /\ interest' = [interest EXCEPT ![a].accrued = @ + amount, ![a].total = @ + amount,
                                     ![a].last = today]
     /\ UNCHANGED <<config, reserve, pool, today, used, since, paid>>

FundReserve(a, amount) ==
  /\ amount > 0 /\ config[a] # NoConfig
  /\ pool + amount <= Pooled + MaxFunds
  /\ pool' = pool + amount
  /\ reserve' = [reserve EXCEPT ![a] = @ + amount]
  /\ UNCHANGED <<config, interest, today, used, since, paid>>

\* The shares of tenant and landlord.
Shares(total, recipient) ==
  CASE recipient = "tenant" -> <<total, 0>>
    [] recipient = "landlord" -> <<0, total>>
    [] recipient = "split" -> <<total \div 2, total - total \div 2>>

Distribute(a) ==
  LET total == interest[a].accrued
      shares == Shares(total, config[a].recipient)
  IN /\ config[a] # NoConfig
     /\ total > 0 /\ reserve[a] >= total
     /\ pool >= shares[1] + shares[2]
     /\ pool' = pool - shares[1] - shares[2]
     /\ reserve' = [reserve EXCEPT ![a] = @ - total]
     /\ interest' = [interest EXCEPT ![a].accrued = 0, ![a].total = interest[a].principal]
     /\ paid' = [paid EXCEPT ![a] = @ + shares[1] + shares[2]]
     /\ UNCHANGED <<config, today, used, since>>

\* Days pass between one call and the next.
DaysPass(n) ==
  /\ today + n <= LastDay
  /\ today' = today + n
  /\ UNCHANGED <<config, interest, reserve, pool, used, since, paid>>

InterestNext ==
  \/ \E n \in Gaps : DaysPass(n)
  \/ \E a \in Agreement :
       \/ \E terms \in Terms : SetConfig(a, terms)
       \/ Accrue(a)
       \/ \E amount \in Funding : FundReserve(a, amount)
       \/ Distribute(a)

InterestSpec == InterestInit /\ [][InterestNext]_interestVars

-----------------------------------------------------------------------------
\* The variables have their types; in particular no reserve is overdrawn.
InterestTypeOK ==
  /\ config \in [Agreement -> Terms \cup {NoConfig}]
  /\ \A a \in Agreement : config[a] = NoConfig <=> interest[a] = NoInterest
  /\ reserve \in [Agreement -> Nat]
  /\ pool \in Nat /\ today \in 0..LastDay
  /\ used \in [Agreement -> SUBSET Terms]

\* Interest is paid only from what was paid in for it: whatever is funded and
\* distributed for whom, the rent and deposits in the same account stay whole
\* (the comment on interest reserve accounting).
PoolKept == pool >= Pooled + SumFunction(reserve)

\* However often, and by whom, interest is accrued and paid out, no day earns
\* twice: under terms of one frequency, what an agreement was paid and is owed is
\* at most what one calculation over all its days at the best rate yields; and
\* under one set of terms, before any is paid, it is what some number of periods
\* yields, so that accruing often neither adds nor takes compounding.
EarnedOnce ==
  \A a \in Agreement : used[a] # {} =>
    LET i == interest[a]
        all(terms) == (today - since[a]) \div Period[terms.frequency]
        best == CHOOSE t \in used[a] : \A u \in used[a] : u.rate <= t.rate
    IN /\ i.total = i.principal + i.accrued
       /\ (\A t \in used[a] : t.frequency = best.frequency) =>
            paid[a] + i.accrued <= Compounded(i.principal, best, all(best)) - i.principal
       /\ used[a] = {best} /\ paid[a] = 0 =>
            \E n \in 0..all(best) : i.total = Compounded(i.principal, best, n)

\* Interest is earned once and paid from its own reserve.
InterestIsEarnedAndFunded == PoolKept /\ EarnedOnce
=============================================================================
