---------------------------- MODULE RentAgreement -----------------------------
(***************************************************************************)
(* The rental agreements of the vespera contract (vespera/src/agreement.rs *)
(* and multi_token.rs) and the rent they bring in: a payment is split      *)
(* between the fee collector and an escrow per agreement and token, which  *)
(* the landlord empties.  The escrows of all agreements and the interest   *)
(* reserves of DepositInterest lie in one account, so the modules are      *)
(* composed here: pool is the contract's balance of Base, foreign that of  *)
(* the other tokens.  The pause and the admin's authority are Governance's *)
(* and the call limits those of RateLimit.                                 *)
(***************************************************************************)
EXTENDS DepositInterest, Sequences

CONSTANTS
  Lease,        \* rent, start and end an agreement is created with
  Base,         \* the payment token of the agreements
  Foreign,      \* the other tokens
  Limits,       \* the least and greatest payments the admin allows in a token
  Rates,        \* the exchange rates to Base the admin sets, times Scale
  Scale,        \* 10^18 in the code
  Fees,         \* the values of fee_bps
  Rents,        \* the amounts tenants pay
  MaxPayments   \* bound: payments in a behaviour

VARIABLES
  lease,        \* RentAgreement: status, total_rent_paid, payment_count
  supported,    \* SupportedToken, or NoToken
  rate,         \* ExchangeRate to Base, or NoRate
  fee,          \* state.config.fee_bps
  held,         \* AgreementEscrowBalance of an agreement and a token
  foreign,      \* the contract's balance of each other token
  records,      \* PaymentRecord of an agreement, by number
  released      \* ghost: what the landlord of an agreement got in each token

\* Payments are held in Base and in other tokens; an exchange rate has a scale.
ASSUME RentAssumption ==
  /\ Lease \in [Agreement -> [rent: Int, start: Int, end: Int]]
  /\ Base \notin Foreign
  /\ Limits \subseteq [min: Int, max: Int]
  /\ Rates \subseteq Int /\ Scale \in Nat \ {0}
  /\ Fees \subseteq Nat /\ Rents \subseteq Int

tokenVars == <<supported, rate, fee>>
leaseVars == <<lease, tokenVars, held, foreign, records, released>>
rentVars == <<interestVars, leaseVars>>

Token == Foreign \cup {Base}
NoToken == [enabled |-> FALSE, min |-> -1, max |-> -1]
NoRate == -1
NoLease == [status |-> "none", total |-> 0, count |-> 0]

\* Nothing is held before the first payment.
RentInit ==
  /\ InterestInit
  /\ lease = [a \in Agreement |-> NoLease]
  /\ supported = [t \in Token |-> NoToken]
  /\ rate = [t \in Foreign |-> NoRate]
  /\ fee \in Fees /\ fee <= 10000
  /\ held = [a \in Agreement |-> [t \in Token |-> 0]]
  /\ foreign = [t \in Foreign |-> 0]
  /\ records = [a \in Agreement |-> <<>>]
  /\ released = [a \in Agreement |-> [t \in Token |-> 0]]

-----------------------------------------------------------------------------
(* What the admin decides.                                                 *)

AddSupportedToken(t, limits) ==
  /\ limits.min >= 0 /\ limits.max >= limits.min
  /\ supported' = [supported EXCEPT ![t] =
       [enabled |-> TRUE, min |-> limits.min, max |-> limits.max]]
  /\ UNCHANGED <<interestVars, lease, rate, fee, held, foreign, records, released>>

\* The entry stays, disabled.
RemoveSupportedToken(t) ==
  /\ supported[t] # NoToken
  /\ supported' = [supported EXCEPT ![t].enabled = FALSE]
  /\ UNCHANGED <<interestVars, lease, rate, fee, held, foreign, records, released>>

SetExchangeRate(t, r) ==
  /\ rate' = [rate EXCEPT ![t] = r]
  /\ UNCHANGED <<interestVars, lease, supported, fee, held, foreign, records, released>>

\* update_config, of which the pause is Governance's.
UpdateFee(bps) ==
  /\ bps <= 10000
  /\ fee' = bps
  /\ UNCHANGED <<interestVars, lease, supported, rate, held, foreign, records, released>>

Tokens ==
  \/ \E t \in Token, limits \in Limits : AddSupportedToken(t, limits)
  \/ \E t \in Token : RemoveSupportedToken(t)
  \/ \E t \in Foreign, r \in Rates : SetExchangeRate(t, r)
  \/ \E bps \in Fees : UpdateFee(bps)

-----------------------------------------------------------------------------
(* The life of an agreement.                                               *)

\* validate_agreement_params: a start may lie one day back.
ValidParams(a) ==
  /\ Lease[a].rent > 0 /\ Deposit[a] >= 0
  /\ Lease[a].start < Lease[a].end
  /\ Lease[a].start >= today - 1

SetStatus(a, from, to) ==
  /\ lease[a].status \in from
  /\ lease' = [lease EXCEPT ![a].status = to]
  /\ UNCHANGED <<interestVars, tokenVars, held, foreign, records, released>>

CreateAgreement(a) == ValidParams(a) /\ SetStatus(a, {"none"}, "Draft")

CreateAgreementWithToken(a) == supported[Base].enabled /\ CreateAgreement(a)

SubmitAgreement(a) == SetStatus(a, {"Draft"}, "Pending")

SignAgreement(a) == today <= Lease[a].end /\ SetStatus(a, {"Pending"}, "Active")

CancelAgreement(a) == SetStatus(a, {"Draft", "Pending"}, "Cancelled")

-----------------------------------------------------------------------------
(* Rent.                                                                   *)

\* convert_amount: what an amount of t is worth in Base, rounded down.
InBase(t, amount) == IF t = Base THEN amount ELSE (amount * rate[t]) \div Scale

\* A change of the contract's balance of t.
MoveBalance(t, change) ==
  /\ pool' = IF t = Base THEN pool + change ELSE pool
  /\ foreign' = [u \in Foreign |-> foreign[u] + IF u = t THEN change ELSE 0]

Balance(t) == IF t = Base THEN pool ELSE foreign[t]

\* The fee is rounded down and leaves at once; the landlord's part stays.
MakePaymentWithToken(a, t, amount) ==
  LET worth == InBase(t, amount)
      platform == (amount * fee) \div 10000
      landlord == amount - platform
  IN /\ SumFunction([x \in Agreement |-> lease[x].count]) < MaxPayments
     /\ lease[a].status = "Active"
     /\ supported[t] # NoToken
     /\ supported[t].min <= amount /\ amount <= supported[t].max
     /\ t # Base => rate[t] # NoRate
     /\ worth >= Lease[a].rent
     /\ MoveBalance(t, amount - platform)
     /\ held' = [held EXCEPT ![a][t] = @ + landlord]
     /\ lease' = [lease EXCEPT ![a].total = @ + worth, ![a].count = @ + 1]
     /\ records' = [records EXCEPT ![a] =
          Append(@, [landlord |-> landlord, platform |-> platform, token |-> t])]
     /\ UNCHANGED <<tokenVars, released, config, interest, reserve, today, used, since, paid>>

\* Mutant: the landlord is sent all the contract holds of the token.
ReleaseEverything(a, t) ==
  /\ lease[a].status \in {"Active", "Completed", "Terminated"}
  /\ held[a][t] > 0 /\ Balance(t) >= held[a][t]
  /\ held' = [held EXCEPT ![a][t] = 0]
  /\ MoveBalance(t, -Balance(t))
  /\ released' = [released EXCEPT ![a][t] = @ + Balance(t)]
  /\ UNCHANGED <<lease, tokenVars, records, config, interest, reserve, today, used, since, paid>>

ReleaseEscrowWithToken(a, t) ==
  LET owed == held[a][t]
  IN /\ lease[a].status \in {"Active", "Completed", "Terminated"}
     /\ owed > 0 /\ Balance(t) >= owed
     /\ held' = [held EXCEPT ![a][t] = 0]
     /\ MoveBalance(t, -owed)
     /\ released' = [released EXCEPT ![a][t] = @ + owed]
     /\ UNCHANGED <<lease, tokenVars, records, config, interest, reserve, today, used, since, paid>>

\* The interest of an agreement needs the agreement.
Interest(a) ==
  /\ lease[a] # NoLease
  /\ \/ \E terms \in Terms : SetConfig(a, terms)
     \/ Accrue(a)
     \/ \E amount \in Funding : FundReserve(a, amount)
     \/ Distribute(a)
  /\ UNCHANGED leaseVars

RentNext ==
  \/ Tokens
  \/ \E n \in Gaps : DaysPass(n) /\ UNCHANGED leaseVars
  \/ \E a \in Agreement :
       \/ CreateAgreement(a) \/ CreateAgreementWithToken(a)
       \/ SubmitAgreement(a) \/ SignAgreement(a) \/ CancelAgreement(a)
       \/ \E t \in Token, amount \in Rents : MakePaymentWithToken(a, t, amount)
       \/ \E t \in Token : ReleaseEscrowWithToken(a, t)
       \/ Interest(a)

RentSpec == RentInit /\ [][RentNext]_rentVars

-----------------------------------------------------------------------------
\* The variables have their types; in particular no escrow is overdrawn.
RentTypeOK ==
  /\ lease \in [Agreement ->
       [status: {"none", "Draft", "Pending", "Active", "Cancelled"}, total: Nat, count: Nat]]
  /\ held \in [Agreement -> [Token -> Nat]] /\ released \in [Agreement -> [Token -> Nat]]
  /\ foreign \in [Foreign -> Nat]
  /\ fee \in 0..10000

\* The landlord's parts of the payments for a in t.
Received(a, t) ==
  SumFunction([i \in DOMAIN records[a] |->
                 IF records[a][i].token = t THEN records[a][i].landlord ELSE 0])

\* One account holds the rent of all agreements in a token and the interest
\* reserves besides, and holds exactly the sum: no release, payment, interest or
\* change of fees and rates moves another agreement's money.
Custody ==
  \A t \in Token :
    Balance(t) = SumFunction([a \in Agreement |-> held[a][t]])
                   + IF t = Base THEN Pooled + SumFunction(reserve) ELSE 0

\* Of each payment the landlord's part, under the fee of that day, is held or was
\* released to the landlord, once; and whatever the token and the rate, each counts
\* for a month's rent at least.
PaymentsAccounted ==
  \A a \in Agreement :
    /\ \A t \in Token : held[a][t] + released[a][t] = Received(a, t)
    /\ lease[a].count = Len(records[a])
    /\ lease[a].total >= lease[a].count * Lease[a].rent

\* Rent is never held for an agreement whose status forbids its release.
RentReleasable ==
  \A a \in Agreement : (\E t \in Token : held[a][t] > 0) => lease[a].status = "Active"

\* Rent reaches the landlord of its agreement, whole and from its own escrow (the
\* comment on release_escrow_with_token).
RentReachesLandlord == Custody /\ PaymentsAccounted /\ RentReleasable
=============================================================================
