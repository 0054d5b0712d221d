------------------------------- MODULE MCMoney -------------------------------
(* The ways money moves outside the escrow contract, side by side: the       *)
(* backend's card payments, escrow deposits and Stellar transfers, and the   *)
(* vespera contract's interest alone and together with its rent.  They share *)
(* no row and no account, so each behaviour is one of the five (part says    *)
(* which).                                                                   *)
EXTENDS Payments, StellarPayment, StellarEscrow, RentAgreement, TLC

VARIABLE part

\* Interest of 100 % a year by the day, 30 % by the day, and 100 % by the week.
InterestTerms ==
  {[rate |-> 10000, frequency |-> "daily", recipient |-> "split"],
   [rate |-> 3000, frequency |-> "daily", recipient |-> "tenant"],
   [rate |-> 10000, frequency |-> "weekly", recipient |-> "landlord"]}

\* Two deposits in one account; an agreement without one gets no terms.
Deposits == [a \in Agreement |-> CASE a = "lease" -> 1000 [] a = "room" -> 400 [] OTHER -> 0]

\* The room is let from day 3 to day 4: too late to create on the last day, and
\* too late to sign.
Leases == [a \in Agreement |-> [rent |-> 3, start |-> IF a = "room" THEN 3 ELSE 0,
                                            end |-> IF a = "room" THEN 4 ELSE 8]]
TokenLimits == {[min |-> 1, max |-> 5]}

\* Where rent is the question two agreements are enough, one of them with interest
\* from the first day, funded once; and the admin does not remove their own token.
Narrow ==
  /\ lease'["bare"].status = "none" /\ since'["room"] = -1 /\ since'["lease"] \in {-1, 0}
  /\ \A terms \in used'["lease"] : terms.rate = 10000 /\ terms.frequency = "daily"
  /\ SumFunction(reserve') <= 12
  /\ supported[Base].enabled => supported'[Base].enabled

Keys == [c \in Call |-> "k"]
Symmetry == Permutations(Request)

MoneyInit ==
  /\ part \in {"card", "escrow", "transfer", "interest", "rent"}
  /\ CardInit /\ EscrowInit /\ Init /\ RentInit
  /\ part # "rent" => fee = 0

MoneyNext ==
  /\ UNCHANGED part
  /\ \/ part = "card" /\ CardNext /\ UNCHANGED <<escrowVars, vars, rentVars>>
     \/ part = "escrow" /\ EscrowNext /\ UNCHANGED <<cardVars, vars, rentVars>>
     \/ part = "transfer" /\ Next /\ UNCHANGED <<cardVars, escrowVars, rentVars>>
     \/ part = "interest" /\ InterestNext /\ UNCHANGED <<cardVars, escrowVars, vars, leaseVars>>
     \/ part = "rent" /\ RentNext /\ Narrow /\ UNCHANGED <<cardVars, escrowVars, vars>>

MoneySpec == MoneyInit /\ [][MoneyNext]_<<part, cardVars, escrowVars, vars, rentVars>>

\* The variables of the parts have their types.
TypesOK == CardTypeOK /\ EscrowTypeOK /\ TypeOK /\ InterestTypeOK /\ RentTypeOK
=============================================================================
