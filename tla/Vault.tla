-------------------------------- MODULE Vault --------------------------------
(***************************************************************************)
(* What the escrow contract promises the parties of a deposit, without the *)
(* counters, the pooled account, the clock, the limits and the screening   *)
(* that the contract is built from: each deposit is kept apart from every  *)
(* other, it moves only on the consent of two different parties, on the    *)
(* ruling on a dispute, or back to its depositor on expiry, and a consent  *)
(* to a partial payment is spent by that payment.                          *)
(***************************************************************************)
EXTENDS Integers

CONSTANTS
  Deposit,       \* the names of the deposits
  Account,       \* the parties
  Amount,        \* the amounts that are deposited, consented to or paid
  Depositor, Beneficiary, Arbiter   \* the parties of each deposit

VARIABLES
  phase,         \* "none", "open", "held", "frozen" or "closed"
  price,         \* what the depositor is to pay in
  funds,         \* what the vault holds for the deposit
  whole,         \* the standing consents <<who, to>> to pay everything
  part,          \* the standing consents <<who, to, amount>> to pay an amount
  paid           \* what each account received from the deposit

vars == <<phase, price, funds, whole, part, paid>>

Payees(d) == {Depositor[d], Beneficiary[d]}
Party(d) == Payees(d) \cup {Arbiter[d]}

Init ==
  /\ phase = [d \in Deposit |-> "none"]
  /\ price = [d \in Deposit |-> 0]
  /\ funds = [d \in Deposit |-> 0]
  /\ whole = [d \in Deposit |-> {}]
  /\ part = [d \in Deposit |-> {}]
  /\ paid = [d \in Deposit |-> [a \in Account |-> 0]]

\* The payees of d receive what pays says; the deposit keeps the rest.
PayOut(d, pays) ==
  /\ paid' = [paid EXCEPT ![d] = [a \in Account |->
                @[a] + IF a \in DOMAIN pays THEN pays[a] ELSE 0]]
  /\ phase' = [phase EXCEPT ![d] = "closed"]
  /\ funds' = [funds EXCEPT ![d] = 0]

PayAll(d, to) == PayOut(d, [a \in {to} |-> funds[d]])

Open(d, n) ==
  /\ phase[d] = "none" /\ n > 0
  /\ phase' = [phase EXCEPT ![d] = "open"]
  /\ price' = [price EXCEPT ![d] = n]
  /\ UNCHANGED <<funds, whole, part, paid>>

Fund(d) ==
  /\ phase[d] = "open"
  /\ phase' = [phase EXCEPT ![d] = "held"]
  /\ funds' = [funds EXCEPT ![d] = price[d]]
  /\ UNCHANGED <<price, whole, part, paid>>

\* A party consents to pay everything to a payee, and does so only once.
ConsentWhole(d, who, to) ==
  /\ phase[d] = "held"
  /\ who \in Party(d) /\ to \in Payees(d)
  /\ <<who, to>> \notin whole[d]
  /\ whole' = [whole EXCEPT ![d] = @ \cup {<<who, to>>}]
  /\ UNCHANGED <<phase, price, funds, part, paid>>

\* The consent of a second party pays everything to the payee.
ReleaseWhole(d, who, to) ==
  /\ phase[d] = "held"
  /\ who \in Party(d) /\ to \in Payees(d)
  /\ \E other \in Party(d) \ {who} : <<other, to>> \in whole[d]
  /\ PayAll(d, to)
  /\ whole' = [whole EXCEPT ![d] = {}]
  /\ UNCHANGED <<price, part>>

ConsentPart(d, who, to, n) ==
  /\ phase[d] = "held"
  /\ who \in Party(d) /\ to \in Payees(d) /\ n >= 0
  /\ <<who, to, n>> \notin part[d]
  /\ part' = [part EXCEPT ![d] = @ \cup {<<who, to, n>>}]
  /\ UNCHANGED <<phase, price, funds, whole, paid>>

TwoConsent(d, to, n) ==
  \E x, y \in Party(d) : x # y /\ {<<x, to, n>>, <<y, to, n>>} \subseteq part[d]

Spend(d, to, n) ==
  part' = [part EXCEPT ![d] = {c \in @ : ~(c[2] = to /\ c[3] = n)}]

ReleasePart(d, to, n) ==
  /\ phase[d] = "held"
  /\ to \in Payees(d) /\ n > 0 /\ n <= funds[d]
  /\ TwoConsent(d, to, n)
  /\ Spend(d, to, n)
  /\ funds' = [funds EXCEPT ![d] = @ - n]
  /\ paid' = [paid EXCEPT ![d][to] = @ + n]
  /\ UNCHANGED <<phase, price, whole>>

\* Two consents to a damage payment settle the deposit: the damage to the
\* beneficiary and the rest to the depositor.
Split(d, n) ==
  /\ phase[d] = "held"
  /\ n >= 0 /\ n <= funds[d]
  /\ TwoConsent(d, Beneficiary[d], n)
  /\ Spend(d, Beneficiary[d], n)
  /\ PayOut(d, [a \in Payees(d) |->
                  IF a = Beneficiary[d] THEN n ELSE funds[d] - n])
  /\ UNCHANGED <<price, whole>>

Freeze(d) ==
  /\ phase[d] = "held"
  /\ phase' = [phase EXCEPT ![d] = "frozen"]
  /\ UNCHANGED <<price, funds, whole, part, paid>>

Rule(d, to) ==
  /\ phase[d] = "frozen"
  /\ to \in Payees(d)
  /\ PayAll(d, to)
  /\ UNCHANGED <<price, whole, part>>

Expire(d) ==
  /\ phase[d] \in {"held", "frozen"}
  /\ PayAll(d, Depositor[d])
  /\ whole' = [whole EXCEPT ![d] = {}]
  /\ UNCHANGED <<price, part>>

Next ==
  \E d \in Deposit :
    \/ \E n \in Amount : Open(d, n) \/ Split(d, n)
    \/ Fund(d) \/ Freeze(d) \/ Expire(d)
    \/ \E to \in Account :
         \/ Rule(d, to)
         \/ \E n \in Amount : ReleasePart(d, to, n)
         \/ \E who \in Account :
              \/ ConsentWhole(d, who, to) \/ ReleaseWhole(d, who, to)
              \/ \E n \in Amount : ConsentPart(d, who, to, n)

Spec == Init /\ [][Next]_vars
=============================================================================
