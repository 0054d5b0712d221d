--------------------------- MODULE EscrowRefinement ---------------------------
(* The escrow contract, used by a disciplined environment, implements Vault. *)
EXTENDS Escrow

Phase(id) ==
  CASE escrow[id].status = "None" -> "none"
    [] escrow[id].status = "Pending" -> "open"
    [] escrow[id].status = "Funded" -> "held"
    [] escrow[id].status = "Disputed" -> "frozen"
    [] OTHER -> "closed"

Price(id) == IF Exists(id) THEN id.terms.amount ELSE 0

Abstract == INSTANCE Vault WITH
  Deposit <- Id,
  Account <- Address,
  Amount <- Amounts \cup {terms.amount : terms \in Terms},
  Depositor <- [id \in Id |-> id.terms.depositor],
  Beneficiary <- [id \in Id |-> id.terms.beneficiary],
  Arbiter <- [id \in Id |-> id.terms.arbiter],
  phase <- [id \in Id |-> Phase(id)],
  price <- [id \in Id |-> Price(id)],
  funds <- [id \in Id |-> Held(id)],
  whole <- signed,
  part <- amountSigned,
  paid <- [id \in Id |-> [a \in Address |-> Received(id, a)]]

\* Every behaviour of the contract is one of the vault: no release, whole or
\* partial, happens without two different parties, a ruling or an expiry, and
\* it moves only the money of its own deposit.
ImplementsVault == Abstract!Spec
=============================================================================
