------------------------------ MODULE MCEscrow ------------------------------
(* Small instances of the escrow contract.  The parties are strings so that *)
(* the terms can name them.                                                 *)
EXTENDS EscrowRefinement

Parties == {"tenant", "landlord", "arbiter"}

Deposit(d, b, amt) ==
  [depositor |-> d, beneficiary |-> b, arbiter |-> "arbiter", amount |-> amt,
   token |-> "usdc"]

Config(e, d) == [escrow |-> e, dispute |-> d, payment |-> 1]

\* One deposit of two units, and two calls of create that are refused.
OneDeposit ==
  {Deposit("tenant", "landlord", 2), Deposit("tenant", "landlord", 0),
   Deposit("tenant", "tenant", 1)}

\* Two deposits that share the pool of one token.
TwoDeposits == {Deposit("tenant", "landlord", 1), Deposit("landlord", "tenant", 2)}

OneDay == Config(1, 1)
ConfigChoices == {Config(1, 0), Config(2, 1), Config(1, 2)}
=============================================================================
