------------------------------- MODULE Escrow --------------------------------
(***************************************************************************)
(* The escrow contract (contract/contracts/escrow/src): security deposits  *)
(* pooled in one contract account per token, released by two of the three  *)
(* parties, by the arbiter's ruling on a dispute, or back to the depositor *)
(* on a timeout.                                                           *)
(*                                                                         *)
(* A transaction is atomic, and one that returns an error or whose token   *)
(* transfer fails reverts, so every action is one successful call.         *)
(* Left out: the reason texts (an empty one is an error), the events, the  *)
(* storage rent (TTL) of entries, and the list Approvals(id), an audit     *)
(* trail that calls append to or remove and no call reads: what it removes *)
(* under the name clear_approvals decides nothing.                         *)
(***************************************************************************)
EXTENDS EscrowAdmin, FiniteSets, Sequences, FiniteSetsExt

CONSTANTS
  Token,          \* the token contracts the escrows are denominated in
  Terms,          \* the arguments offered to create
  Amounts,        \* the amounts offered to the partial approvals and releases
  Screened,       \* the addresses whose KYC or screening status may change
  Day,            \* ledgers in a day
  MaxPerBlock, MaxPerDay,   \* the limits of the call limiter
  MaxTime,        \* bound: the last ledger of a behaviour
  Horizon,        \* bound: no escrow is created and no dispute opened later
  MaxCreates      \* bound: the number of calls of create

TermsType == [depositor: Address, beneficiary: Address, arbiter: Address,
              amount: Int, token: Token]

ASSUME EscrowAssumption ==
  /\ Terms \subseteq TermsType /\ IsFiniteSet(Terms)
  /\ Amounts \subseteq Int
  /\ Screened \subseteq Address
  /\ Day \in Nat \ {0}
  /\ {MaxPerBlock, MaxPerDay, MaxTime, Horizon, MaxCreates} \subseteq Nat
  /\ Horizon <= MaxTime

\* The id is a hash of the arguments and of the timestamp, modelled by them.
Id == [terms: Terms, at: 0..Horizon]

EscrowStatus == {"None", "Pending", "Funded", "Released", "Refunded", "Disputed"}
NoTime == -1

VARIABLES
  escrow,         \* Escrow(id): status, amount, timeout_days and disputed_at
  count,          \* ApprovalCount(id, target)
  signed,         \* SignerApproved(id, signer, target): the flags that are set
  amountCount,    \* AmountApprovalCount(id, target, amount)
  amountSigned,   \* AmountSignerApproved(id, signer, target, amount)
  history,        \* ReleaseHistory(id)
  created,        \* EscrowCount
  balance,        \* the contract's balance in each token contract
  cleared,        \* the addresses user_profile reports Verified and Clear
  now, userCalls, blockCalls,   \* the ledger clock and the call limiter
  book            \* ghost: what each escrow took in and paid out

INSTANCE RateLimit

clockVars == <<now, userCalls, blockCalls>>

approvalVars == <<count, signed, amountCount, amountSigned>>
escrowVars == <<escrow, approvalVars, history, created, balance, cleared,
                clockVars, book>>
vars == <<escrowVars, adminVars>>

-----------------------------------------------------------------------------
Exists(id) == escrow[id].status # "None"
Payees(id) == {id.terms.depositor, id.terms.beneficiary}
IsParty(id, caller) == caller \in Payees(id) \cup {id.terms.arbiter}

\* assert_cleared_for_party: not enforced until a profile contract is set.
Cleared(party) == profileContract => party \in cleared

\* What the contract owes to the parties of an escrow.
Held(id) ==
  IF escrow[id].status \in {"Funded", "Disputed"} THEN escrow[id].amount ELSE 0

\* Mutant: a released escrow passes for a funded one.
FundedOrReleased(id) == escrow[id].status \in {"Funded", "Released"}

IsFunded(id) == escrow[id].status = "Funded"

\* Mutant: only an escrow that was never funded goes stale.
PendingOnly(id) == escrow[id].status = "Pending"

IsStale(id) == escrow[id].status \in {"Pending", "Funded"}

\* Mutant: the flag of an earlier approval is not looked up.
ForgottenApproval(id, signer, to) == FALSE

HasApproved(id, signer, to) == <<signer, to>> \in signed[id]

\* Mutant: no bound on what is released.
Unbounded(id, amt) == TRUE

WithinAmount(id, amt) == amt <= escrow[id].amount

SetStatus(id, s) == escrow' = [escrow EXCEPT ![id].status = s]

\* EscrowStorage::clear_approval_counts for both targets and all the parties.
ClearApprovalCounts(id) ==
  /\ count' = [count EXCEPT ![id] =
                 [a \in Address |-> IF a \in Payees(id) THEN 0 ELSE @[a]]]
  /\ signed' = [signed EXCEPT ![id] =
                  {f \in @ : ~(IsParty(id, f[1]) /\ f[2] \in Payees(id))}]

\* Mutant: the counter of the pair is reset, the flags stay.
ClearAmountCount(id, to, amt) ==
  /\ amountCount' = [amountCount EXCEPT ![id][<<to, amt>>] = 0]
  /\ UNCHANGED amountSigned

\* EscrowStorage::clear_amount_approval of one pair, for all the parties.
ClearAmountApproval(id, to, amt) ==
  /\ amountCount' = [amountCount EXCEPT ![id][<<to, amt>>] = 0]
  /\ amountSigned' = [amountSigned EXCEPT ![id] =
       {f \in @ : ~(IsParty(id, f[1]) /\ f[2] = to /\ f[3] = amt)}]

\* Mutant: the escrow is marked funded and nothing is transferred.
NoPayIn(id) == UNCHANGED <<balance, book>>

PayIn(id) ==
  /\ balance' = [balance EXCEPT ![id.terms.token] = @ + escrow[id].amount]
  /\ book' = [book EXCEPT ![id].deposited = @ + escrow[id].amount]

\* What is paid to an escrow that was never funded is the money of others.
Advanced(id, amt) == IF escrow[id].status = "Pending" THEN amt ELSE 0

\* The account of an escrow after a payment.
Debited(id, toDepositor, toBeneficiary) ==
  [book[id] EXCEPT
     !.toDepositor = @ + toDepositor,
     !.toBeneficiary = @ + toBeneficiary,
     !.unbacked = @ + Advanced(id, toDepositor + toBeneficiary)]

\* The transfers of one call out of the pooled account, which fail when the
\* balance is short.
Pay(id, toDepositor, toBeneficiary) ==
  LET total == toDepositor + toBeneficiary
  IN  /\ balance[id.terms.token] >= total
      /\ balance' = [balance EXCEPT ![id.terms.token] = @ - total]
      /\ book' = [book EXCEPT ![id] = Debited(id, toDepositor, toBeneficiary)]

Refund(id, damage) == escrow[id].amount - damage

\* Mutant: a partial release leaves the recorded amount as it was.
KeepAmount(id, amt) == UNCHANGED escrow

ReduceAmount(id, amt) == escrow' = [escrow EXCEPT ![id].amount = @ - amt]

PayTo(id, to, amt) ==
  IF to = id.terms.depositor THEN Pay(id, amt, 0) ELSE Pay(id, 0, amt)

-----------------------------------------------------------------------------
NoEscrow == [status |-> "None", amount |-> 0, timeout |-> 0, disputedAt |-> NoTime]
NoEntries == [deposited |-> 0, toDepositor |-> 0, toBeneficiary |-> 0,
              unbacked |-> 0, stranded |-> 0]

Init ==
  /\ AdminInit
  /\ RateInit
  /\ escrow = [id \in Id |-> NoEscrow]
  /\ count = [id \in Id |-> [a \in Address |-> 0]]
  /\ signed = [id \in Id |-> {}]
  /\ amountCount = [id \in Id |-> [p \in Address \X Amounts |-> 0]]
  /\ amountSigned = [id \in Id |-> {}]
  /\ history = [id \in Id |-> <<>>]
  /\ created = 0
  /\ balance = [t \in Token |-> 0]
  /\ cleared = Address
  /\ book = [id \in Id |-> NoEntries]

\* create saves over the escrow that the same arguments made in this ledger,
\* and leaves its approvals where they are.
Create(terms) ==
  LET id == [terms |-> terms, at |-> now]
  IN  /\ now <= Horizon /\ created < MaxCreates
      /\ terms.amount > 0
      /\ terms.depositor # terms.beneficiary
      /\ terms.depositor # terms.arbiter
      /\ terms.beneficiary # terms.arbiter
      /\ escrow' = [escrow EXCEPT ![id] =
           [status |-> "Pending", amount |-> terms.amount,
            timeout |-> timeouts.escrow, disputedAt |-> NoTime]]
      /\ book' = [book EXCEPT ![id].stranded = @ + Held(id)]
      /\ created' = created + 1
      /\ UNCHANGED <<approvalVars, history, balance, cleared, clockVars, adminVars>>

FundEscrow(id, caller) ==
  /\ escrow[id].status = "Pending"
  /\ caller = id.terms.depositor
  /\ Cleared(caller)
  /\ SetStatus(id, "Funded")
  /\ PayIn(id)
  /\ UNCHANGED <<approvalVars, history, created, cleared, clockVars, adminVars>>

\* The second signature for one target releases the whole amount.
ApproveRelease(id, caller, to) ==
  /\ IsFunded(id)
  /\ IsParty(id, caller)
  /\ Cleared(caller)
  /\ CheckRateLimit(caller)
  /\ to \in Payees(id)
  /\ ~HasApproved(id, caller, to)
  /\ \/ /\ count[id][to] + 1 < 2
        /\ count' = [count EXCEPT ![id][to] = @ + 1]
        /\ signed' = [signed EXCEPT ![id] = @ \cup {<<caller, to>>}]
        /\ UNCHANGED <<escrow, balance, book>>
     \/ /\ count[id][to] + 1 >= 2
        /\ SetStatus(id, "Released")
        /\ ClearApprovalCounts(id)
        /\ PayTo(id, to, escrow[id].amount)
  /\ UNCHANGED <<amountCount, amountSigned, history, created, cleared, now, adminVars>>

\* The refund of a stale escrow, by anyone.  It also pays the amount of an
\* escrow that was never funded, out of the pool.
ReleaseEscrowOnTimeout(id) ==
  /\ IsStale(id)
  /\ now > id.at + escrow[id].timeout * Day
  /\ SetStatus(id, "Refunded")
  /\ ClearApprovalCounts(id)
  /\ Pay(id, escrow[id].amount, 0)
  /\ UNCHANGED <<amountCount, amountSigned, history, created, cleared, clockVars,
                 adminVars>>

ApprovePartialRelease(id, caller, to, amt) ==
  /\ IsFunded(id)
  /\ IsParty(id, caller)
  /\ to \in Payees(id)
  /\ amt >= 0
  /\ <<caller, to, amt>> \notin amountSigned[id]
  /\ amountSigned' = [amountSigned EXCEPT ![id] = @ \cup {<<caller, to, amt>>}]
  /\ amountCount' = [amountCount EXCEPT ![id][<<to, amt>>] = @ + 1]
  /\ UNCHANGED <<escrow, count, signed, history, created, balance, cleared,
                 clockVars, book, adminVars>>

ReleaseEscrowPartial(id, caller, amt, to) ==
  /\ IsFunded(id)
  /\ IsParty(id, caller)
  /\ Cleared(caller)
  /\ amt > 0
  /\ WithinAmount(id, amt)
  /\ to \in Payees(id)
  /\ amountCount[id][<<to, amt>>] >= 2
  /\ ReduceAmount(id, amt)
  /\ history' = [history EXCEPT ![id] = Append(@, <<to, amt>>)]
  /\ ClearAmountApproval(id, to, amt)
  /\ PayTo(id, to, amt)
  /\ UNCHANGED <<count, signed, created, cleared, clockVars, adminVars>>

\* The damage goes to the beneficiary, the rest back to the depositor; a
\* share of zero is neither recorded nor transferred.
ReleaseWithDeduction(id, caller, damage) ==
  LET e == id.terms
      refund == Refund(id, damage)
      Record(to, amt) == IF amt > 0 THEN <<<<to, amt>>>> ELSE <<>>
  IN  /\ IsFunded(id)
      /\ IsParty(id, caller)
      /\ Cleared(caller)
      /\ damage >= 0
      /\ WithinAmount(id, damage)
      /\ amountCount[id][<<e.beneficiary, damage>>] >= 2
      /\ SetStatus(id, "Released")
      /\ history' = [history EXCEPT ![id] =
           @ \o Record(e.beneficiary, damage) \o Record(e.depositor, refund)]
      /\ ClearAmountApproval(id, e.beneficiary, damage)
      /\ Pay(id, refund, damage)
      /\ UNCHANGED <<count, signed, created, cleared, clockVars, adminVars>>

\* The clear_approvals of the code removes the trail alone: the counts and flags
\* of approve_release and approve_partial_release stay as they are.
InitiateDispute(id, caller) ==
  /\ now <= Horizon
  /\ IsFunded(id)
  /\ caller \in Payees(id)
  /\ escrow' = [escrow EXCEPT ![id] =
                  [escrow[id] EXCEPT !.status = "Disputed", !.disputedAt = now]]
  /\ UNCHANGED <<count, signed, amountCount, amountSigned, history, created,
                 balance, cleared, clockVars, book, adminVars>>

ResolveDispute(id, caller, to) ==
  /\ escrow[id].status = "Disputed"
  /\ caller = id.terms.arbiter
  /\ to \in Payees(id)
  /\ escrow' = [escrow EXCEPT ![id] = [escrow[id] EXCEPT
       !.disputedAt = NoTime,
       !.status = IF to = id.terms.beneficiary THEN "Released" ELSE "Refunded"]]
  /\ PayTo(id, to, escrow[id].amount)
  /\ UNCHANGED <<count, signed, amountCount, amountSigned, history, created,
                 cleared, clockVars, adminVars>>

\* The deadline uses the dispute timeout in force at the call, by anyone.
ResolveDisputeOnTimeout(id) ==
  LET e == escrow[id]
      disputedAt == IF e.disputedAt = NoTime THEN id.at ELSE e.disputedAt
  IN  /\ e.status = "Disputed"
      /\ now > disputedAt + timeouts.dispute * Day
      /\ escrow' = [escrow EXCEPT ![id] =
                      [escrow[id] EXCEPT !.status = "Refunded", !.disputedAt = NoTime]]
      /\ ClearApprovalCounts(id)
      /\ Pay(id, e.amount, 0)
      /\ UNCHANGED <<amountCount, amountSigned, history, created, cleared,
                     clockVars, adminVars>>

\* The user_profile contract changes what get_profile reports of a party:
\* its KYC authority sets a status, or the owner deletes the profile.
ProfileChange(party) ==
  /\ cleared' = IF party \in cleared THEN cleared \ {party} ELSE cleared \cup {party}
  /\ UNCHANGED <<escrow, approvalVars, history, created, balance, clockVars, book,
                 adminVars>>

NextLedger ==
  /\ Tick
  /\ UNCHANGED <<escrow, approvalVars, history, created, balance, cleared, book,
                 adminVars>>

\* The calls on an escrow other than create and release_escrow_on_timeout.
Call(id) ==
  \/ \E caller \in Address :
       \/ FundEscrow(id, caller)
       \/ InitiateDispute(id, caller)
       \/ \E to \in Address :
            \/ ApproveRelease(id, caller, to)
            \/ ResolveDispute(id, caller, to)
            \/ \E amt \in Amounts :
                 \/ ApprovePartialRelease(id, caller, to, amt)
                 \/ ReleaseEscrowPartial(id, caller, amt, to)
       \/ \E damage \in Amounts : ReleaseWithDeduction(id, caller, damage)
  \/ ResolveDisputeOnTimeout(id)

Environment ==
  \/ \E party \in Screened : ProfileChange(party)
  \/ NextLedger
  \/ AdminNext /\ UNCHANGED escrowVars

Next ==
  \/ \E terms \in Terms : Create(terms)
  \/ \E id \in Id : Call(id) \/ ReleaseEscrowOnTimeout(id)
  \/ Environment

Spec == Init /\ [][Next]_vars

\* A disciplined environment: no client sends create twice with the same
\* arguments in one ledger, and nobody calls release_escrow_on_timeout on an
\* escrow that was never funded.
DisciplinedNext ==
  \/ \E terms \in Terms :
       /\ now <= Horizon
       /\ ~Exists([terms |-> terms, at |-> now])
       /\ Create(terms)
  \/ \E id \in Id :
       \/ Call(id)
       \/ escrow[id].status = "Funded" /\ ReleaseEscrowOnTimeout(id)
  \/ Environment

DisciplinedSpec == Init /\ [][DisciplinedNext]_vars

\* Ledgers keep closing, and once a deadline is over somebody makes the call
\* that anyone may make.
Fairness ==
  /\ WF_vars(NextLedger)
  /\ \A id \in Id : /\ WF_vars(ReleaseEscrowOnTimeout(id))
                    /\ WF_vars(ResolveDisputeOnTimeout(id))

FairSpec == DisciplinedSpec /\ Fairness

-----------------------------------------------------------------------------
EscrowType == [status: EscrowStatus, amount: Nat, timeout: Nat,
               disputedAt: 0..MaxTime \cup {NoTime}]
BookType == [deposited: Nat, toDepositor: Nat, toBeneficiary: Nat,
             unbacked: Nat, stranded: Nat]

\* Every variable has its type: no escrow, pool or payment is ever negative,
\* though amounts are signed and releases subtract from them.
TypeOK ==
  /\ AdminTypeOK
  /\ RateTypeOK
  /\ escrow \in [Id -> EscrowType]
  /\ count \in [Id -> [Address -> Nat]]
  /\ signed \in [Id -> SUBSET (Address \X Address)]
  /\ amountCount \in [Id -> [Address \X Amounts -> Nat]]
  /\ amountSigned \in [Id -> SUBSET (Address \X Address \X Amounts)]
  /\ history \in [Id -> Seq(Address \X Int)]
  /\ created \in Nat
  /\ balance \in [Token -> Nat]
  /\ cleared \in SUBSET Address
  /\ book \in [Id -> BookType]

Paid(id) == book[id].toDepositor + book[id].toBeneficiary

Balanced(id) ==
  book[id].deposited + book[id].unbacked = Paid(id) + Held(id) + book[id].stranded

\* Each escrow accounts for its own money: what was deposited for it, and what
\* the pool advanced to it unfunded, has been paid to its two payees, is still
\* held, or was written off when create ran over it.  Every release, partial
\* release, deduction, ruling and timeout pays out the recorded amount once.
Accounted == \A id \in Id : Balanced(id)

IdsOf(t) == {id \in Id : id.terms.token = t}
Sum(f, S) == MapThenSumSet(LAMBDA id : f[id], S)

Signers(id, to) == {a \in Address : <<a, to>> \in signed[id]}
AmountSigners(id, to, amt) == {a \in Address : <<a, to, amt>> \in amountSigned[id]}

\* The O(1) counters that decide a release are exactly the numbers of distinct
\* parties whose flags are set, through every clear, dispute and re-creation.
CountsMatchSigners ==
  \A id \in Id :
    /\ \A to \in Address : count[id][to] = Cardinality(Signers(id, to))
    /\ \A to \in Address, amt \in Amounts :
         amountCount[id][<<to, amt>>] = Cardinality(AmountSigners(id, to, amt))

Settled(id) == escrow[id].status \in {"Released", "Refunded"}

\* A settled escrow pays nothing more and never comes back to life, and a
\* disputed one pays nothing before the ruling or the timeout that settles it;
\* only a create that runs over an escrow can change this.
SettledForGood ==
  [][created' = created =>
       \A id \in Id :
         /\ Settled(id) => escrow'[id] = escrow[id] /\ book'[id] = book[id]
         /\ escrow[id].status = "Disputed" =>
              \/ escrow'[id] = escrow[id] /\ book'[id] = book[id]
              \/ Settled(id)' /\ Paid(id)' = Paid(id) + escrow[id].amount]_vars

Received(id, a) ==
  (IF a = id.terms.depositor THEN book[id].toDepositor ELSE 0)
    + (IF a = id.terms.beneficiary THEN book[id].toBeneficiary ELSE 0)

\* The caller of approve_release is the one whose call the limiter counts.
Called(caller) == userCalls'[caller] # userCalls[caller]

\* Money leaves a funded escrow on the word of two different parties, who both
\* agreed to that payee and, for a part of it, to that amount; or it goes back
\* to the depositor on the timeout.  No party's word counts twice.
TwoConsents ==
  [][\A id \in Id :
       escrow[id].status = "Funded" /\ Paid(id)' # Paid(id) =>
         \/ \E a, b \in Address, to \in Payees(id) :
              /\ a # b /\ <<a, to>> \in signed[id] /\ Called(b)
              /\ Received(id, to)' = Received(id, to) + escrow[id].amount
         \/ \E a, b \in Address, to \in Payees(id), amt \in Amounts :
              /\ a # b /\ {<<a, to, amt>>, <<b, to, amt>>} \subseteq amountSigned[id]
              /\ Received(id, to)' = Received(id, to) + amt
         \/ escrow'[id].status = "Refunded"]_vars

\* The pool of a token is what its escrows still hold, plus what re-creations
\* wrote off, less what timeouts of never-funded escrows took out of it: no call
\* on one escrow moves the money of another in any other way.
PoolBalances ==
  \A t \in Token :
    balance[t] + Sum([id \in Id |-> book[id].unbacked], IdsOf(t)) =
      Sum([id \in Id |-> Held(id) + book[id].stranded], IdsOf(t))

\* In a disciplined environment a settled escrow has paid out exactly what was
\* deposited, and an unsettled one still holds all that it has not paid.
PaysItsDeposit ==
  \A id \in Id : book[id].deposited = Paid(id) + Held(id)

\* Money in escrow does not stay there forever: whatever the parties and the
\* arbiter do or fail to do, a funded escrow is settled (contract/README.md,
\* "Timeout Mechanisms").
EveryDepositSettles ==
  \A id \in Id : (escrow[id].status \in {"Funded", "Disputed"}) ~> Settled(id)

\* The contract's own documentation, checked against what the code does.

\* "Releasing from one escrow must not draw down funds held for a sibling": the
\* pool covers every live escrow in full.
Solvent ==
  \A t \in Token : balance[t] >= Sum([id \in Id |-> Held(id)], IdsOf(t))

\* "Generate unique escrow ID": every call of create makes an escrow of its own.
IdsUnique == created = Cardinality({id \in Id : Exists(id)})
=============================================================================
