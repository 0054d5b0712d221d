----------------------------- MODULE EscrowProofs -----------------------------
(***************************************************************************)
(* Proofs about the escrow contract.                                       *)
(***************************************************************************)
EXTENDS Escrow, SumProofs

-----------------------------------------------------------------------------
(* The administration.                                                     *)

\* The types and the origin of the pending offer, as one inductive invariant.
AdminInv == AdminTypeOK /\ ProposalIsCurrent

\* No call of the administration disturbs the types or leaves behind an offer
\* that its present admin did not make.
THEOREM AdminInvariant == AdminSpec => []AdminInv
<1>1. AdminInit => AdminInv
  BY EscrowAdminAssumption
     DEF AdminInit, AdminInv, AdminTypeOK, ProposalIsCurrent
<1>2. AdminInv /\ [AdminNext]_adminVars => AdminInv'
  <2> SUFFICES ASSUME AdminInv, [AdminNext]_adminVars
               PROVE  AdminInv'
    OBVIOUS
  <2> USE EscrowAdminAssumption DEF AdminInv, AdminTypeOK, ProposalIsCurrent
  <2>1. ASSUME NEW a \in Candidates, Initialize(a)
        PROVE  AdminInv'
    BY <2>1 DEF Initialize
  <2>2. ASSUME NEW caller \in Address, SetUserProfileContract(caller)
        PROVE  AdminInv'
    BY <2>2 DEF SetUserProfileContract
  <2>3. ASSUME NEW caller \in Address, NEW reason, Pause(caller, reason)
        PROVE  AdminInv'
    BY <2>3 DEF Pause
  <2>4. ASSUME NEW caller \in Address, Unpause(caller)
        PROVE  AdminInv'
    BY <2>4 DEF Unpause
  <2>5. ASSUME NEW caller \in Address, NEW new \in Candidates,
               ProposeAdmin(caller, new)
        PROVE  AdminInv'
    BY <2>5 DEF ProposeAdmin
  <2>6. ASSUME NEW new \in Address, AcceptAdmin(new)
        PROVE  AdminInv'
    BY <2>6 DEF AcceptAdmin
  <2>7. ASSUME NEW caller \in Address, NEW config \in TimeoutChoices,
               SetTimeoutConfig(caller, config)
        PROVE  AdminInv'
    BY <2>7 DEF SetTimeoutConfig
  <2>8. CASE UNCHANGED adminVars
    BY <2>8 DEF adminVars
  <2> QED
    BY <2>1, <2>2, <2>3, <2>4, <2>5, <2>6, <2>7, <2>8 DEF AdminNext
<1> QED
  BY <1>1, <1>2, PTL DEF AdminSpec

\* An offer of the admin role is always an offer of the admin of the moment.
THEOREM AdminProposalIsCurrent == AdminSpec => []ProposalIsCurrent
  BY AdminInvariant, PTL DEF AdminInv

\* The admin role moves only from an admin to the address that admin chose.
THEOREM AdminHandoverByConsent == AdminSpec => HandoverByConsent
<1>1. AdminInv /\ [AdminNext]_adminVars =>
        [admin' # admin /\ admin # NoAddress =>
           /\ admin' = pendingAdmin
           /\ proposer = admin
           /\ pendingAdmin' = NoAddress]_adminVars
  BY EscrowAdminAssumption
     DEF AdminInv, AdminTypeOK, ProposalIsCurrent, AdminNext, Initialize,
         SetUserProfileContract, Pause, Unpause, ProposeAdmin, AcceptAdmin,
         SetTimeoutConfig, adminVars
<1> QED
  BY <1>1, AdminInvariant, PTL DEF AdminSpec, HandoverByConsent

-----------------------------------------------------------------------------
(* Lemmas about the parts the calls are built from.                        *)

\* The parties, the token and the creation time of an id have their types.
LEMMA IdTypes ==
  ASSUME NEW id \in Id
  PROVE  /\ id.terms.depositor \in Address
         /\ id.terms.beneficiary \in Address
         /\ id.terms.arbiter \in Address
         /\ id.terms.amount \in Int
         /\ id.terms.token \in Token
         /\ id.at \in Nat
         /\ Payees(id) \subseteq Address
BY EscrowAssumption DEF Id, TermsType, Payees

\* An account stays one when three of its entries are replaced.
LEMMA BookEntry ==
  ASSUME NEW b \in BookType, NEW i \in Nat, NEW j \in Nat, NEW k \in Nat
  PROVE  [b EXCEPT !.toDepositor = i, !.toBeneficiary = j, !.unbacked = k]
           \in BookType
BY DEF BookType

\* The same for its other two entries.
LEMMA BookFields ==
  ASSUME NEW b \in BookType, NEW n \in Nat
  PROVE  /\ [b EXCEPT !.deposited = n] \in BookType
         /\ [b EXCEPT !.stranded = n] \in BookType
BY DEF BookType

\* A payment of natural amounts keeps the pool and the accounts in their types.
LEMMA PayTypes ==
  ASSUME TypeOK, NEW id \in Id, NEW x \in Nat, NEW y \in Nat, Pay(id, x, y)
  PROVE  balance' \in [Token -> Nat] /\ book' \in [Id -> BookType]
<1>1. id.terms.token \in Token
  BY IdTypes
<1>2. balance' \in [Token -> Nat]
  BY <1>1 DEF TypeOK, Pay
<1>3. book' \in [Id -> BookType]
  <2>1. book[id] \in BookType
    BY DEF TypeOK
  <2>2. Advanced(id, x + y) \in Nat
    BY DEF Advanced
  <2>3. /\ book[id].toDepositor + x \in Nat
        /\ book[id].toBeneficiary + y \in Nat
        /\ book[id].unbacked + Advanced(id, x + y) \in Nat
    BY <2>1, <2>2 DEF BookType
  <2>4. Debited(id, x, y) \in BookType
    BY <2>1, <2>3, BookEntry DEF Debited
  <2> QED
    BY <2>4 DEF TypeOK, Pay
<1> QED
  BY <1>2, <1>3

\* The same for a payment to one of the two payees.
LEMMA PayToTypes ==
  ASSUME TypeOK, NEW id \in Id, NEW to, NEW x \in Nat, PayTo(id, to, x)
  PROVE  balance' \in [Token -> Nat] /\ book' \in [Id -> BookType]
BY PayTypes DEF PayTo

\* The two clears keep the counters and the flags in their types.
LEMMA ClearCountsTypes ==
  ASSUME TypeOK, NEW id \in Id, ClearApprovalCounts(id)
  PROVE  /\ count' \in [Id -> [Address -> Nat]]
         /\ signed' \in [Id -> SUBSET (Address \X Address)]
BY DEF TypeOK, ClearApprovalCounts

\* The same for the clear of one amount.
LEMMA ClearAmountTypes ==
  ASSUME TypeOK, NEW id \in Id, NEW to, NEW amt, ClearAmountApproval(id, to, amt)
  PROVE  /\ amountCount' \in [Id -> [Address \X Amounts -> Nat]]
         /\ amountSigned' \in [Id -> SUBSET (Address \X Address \X Amounts)]
BY DEF TypeOK, ClearAmountApproval

\* A change of status keeps the escrows in their type.
LEMMA SetStatusTypes ==
  ASSUME TypeOK, NEW id \in Id, NEW s \in EscrowStatus, SetStatus(id, s)
  PROVE  escrow' \in [Id -> EscrowType]
BY DEF TypeOK, SetStatus, EscrowType

\* The call limiter keeps its counters in their types.
LEMMA CheckRateLimitTypes ==
  ASSUME RateTypeOK, NEW u \in Address, CheckRateLimit(u), UNCHANGED now
  PROVE  RateTypeOK'
BY DEF RateTypeOK, CheckRateLimit, Window

\* What a call leaves alone keeps its type.
LEMMA ClockTypes ==
  ASSUME RateTypeOK, UNCHANGED clockVars
  PROVE  RateTypeOK'
BY DEF RateTypeOK, clockVars

\* The administrative calls keep their state in its types.
LEMMA AdminTypes ==
  ASSUME AdminTypeOK, [AdminNext]_adminVars
  PROVE  AdminTypeOK'
BY EscrowAdminAssumption
   DEF AdminTypeOK, AdminNext, adminVars, Initialize, SetUserProfileContract,
       Pause, Unpause, ProposeAdmin, AcceptAdmin, SetTimeoutConfig

-----------------------------------------------------------------------------
(* Types.                                                                  *)

\* A disciplined step is a step of the contract.
LEMMA DisciplinedIsNext == DisciplinedNext => Next
BY DEF DisciplinedNext, Next

\* The initial state has the types.
LEMMA TypeInit == Init => TypeOK
<1> SUFFICES ASSUME Init
             PROVE  TypeOK
  OBVIOUS
<1>1. AdminTypeOK
  BY EscrowAdminAssumption DEF Init, AdminInit, AdminTypeOK
<1>2. RateTypeOK
  BY EscrowAssumption DEF Init, RateInit, RateTypeOK
<1>3. escrow \in [Id -> EscrowType] /\ book \in [Id -> BookType]
  BY DEF Init, NoEscrow, NoEntries, EscrowType, BookType, EscrowStatus
<1>4. history \in [Id -> Seq(Address \X Int)]
  BY DEF Init
<1>5. /\ count \in [Id -> [Address -> Nat]]
      /\ amountCount \in [Id -> [Address \X Amounts -> Nat]]
  BY DEF Init
<1> QED
  BY <1>1, <1>2, <1>3, <1>4, <1>5 DEF Init, TypeOK

\* An escrow record stays one when a call changes its state.
LEMMA EscrowEntry ==
  ASSUME NEW e \in EscrowType, NEW s \in EscrowStatus, NEW n \in Nat,
         NEW d \in 0..MaxTime \cup {NoTime}
  PROVE  /\ [e EXCEPT !.status = s] \in EscrowType
         /\ [e EXCEPT !.amount = n] \in EscrowType
         /\ [e EXCEPT !.status = s, !.disputedAt = d] \in EscrowType
         /\ [e EXCEPT !.disputedAt = d, !.status = s] \in EscrowType
BY DEF EscrowType

\* Every call of the contract keeps the types.
LEMMA TypeStep == TypeOK /\ [Next]_vars => TypeOK'
<1> SUFFICES ASSUME TypeOK, [Next]_vars
             PROVE  TypeOK'
  OBVIOUS
<1> USE DEF TypeOK
<1>1. ASSUME NEW terms \in Terms, Create(terms)
      PROVE  TypeOK'
  <2> DEFINE id == [terms |-> terms, at |-> now]
  <2>1. id \in Id
    BY <1>1, EscrowAssumption DEF Id, RateTypeOK, Create
  <2>2. [status |-> "Pending", amount |-> terms.amount,
         timeout |-> timeouts.escrow, disputedAt |-> NoTime] \in EscrowType
    BY <1>1, EscrowAssumption
       DEF Create, EscrowType, EscrowStatus, TermsType, AdminTypeOK, TimeoutConfig
  <2>3. escrow' \in [Id -> EscrowType]
    BY <1>1, <2>2 DEF Create
  <2>4. Held(id) \in Nat
    BY <2>1 DEF Held, EscrowType
  <2>5. book' \in [Id -> BookType]
    <3>1. book[id].stranded + Held(id) \in Nat
      BY <2>1, <2>4 DEF BookType
    <3>2. [book[id] EXCEPT !.stranded = @ + Held(id)] \in BookType
      BY <2>1, <3>1, BookFields
    <3>3. book' = [book EXCEPT ![id] = [book[id] EXCEPT !.stranded = @ + Held(id)]]
      BY <1>1 DEF Create
    <3> QED
      BY <3>2, <3>3
  <2>6. created' \in Nat
    BY <1>1 DEF Create
  <2>7. /\ UNCHANGED <<approvalVars, history, balance, cleared, clockVars, adminVars>>
    BY <1>1 DEF Create
  <2> QED
    BY <2>3, <2>5, <2>6, <2>7, AdminTypes, ClockTypes DEF approvalVars
<1>2. ASSUME NEW id \in Id, NEW caller \in Address, FundEscrow(id, caller)
      PROVE  TypeOK'
  <2>1. id.terms.token \in Token /\ escrow[id].amount \in Nat
    BY IdTypes DEF EscrowType
  <2>2. escrow' \in [Id -> EscrowType]
    BY <1>2, SetStatusTypes DEF FundEscrow, EscrowStatus
  <2>3. balance' \in [Token -> Nat] /\ book' \in [Id -> BookType]
    <3>1. book[id].deposited + escrow[id].amount \in Nat
      BY <2>1 DEF BookType
    <3>2. [book[id] EXCEPT !.deposited = @ + escrow[id].amount] \in BookType
      BY <3>1, BookFields
    <3> QED
      BY <1>2, <2>1, <3>2 DEF FundEscrow, PayIn
  <2> QED
    BY <1>2, <2>2, <2>3
       DEF FundEscrow, approvalVars, clockVars, adminVars, AdminTypeOK, RateTypeOK
<1>3. ASSUME NEW id \in Id, NEW caller \in Address, NEW to \in Address,
             ApproveRelease(id, caller, to)
      PROVE  TypeOK'
  <2>1. escrow[id].amount \in Nat
    BY DEF EscrowType
  <2>2. RateTypeOK'
    BY <1>3, CheckRateLimitTypes DEF ApproveRelease
  <2>5. AdminTypeOK'
    BY <1>3, AdminTypes DEF ApproveRelease
  <2>6. count[id][to] \in Nat
    OBVIOUS
  <2>3. CASE count[id][to] + 1 < 2
    <3>1. /\ count' = [count EXCEPT ![id] = [count[id] EXCEPT ![to] = @ + 1]]
          /\ signed' = [signed EXCEPT ![id] = @ \cup {<<caller, to>>}]
          /\ UNCHANGED <<escrow, balance, book>>
      BY <1>3, <2>3, <2>6 DEF ApproveRelease
    <3>2. [count[id] EXCEPT ![to] = @ + 1] \in [Address -> Nat]
      OBVIOUS
    <3>3. /\ count' \in [Id -> [Address -> Nat]]
          /\ signed' \in [Id -> SUBSET (Address \X Address)]
      BY <3>1, <3>2
    <3> QED
      BY <1>3, <2>2, <2>5, <3>1, <3>3 DEF ApproveRelease
  <2>4. CASE ~(count[id][to] + 1 < 2)
    <3>1. escrow' \in [Id -> EscrowType]
      BY <1>3, <2>4, SetStatusTypes DEF ApproveRelease, EscrowStatus
    <3>2. balance' \in [Token -> Nat] /\ book' \in [Id -> BookType]
      BY <1>3, <2>1, <2>4, PayToTypes DEF ApproveRelease
    <3>3. /\ count' \in [Id -> [Address -> Nat]]
          /\ signed' \in [Id -> SUBSET (Address \X Address)]
      BY <1>3, <2>4, ClearCountsTypes DEF ApproveRelease
    <3> QED
      BY <1>3, <2>2, <2>5, <3>1, <3>2, <3>3 DEF ApproveRelease
  <2> QED
    BY <2>3, <2>4
<1>4. ASSUME NEW id \in Id, ReleaseEscrowOnTimeout(id)
      PROVE  TypeOK'
  <2>1. escrow' \in [Id -> EscrowType]
    BY <1>4, SetStatusTypes DEF ReleaseEscrowOnTimeout, EscrowStatus
  <2>2. escrow[id].amount \in Nat
    BY DEF EscrowType
  <2>3. balance' \in [Token -> Nat] /\ book' \in [Id -> BookType]
    BY <1>4, <2>2, PayTypes DEF ReleaseEscrowOnTimeout
  <2>4. /\ count' \in [Id -> [Address -> Nat]]
        /\ signed' \in [Id -> SUBSET (Address \X Address)]
    BY <1>4, ClearCountsTypes DEF ReleaseEscrowOnTimeout
  <2> QED
    BY <1>4, <2>1, <2>3, <2>4
       DEF ReleaseEscrowOnTimeout, clockVars, adminVars, AdminTypeOK, RateTypeOK
<1>5. ASSUME NEW id \in Id, NEW caller \in Address, NEW to \in Address,
             NEW amt \in Amounts, ApprovePartialRelease(id, caller, to, amt)
      PROVE  TypeOK'
  <2>1. /\ amountCount' \in [Id -> [Address \X Amounts -> Nat]]
        /\ amountSigned' \in [Id -> SUBSET (Address \X Address \X Amounts)]
    <3>1. [amountCount[id] EXCEPT ![<<to, amt>>] = @ + 1]
            \in [Address \X Amounts -> Nat]
      OBVIOUS
    <3>2. amountCount' = [amountCount EXCEPT ![id] =
                            [amountCount[id] EXCEPT ![<<to, amt>>] = @ + 1]]
      BY <1>5 DEF ApprovePartialRelease
    <3>3. amountSigned' = [amountSigned EXCEPT ![id] = @ \cup {<<caller, to, amt>>}]
      BY <1>5 DEF ApprovePartialRelease
    <3>4. amountCount' \in [Id -> [Address \X Amounts -> Nat]]
      BY <3>1, <3>2
    <3>5. <<caller, to, amt>> \in Address \X Address \X Amounts
      OBVIOUS
    <3> QED
      BY <3>3, <3>4, <3>5
  <2> QED
    BY <1>5, <2>1
       DEF ApprovePartialRelease, clockVars, adminVars, AdminTypeOK, RateTypeOK
<1>6. ASSUME NEW id \in Id, NEW caller \in Address, NEW to \in Address,
             NEW amt \in Amounts, ReleaseEscrowPartial(id, caller, amt, to)
      PROVE  TypeOK'
  <2>1. amt \in Nat /\ escrow[id].amount - amt \in Nat
    BY <1>6, EscrowAssumption DEF ReleaseEscrowPartial, WithinAmount, EscrowType
  <2>2. escrow' \in [Id -> EscrowType]
    <3> DEFINE e == [escrow[id] EXCEPT !.amount = escrow[id].amount - amt]
    <3>1. escrow[id] \in EscrowType
      OBVIOUS
    <3>2. e \in EscrowType
      BY <2>1, <3>1 DEF EscrowType
    <3>3. escrow' = [escrow EXCEPT ![id] = e]
      BY <1>6 DEF ReleaseEscrowPartial, ReduceAmount
    <3> HIDE DEF e
    <3> QED
      BY <3>2, <3>3
  <2>3. history' \in [Id -> Seq(Address \X Int)]
    BY <1>6, <2>1 DEF ReleaseEscrowPartial
  <2>4. balance' \in [Token -> Nat] /\ book' \in [Id -> BookType]
    BY <1>6, <2>1, PayToTypes DEF ReleaseEscrowPartial
  <2>5. /\ amountCount' \in [Id -> [Address \X Amounts -> Nat]]
        /\ amountSigned' \in [Id -> SUBSET (Address \X Address \X Amounts)]
    BY <1>6, ClearAmountTypes DEF ReleaseEscrowPartial
  <2> QED
    BY <1>6, <2>2, <2>3, <2>4, <2>5
       DEF ReleaseEscrowPartial, clockVars, adminVars, AdminTypeOK, RateTypeOK
<1>7. ASSUME NEW id \in Id, NEW caller \in Address, NEW damage \in Amounts,
             ReleaseWithDeduction(id, caller, damage)
      PROVE  TypeOK'
  <2> DEFINE refund == Refund(id, damage)
             Record(to, amt) == IF amt > 0 THEN <<<<to, amt>>>> ELSE <<>>
  <2>1. damage \in Nat /\ refund \in Nat
    BY <1>7, EscrowAssumption
       DEF ReleaseWithDeduction, WithinAmount, Refund, EscrowType
  <2>2. escrow' \in [Id -> EscrowType]
    BY <1>7, SetStatusTypes DEF ReleaseWithDeduction, EscrowStatus
  <2>3. history' \in [Id -> Seq(Address \X Int)]
    <3>1. \A to \in Address, amt \in Nat : Record(to, amt) \in Seq(Address \X Int)
      <4>1. ASSUME NEW to \in Address, NEW amt \in Nat
            PROVE  Record(to, amt) \in Seq(Address \X Int)
        <5>1. <<to, amt>> \in Address \X Int
          OBVIOUS
        <5>2. <<<<to, amt>>>> \in Seq(Address \X Int) /\ <<>> \in Seq(Address \X Int)
          BY <5>1
        <5> QED
          BY <5>2
      <4> QED
        BY <4>1
    <3>2. history[id] \o Record(id.terms.beneficiary, damage)
                     \o Record(id.terms.depositor, refund) \in Seq(Address \X Int)
      <4> HIDE DEF Record, refund
      <4>1. /\ history[id] \in Seq(Address \X Int)
            /\ Record(id.terms.beneficiary, damage) \in Seq(Address \X Int)
            /\ Record(id.terms.depositor, refund) \in Seq(Address \X Int)
        BY <2>1, <3>1, IdTypes
      <4> QED
        BY <4>1
    <3> QED
      BY <1>7, <3>2 DEF ReleaseWithDeduction
  <2>4. balance' \in [Token -> Nat] /\ book' \in [Id -> BookType]
    BY <1>7, <2>1, PayTypes DEF ReleaseWithDeduction
  <2>5. /\ amountCount' \in [Id -> [Address \X Amounts -> Nat]]
        /\ amountSigned' \in [Id -> SUBSET (Address \X Address \X Amounts)]
    BY <1>7, ClearAmountTypes DEF ReleaseWithDeduction
  <2> QED
    BY <1>7, <2>2, <2>3, <2>4, <2>5
       DEF ReleaseWithDeduction, clockVars, adminVars, AdminTypeOK, RateTypeOK
<1>8. ASSUME NEW id \in Id, NEW caller \in Address, InitiateDispute(id, caller)
      PROVE  TypeOK'
  <2>1. escrow' \in [Id -> EscrowType]
    BY <1>8, EscrowEntry DEF InitiateDispute, EscrowStatus, RateTypeOK
  <2> QED
    BY <1>8, <2>1
       DEF InitiateDispute, clockVars, adminVars, AdminTypeOK, RateTypeOK
<1>9. ASSUME NEW id \in Id, NEW caller \in Address, NEW to \in Address,
             ResolveDispute(id, caller, to)
      PROVE  TypeOK'
  <2>1. escrow' \in [Id -> EscrowType]
    BY <1>9, EscrowEntry DEF ResolveDispute, EscrowStatus
  <2>2. escrow[id].amount \in Nat
    BY DEF EscrowType
  <2>3. balance' \in [Token -> Nat] /\ book' \in [Id -> BookType]
    BY <1>9, <2>2, PayToTypes DEF ResolveDispute
  <2> QED
    BY <1>9, <2>1, <2>3
       DEF ResolveDispute, clockVars, adminVars, AdminTypeOK, RateTypeOK
<1>10. ASSUME NEW id \in Id, ResolveDisputeOnTimeout(id)
       PROVE  TypeOK'
  <2>1. escrow' \in [Id -> EscrowType]
    BY <1>10, EscrowEntry DEF ResolveDisputeOnTimeout, EscrowStatus
  <2>2. escrow[id].amount \in Nat
    BY DEF EscrowType
  <2>3. balance' \in [Token -> Nat] /\ book' \in [Id -> BookType]
    BY <1>10, <2>2, PayTypes DEF ResolveDisputeOnTimeout
  <2>4. /\ count' \in [Id -> [Address -> Nat]]
        /\ signed' \in [Id -> SUBSET (Address \X Address)]
    BY <1>10, ClearCountsTypes DEF ResolveDisputeOnTimeout
  <2> QED
    BY <1>10, <2>1, <2>3, <2>4
       DEF ResolveDisputeOnTimeout, clockVars, adminVars, AdminTypeOK, RateTypeOK
<1>11. ASSUME NEW party \in Screened, ProfileChange(party)
       PROVE  TypeOK'
  BY <1>11, EscrowAssumption
     DEF ProfileChange, approvalVars, clockVars, adminVars, AdminTypeOK, RateTypeOK
<1>12. ASSUME NextLedger
       PROVE  TypeOK'
  <2>1. RateTypeOK'
    BY <1>12, EscrowAssumption DEF NextLedger, Tick, RateTypeOK
  <2> QED
    BY <1>12, <2>1 DEF NextLedger, approvalVars, adminVars, AdminTypeOK
<1>13. ASSUME AdminNext, UNCHANGED escrowVars
       PROVE  TypeOK'
  BY <1>13, AdminTypes DEF escrowVars, approvalVars, clockVars, RateTypeOK
<1>14. CASE UNCHANGED vars
  BY <1>14 DEF vars, escrowVars, approvalVars, clockVars, adminVars, AdminTypeOK,
               RateTypeOK
<1> QED
  BY <1>1, <1>2, <1>3, <1>4, <1>5, <1>6, <1>7, <1>8, <1>9, <1>10, <1>11, <1>12,
     <1>13, <1>14
     DEF Next, Call, Environment

\* The types hold in every behaviour of the contract.
THEOREM TypeCorrect == Spec => []TypeOK
BY TypeInit, TypeStep, PTL DEF Spec

-----------------------------------------------------------------------------
(* Every escrow accounts for its own money.                                *)

\* What a payment does to the account of the escrow, and to no other.
LEMMA PayBook ==
  ASSUME TypeOK, NEW id \in Id, NEW x \in Nat, NEW y \in Nat, Pay(id, x, y)
  PROVE  /\ book'[id].deposited = book[id].deposited
         /\ book'[id].stranded = book[id].stranded
         /\ book'[id].unbacked = book[id].unbacked + Advanced(id, x + y)
         /\ Paid(id)' = Paid(id) + x + y
         /\ \A j \in Id \ {id} : book'[j] = book[j]
<1>1. book[id] \in BookType
  BY DEF TypeOK
<1>2. book'[id] = Debited(id, x, y) /\ \A j \in Id \ {id} : book'[j] = book[j]
  BY DEF TypeOK, Pay
<1>3. /\ book'[id].deposited = book[id].deposited
      /\ book'[id].stranded = book[id].stranded
      /\ book'[id].unbacked = book[id].unbacked + Advanced(id, x + y)
      /\ book'[id].toDepositor = book[id].toDepositor + x
      /\ book'[id].toBeneficiary = book[id].toBeneficiary + y
  BY <1>1, <1>2 DEF Debited, BookType
<1> QED
  BY <1>1, <1>2, <1>3 DEF Paid, BookType

\* The same for a payment to one of the two payees.
LEMMA PayToBook ==
  ASSUME TypeOK, NEW id \in Id, NEW to, NEW x \in Nat, PayTo(id, to, x)
  PROVE  /\ book'[id].deposited = book[id].deposited
         /\ book'[id].stranded = book[id].stranded
         /\ book'[id].unbacked = book[id].unbacked + Advanced(id, x)
         /\ Paid(id)' = Paid(id) + x
         /\ \A j \in Id \ {id} : book'[j] = book[j]
<1>1. x + 0 = x /\ 0 + x = x
  OBVIOUS
<1>2. Paid(id) \in Nat
  BY DEF TypeOK, Paid, BookType
<1>3. CASE to = id.terms.depositor
  <2>1. Pay(id, x, 0)
    BY <1>3 DEF PayTo
  <2> QED
    BY <1>1, <1>2, <2>1, PayBook
<1>4. CASE to # id.terms.depositor
  <2>1. Pay(id, 0, x)
    BY <1>4 DEF PayTo
  <2> QED
    BY <1>1, <1>2, <2>1, PayBook
<1> QED
  BY <1>3, <1>4

\* An account and an escrow that a step leaves alone stay balanced.
LEMMA BalancedFrame ==
  ASSUME NEW id \in Id, Balanced(id), escrow'[id] = escrow[id], book'[id] = book[id]
  PROVE  Balanced(id)'
BY DEF Balanced, Paid, Held

\* A change of status changes the status of one escrow.
LEMMA SetStatusEffect ==
  ASSUME TypeOK, NEW id \in Id, NEW s, SetStatus(id, s)
  PROVE  /\ escrow'[id].status = s
         /\ escrow'[id].amount = escrow[id].amount
         /\ \A j \in Id \ {id} : escrow'[j] = escrow[j]
BY DEF TypeOK, SetStatus, EscrowType

\* A step that pays out everything the escrow is recorded with, and settles it.
LEMMA SettleBalanced ==
  ASSUME TypeOK, NEW id \in Id, Balanced(id),
         escrow[id].status \in {"Pending", "Funded", "Disputed"},
         escrow'[id].status \in {"Released", "Refunded"},
         NEW x \in Nat, x = escrow[id].amount,
         book'[id].deposited = book[id].deposited,
         book'[id].stranded = book[id].stranded,
         book'[id].unbacked = book[id].unbacked + Advanced(id, x),
         Paid(id)' = Paid(id) + x
  PROVE  Balanced(id)'
<1>1. book[id] \in BookType /\ Paid(id) \in Nat
  BY DEF TypeOK, BookType, Paid
<1>2. Held(id)' = 0
  BY DEF Held
<1>3. Held(id) + Advanced(id, x) = x
  BY DEF Held, Advanced
<1>4. Held(id) \in Nat /\ Advanced(id, x) \in Nat
  BY DEF TypeOK, EscrowType, Held, Advanced
<1> QED
  BY <1>1, <1>2, <1>3, <1>4 DEF Balanced, BookType

\* Every call keeps the accounts balanced.
LEMMA AccountedStep == TypeOK /\ Accounted /\ [Next]_vars => Accounted'
<1> SUFFICES ASSUME TypeOK, Accounted, [Next]_vars, NEW j \in Id
             PROVE  Balanced(j)'
  BY DEF Accounted
<1> USE DEF Accounted
<1>13. /\ escrow[j] \in EscrowType /\ book[j] \in BookType
      /\ Held(j) \in Nat /\ Paid(j) \in Nat
  BY DEF TypeOK, Held, Paid, EscrowType, BookType
<1>1. ASSUME NEW terms \in Terms, Create(terms)
      PROVE  Balanced(j)'
  <2> DEFINE id == [terms |-> terms, at |-> now]
  <2>1. id \in Id
    BY <1>1, EscrowAssumption DEF Id, RateTypeOK, Create, TypeOK
  <2>2. CASE j # id
    BY <1>1, <2>1, <2>2, BalancedFrame DEF Create, TypeOK
  <2>3. CASE j = id
    <3>1. Held(j)' = 0
      BY <1>1, <2>1, <2>3 DEF Create, Held, TypeOK
    <3>2. /\ book'[j].stranded = book[j].stranded + Held(j)
          /\ book'[j].deposited = book[j].deposited
          /\ book'[j].unbacked = book[j].unbacked
          /\ book'[j].toDepositor = book[j].toDepositor
          /\ book'[j].toBeneficiary = book[j].toBeneficiary
      BY <1>1, <1>13, <2>1, <2>3 DEF Create, TypeOK, BookType
    <3> QED
      BY <1>13, <3>1, <3>2 DEF Balanced, Paid, BookType
  <2> QED
    BY <2>2, <2>3
<1>2. ASSUME NEW id \in Id, NEW caller \in Address, FundEscrow(id, caller)
      PROVE  Balanced(j)'
  <2>1. CASE j # id
    <3>1. escrow'[j] = escrow[j]
      BY <1>2, <2>1, SetStatusEffect DEF FundEscrow
    <3>2. book'[j] = book[j]
      BY <1>2, <2>1 DEF FundEscrow, PayIn, TypeOK
    <3> QED
      BY <3>1, <3>2, BalancedFrame
  <2>2. CASE j = id
    <3>1. Held(j) = 0 /\ Held(j)' = escrow[j].amount
      BY <1>2, <2>2, SetStatusEffect DEF FundEscrow, Held
    <3>2. /\ book'[j].deposited = book[j].deposited + escrow[j].amount
          /\ book'[j].stranded = book[j].stranded
          /\ book'[j].unbacked = book[j].unbacked
          /\ book'[j].toDepositor = book[j].toDepositor
          /\ book'[j].toBeneficiary = book[j].toBeneficiary
      BY <1>2, <1>13, <2>2 DEF FundEscrow, PayIn, TypeOK, BookType
    <3> QED
      BY <1>13, <3>1, <3>2 DEF Balanced, Paid, BookType, EscrowType
  <2> QED
    BY <2>1, <2>2
<1>3. ASSUME NEW id \in Id, NEW caller \in Address, NEW to \in Address,
             ApproveRelease(id, caller, to)
      PROVE  Balanced(j)'
  <2>1. CASE UNCHANGED <<escrow, balance, book>>
    BY <2>1, BalancedFrame
  <2>2. CASE /\ SetStatus(id, "Released")
             /\ PayTo(id, to, escrow[id].amount)
    <3>1. escrow[id].amount \in Nat /\ escrow[id].status = "Funded"
      BY <1>3 DEF ApproveRelease, IsFunded, TypeOK, EscrowType
    <3>2. CASE j # id
      BY <2>2, <3>1, <3>2, SetStatusEffect, PayToBook, BalancedFrame
    <3>3. CASE j = id
      BY <2>2, <3>1, <3>3, SetStatusEffect, PayToBook, SettleBalanced
    <3> QED
      BY <3>2, <3>3
  <2> QED
    BY <1>3, <2>1, <2>2 DEF ApproveRelease
<1>4. ASSUME NEW id \in Id, ReleaseEscrowOnTimeout(id)
      PROVE  Balanced(j)'
  <2>1. escrow[id].amount \in Nat /\ escrow[id].amount + 0 = escrow[id].amount
    BY DEF TypeOK, EscrowType
  <2>2. /\ SetStatus(id, "Refunded")
        /\ Pay(id, escrow[id].amount, 0)
        /\ escrow[id].status \in {"Pending", "Funded"}
    BY <1>4 DEF ReleaseEscrowOnTimeout, IsStale
  <2>3. CASE j # id
    BY <2>1, <2>2, <2>3, SetStatusEffect, PayBook, BalancedFrame
  <2>4. CASE j = id
    BY <1>13, <2>1, <2>2, <2>4, SetStatusEffect, PayBook, SettleBalanced
  <2> QED
    BY <2>3, <2>4
<1>5. ASSUME NEW id \in Id, NEW caller \in Address, NEW to \in Address,
             NEW amt \in Amounts, ApprovePartialRelease(id, caller, to, amt)
      PROVE  Balanced(j)'
  BY <1>5, BalancedFrame DEF ApprovePartialRelease
<1>6. ASSUME NEW id \in Id, NEW caller \in Address, NEW to \in Address,
             NEW amt \in Amounts, ReleaseEscrowPartial(id, caller, amt, to)
      PROVE  Balanced(j)'
  <2>1. /\ amt \in Nat
        /\ escrow[id].status = "Funded"
        /\ ReduceAmount(id, amt)
        /\ PayTo(id, to, amt)
    BY <1>6, EscrowAssumption DEF ReleaseEscrowPartial, IsFunded
  <2>2. CASE j # id
    BY <2>1, <2>2, PayToBook, BalancedFrame DEF ReduceAmount, TypeOK
  <2>3. CASE j = id
    <3>1. Held(j)' = Held(j) - amt
      BY <1>13, <2>1, <2>3 DEF ReduceAmount, Held, TypeOK, EscrowType
    <3>2. Advanced(j, amt) = 0
      BY <2>1, <2>3 DEF Advanced
    <3>3. /\ book'[j].deposited = book[j].deposited
          /\ book'[j].stranded = book[j].stranded
          /\ book'[j].unbacked = book[j].unbacked + Advanced(j, amt)
          /\ Paid(j)' = Paid(j) + amt
      BY <2>1, <2>3, PayToBook
    <3> QED
      BY <1>13, <2>1, <3>1, <3>2, <3>3 DEF Balanced, BookType
  <2> QED
    BY <2>2, <2>3
<1>7. ASSUME NEW id \in Id, NEW caller \in Address, NEW damage \in Amounts,
             ReleaseWithDeduction(id, caller, damage)
      PROVE  Balanced(j)'
  <2>1. /\ damage \in Nat
        /\ Refund(id, damage) \in Nat
        /\ Refund(id, damage) + damage = escrow[id].amount
        /\ escrow[id].amount \in Nat
    <3>1. escrow[id].amount \in Nat
      BY DEF TypeOK, EscrowType
    <3>2. damage \in Int /\ damage >= 0 /\ damage <= escrow[id].amount
      BY <1>7, EscrowAssumption DEF ReleaseWithDeduction, WithinAmount
    <3> QED
      BY <3>1, <3>2 DEF Refund
  <2>2. /\ escrow[id].status = "Funded"
        /\ SetStatus(id, "Released")
        /\ Pay(id, Refund(id, damage), damage)
    BY <1>7 DEF ReleaseWithDeduction, IsFunded
  <2>3. CASE j # id
    BY <2>1, <2>2, <2>3, SetStatusEffect, PayBook, BalancedFrame
  <2>4. CASE j = id
    <3>1. /\ book'[j].deposited = book[j].deposited
          /\ book'[j].stranded = book[j].stranded
          /\ book'[j].unbacked = book[j].unbacked + Advanced(j, escrow[j].amount)
          /\ Paid(j)' = Paid(j) + Refund(j, damage) + damage
      BY <2>1, <2>2, <2>4, PayBook
    <3>2. Paid(j)' = Paid(j) + escrow[j].amount
      BY <1>13, <2>1, <2>4, <3>1
    <3> QED
      BY <2>1, <2>2, <2>4, <3>1, <3>2, SetStatusEffect, SettleBalanced
  <2> QED
    BY <2>3, <2>4
<1>8. ASSUME NEW id \in Id, NEW caller \in Address, InitiateDispute(id, caller)
      PROVE  Balanced(j)'
  <2>1. Held(j)' = Held(j)
    BY <1>8 DEF InitiateDispute, IsFunded, Held, TypeOK, EscrowType
  <2> QED
    BY <1>8, <2>1 DEF InitiateDispute, Balanced, Paid
<1>9. ASSUME NEW id \in Id, NEW caller \in Address, NEW to \in Address,
             ResolveDispute(id, caller, to)
      PROVE  Balanced(j)'
  <2>1. /\ escrow[id].amount \in Nat
        /\ escrow[id].status = "Disputed"
        /\ escrow'[id].status \in {"Released", "Refunded"}
        /\ \A i \in Id \ {id} : escrow'[i] = escrow[i]
        /\ PayTo(id, to, escrow[id].amount)
    BY <1>9 DEF ResolveDispute, TypeOK, EscrowType
  <2>2. CASE j # id
    BY <2>1, <2>2, PayToBook, BalancedFrame
  <2>3. CASE j = id
    BY <2>1, <2>3, PayToBook, SettleBalanced
  <2> QED
    BY <2>2, <2>3
<1>10. ASSUME NEW id \in Id, ResolveDisputeOnTimeout(id)
       PROVE  Balanced(j)'
  <2>1. /\ escrow[id].amount \in Nat
        /\ escrow[id].amount + 0 = escrow[id].amount
        /\ escrow[id].status = "Disputed"
        /\ escrow'[id].status \in {"Released", "Refunded"}
        /\ \A i \in Id \ {id} : escrow'[i] = escrow[i]
        /\ Pay(id, escrow[id].amount, 0)
    BY <1>10 DEF ResolveDisputeOnTimeout, TypeOK, EscrowType
  <2>2. CASE j # id
    BY <2>1, <2>2, PayBook, BalancedFrame
  <2>3. CASE j = id
    BY <1>13, <2>1, <2>3, PayBook, SettleBalanced
  <2> QED
    BY <2>2, <2>3
<1>11. ASSUME UNCHANGED <<escrow, book>>
       PROVE  Balanced(j)'
  BY <1>11, BalancedFrame
<1>12. ASSUME Environment \/ UNCHANGED vars
       PROVE  UNCHANGED <<escrow, book>>
  BY <1>12 DEF Environment, ProfileChange, NextLedger, vars, escrowVars
<1> QED
  BY <1>1, <1>2, <1>3, <1>4, <1>5, <1>6, <1>7, <1>8, <1>9, <1>10, <1>11, <1>12
     DEF Next, Call

\* Every deposit, payout, refund and write-off of an escrow is in its account,
\* in every behaviour of the contract.
THEOREM AccountedAlways == Spec => []Accounted
<1>1. Init => Accounted
  BY DEF Init, Accounted, Balanced, Paid, Held, NoEscrow, NoEntries
<1> QED
  BY <1>1, TypeCorrect, AccountedStep, PTL DEF Spec

-----------------------------------------------------------------------------
(* The pool.  What an escrow took in less what it paid out is Net; the      *)
(* balance of a token is the sum of Net over its escrows, which every call  *)
(* keeps by changing both by the same amount, at one escrow.  With the      *)
(* accounts balanced this is what PoolBalances says.                        *)

Net(id) == book[id].deposited - Paid(id)

NetOf == [id \in Id |-> Net(id)]

\* The balance of a token is what its escrows took in and did not pay out.
PoolIsNet == \A t \in Token : balance[t] = SumOver(NetOf, IdsOf(t))

\* There are finitely many ids: terms and creation times.
LEMMA IdsFinite ==
  IsFiniteSet(Id) /\ \A t : IsFiniteSet(IdsOf(t)) /\ IdsOf(t) \subseteq Id
<1> DEFINE f == [p \in Terms \X (0..Horizon) |-> [terms |-> p[1], at |-> p[2]]]
           Pairs == Terms \X (0..Horizon)
<1>1. IsFiniteSet(Pairs)
  <2>1. 0 \in Int /\ Horizon \in Int /\ IsFiniteSet(Terms)
    BY EscrowAssumption
  <2>2. IsFiniteSet(0..Horizon)
    BY <2>1, FS_Interval
  <2> QED
    BY <2>1, <2>2, FS_Product
<1>2. f \in Surjection(Pairs, Id)
  <2>1. f \in [Pairs -> Id]
    BY DEF Id
  <2>2. ASSUME NEW id \in Id
        PROVE  \E p \in Pairs : f[p] = id
    <3>1. <<id.terms, id.at>> \in Pairs /\ id = [terms |-> id.terms, at |-> id.at]
      BY DEF Id
    <3> QED
      BY <3>1
  <2> QED
    BY <2>1, <2>2 DEF Surjection
<1> HIDE DEF f, Pairs
<1>3. IsFiniteSet(Id)
  BY <1>1, <1>2, FS_Surjection
<1>4. \A t : IdsOf(t) \in SUBSET Id
  BY DEF IdsOf
<1> QED
  BY <1>3, <1>4, FS_Subset

\* One escrow takes in or pays out, and the pool of its token with it.
Flows(id) ==
  /\ balance' = [balance EXCEPT ![id.terms.token] = @ + (Net(id)' - Net(id))]
  /\ \A j \in Id \ {id} : Net(j)' = Net(j)

\* Or none does, and no pool.
Still == UNCHANGED balance /\ \A j \in Id : Net(j)' = Net(j)

\* A payment is a flow out of its escrow.
LEMMA PayFlows ==
  ASSUME TypeOK, NEW id \in Id, NEW x \in Nat, NEW y \in Nat, Pay(id, x, y)
  PROVE  Flows(id)
<1>1. /\ book'[id].deposited = book[id].deposited
      /\ Paid(id)' = Paid(id) + x + y
      /\ \A j \in Id \ {id} : book'[j] = book[j]
  BY PayBook
<1>2. balance' = [balance EXCEPT ![id.terms.token] = @ - (x + y)]
  BY DEF Pay
<1>3. book[id].deposited \in Nat /\ Paid(id) \in Nat
  BY DEF TypeOK, BookType, Paid
<1>4. Net(id)' - Net(id) = 0 - (x + y)
  BY <1>1, <1>3 DEF Net
<1>5. id.terms.token \in Token /\ balance \in [Token -> Nat]
  BY IdTypes DEF TypeOK
<1>6. balance[id.terms.token] - (x + y) = balance[id.terms.token] + (0 - (x + y))
  BY <1>5
<1> QED
  BY <1>1, <1>2, <1>4, <1>6 DEF Flows, Net, Paid

\* So is a payment to one of the two payees.
LEMMA PayToFlows ==
  ASSUME TypeOK, NEW id \in Id, NEW to, NEW x \in Nat, PayTo(id, to, x)
  PROVE  Flows(id)
BY PayFlows DEF PayTo

\* Every step moves the money of one escrow, with its pool, or none.
LEMMA EveryStepFlows ==
  ASSUME TypeOK, [Next]_vars
  PROVE  Still \/ \E id \in Id : Flows(id)
<1>1. ASSUME NEW terms \in Terms, Create(terms)
      PROVE  Still
  <2> DEFINE id == [terms |-> terms, at |-> now]
  <2>1. id \in Id
    BY <1>1, EscrowAssumption DEF Id, RateTypeOK, Create, TypeOK
  <2>2. \A j \in Id : /\ book'[j].deposited = book[j].deposited
                      /\ book'[j].toDepositor = book[j].toDepositor
                      /\ book'[j].toBeneficiary = book[j].toBeneficiary
    BY <1>1, <2>1 DEF Create, TypeOK, BookType
  <2> QED
    BY <1>1, <2>2 DEF Create, Still, Net, Paid
<1>2. ASSUME NEW id \in Id, NEW caller \in Address, FundEscrow(id, caller)
      PROVE  Flows(id)
  <2>1. /\ book'[id].deposited = book[id].deposited + escrow[id].amount
        /\ book'[id].toDepositor = book[id].toDepositor
        /\ book'[id].toBeneficiary = book[id].toBeneficiary
        /\ \A j \in Id \ {id} : book'[j] = book[j]
    BY <1>2 DEF FundEscrow, PayIn, TypeOK, BookType
  <2>2. /\ escrow[id].amount \in Nat /\ book[id].deposited \in Nat /\ Paid(id) \in Nat
    BY DEF TypeOK, EscrowType, BookType, Paid
  <2>3. Paid(id)' = Paid(id)
    BY <2>1 DEF Paid
  <2>4. Net(id)' - Net(id) = escrow[id].amount
    BY <2>1, <2>2, <2>3 DEF Net
  <2>5. balance' = [balance EXCEPT ![id.terms.token] = @ + escrow[id].amount]
    BY <1>2 DEF FundEscrow, PayIn
  <2> QED
    BY <2>1, <2>4, <2>5 DEF Flows, Net, Paid
<1>3. ASSUME NEW id \in Id, NEW caller \in Address, NEW to \in Address,
             ApproveRelease(id, caller, to)
      PROVE  Still \/ Flows(id)
  <2>1. escrow[id].amount \in Nat
    BY DEF TypeOK, EscrowType
  <2> QED
    BY <1>3, <2>1, PayToFlows DEF ApproveRelease, Still, Net, Paid
<1>4. ASSUME NEW id \in Id, ReleaseEscrowOnTimeout(id) \/ ResolveDisputeOnTimeout(id)
      PROVE  Flows(id)
  <2>1. escrow[id].amount \in Nat /\ 0 \in Nat
    BY DEF TypeOK, EscrowType
  <2>2. Pay(id, escrow[id].amount, 0)
    BY <1>4 DEF ReleaseEscrowOnTimeout, ResolveDisputeOnTimeout
  <2> QED
    BY <2>1, <2>2, PayFlows
<1>5. ASSUME NEW id \in Id, NEW caller \in Address, NEW to \in Address,
             NEW amt \in Amounts, ReleaseEscrowPartial(id, caller, amt, to)
      PROVE  Flows(id)
  <2>1. amt \in Nat /\ PayTo(id, to, amt)
    BY <1>5, EscrowAssumption DEF ReleaseEscrowPartial
  <2> QED
    BY <2>1, PayToFlows
<1>6. ASSUME NEW id \in Id, NEW caller \in Address, NEW damage \in Amounts,
             ReleaseWithDeduction(id, caller, damage)
      PROVE  Flows(id)
  <2>1. damage \in Nat /\ Refund(id, damage) \in Nat
    <3>1. escrow[id].amount \in Nat
      BY DEF TypeOK, EscrowType
    <3>2. damage \in Int /\ damage >= 0 /\ damage <= escrow[id].amount
      BY <1>6, EscrowAssumption DEF ReleaseWithDeduction, WithinAmount
    <3> QED
      BY <3>1, <3>2 DEF Refund
  <2>2. Pay(id, Refund(id, damage), damage)
    BY <1>6 DEF ReleaseWithDeduction
  <2> QED
    BY <2>1, <2>2, PayFlows
<1>7. ASSUME NEW id \in Id, NEW caller \in Address, NEW to \in Address,
             ResolveDispute(id, caller, to)
      PROVE  Flows(id)
  <2>1. escrow[id].amount \in Nat /\ PayTo(id, to, escrow[id].amount)
    BY <1>7 DEF ResolveDispute, TypeOK, EscrowType
  <2> QED
    BY <2>1, PayToFlows
<1>8. ASSUME NEW id \in Id, NEW caller \in Address,
             \/ InitiateDispute(id, caller)
             \/ \E to \in Address, amt \in Amounts :
                  ApprovePartialRelease(id, caller, to, amt)
      PROVE  Still
  BY <1>8 DEF InitiateDispute, ApprovePartialRelease, Still, Net, Paid
<1>9. ASSUME Environment \/ UNCHANGED vars
      PROVE  Still
  BY <1>9 DEF Environment, ProfileChange, NextLedger, vars, escrowVars, Still, Net, Paid
<1> QED
  BY <1>1, <1>2, <1>3, <1>4, <1>5, <1>6, <1>7, <1>8, <1>9 DEF Next, Call

\* Every call keeps the pool of a token at the sum over its escrows.
LEMMA PoolIsNetStep == TypeOK /\ TypeOK' /\ PoolIsNet /\ [Next]_vars => PoolIsNet'
<1> SUFFICES ASSUME TypeOK, TypeOK', PoolIsNet, [Next]_vars, NEW t \in Token
             PROVE  (balance[t] = SumOver(NetOf, IdsOf(t)))'
  BY DEF PoolIsNet
<1> DEFINE S == IdsOf(t)
           f == NetOf
           e == NetOf'
<1>1. /\ IsFiniteSet(S) /\ S \subseteq Id
      /\ balance[t] = SumOver(f, S)
      /\ balance[t] \in Nat
  BY IdsFinite DEF PoolIsNet, TypeOK
<1>2. \A j \in Id : f[j] = Net(j) /\ e[j] = Net(j)'
  BY DEF NetOf
<1>3. \A j \in Id : f[j] \in Int /\ e[j] \in Int
  <2> SUFFICES ASSUME NEW j \in Id
               PROVE  Net(j) \in Int /\ Net(j)' \in Int
    BY <1>2
  <2>1. book[j] \in BookType /\ book'[j] \in BookType
    BY DEF TypeOK
  <2> QED
    BY <2>1 DEF BookType, Net, Paid
<1>4. (balance[t] = SumOver(NetOf, IdsOf(t)))' <=> balance'[t] = SumOver(e, S)
  BY DEF IdsOf
<1> HIDE DEF f, e, S
<1>5. CASE Still
  <2>1. SumOver(e, S) = SumOver(f, S)
    BY <1>1, <1>2, <1>5, SumSame DEF Still
  <2> QED
    BY <1>1, <1>4, <1>5, <2>1 DEF Still
<1>6. ASSUME NEW id \in Id, Flows(id)
      PROVE  balance'[t] = SumOver(e, S)
  <2>1. \A j \in Id : j # id => e[j] = f[j]
    BY <1>2, <1>6 DEF Flows
  <2>2. id \in S <=> id.terms.token = t
    BY DEF S, IdsOf
  <2>3. CASE id \in S
    <3>1. SumOver(e, S) = SumOver(f, S) + (e[id] - f[id])
      BY <1>1, <1>3, <2>1, <2>3, SumChange
    <3>2. balance'[t] = balance[t] + (e[id] - f[id])
      BY <1>2, <1>6, <2>2, <2>3 DEF Flows, TypeOK
    <3> QED
      BY <1>1, <3>1, <3>2
  <2>4. CASE id \notin S
    <3>1. SumOver(e, S) = SumOver(f, S)
      BY <1>1, <2>1, <2>4, SumSame
    <3>2. balance'[t] = balance[t]
      BY <1>6, <2>2, <2>4 DEF Flows, TypeOK
    <3> QED
      BY <1>1, <3>1, <3>2
  <2> QED
    BY <2>3, <2>4
<1> QED
  BY <1>4, <1>5, <1>6, EveryStepFlows

\* Nothing was taken in or paid out at first.
LEMMA PoolIsNetInit == Init => PoolIsNet
<1> SUFFICES ASSUME Init, NEW t \in Token
             PROVE  balance[t] = SumOver(NetOf, IdsOf(t))
  BY DEF PoolIsNet
<1>1. \A id \in IdsOf(t) : NetOf[id] = 0
  BY DEF Init, NoEntries, NetOf, Net, Paid, IdsOf
<1>2. SumOver(NetOf, IdsOf(t)) = 0
  BY <1>1, IdsFinite, SumZero
<1> QED
  BY <1>2 DEF Init

\* With every account balanced, the sums over the escrows are those of the
\* property.
LEMMA NetIsPool == TypeOK /\ Accounted /\ PoolIsNet => PoolBalances
<1> SUFFICES ASSUME TypeOK, Accounted, PoolIsNet, NEW t \in Token
             PROVE  balance[t] + Sum([id \in Id |-> book[id].unbacked], IdsOf(t)) =
                      Sum([id \in Id |-> Held(id) + book[id].stranded], IdsOf(t))
  BY DEF PoolBalances
<1> DEFINE S == IdsOf(t)
           u == [id \in Id |-> book[id].unbacked]
           h == [id \in Id |-> Held(id) + book[id].stranded]
           n == NetOf
<1>1. IsFiniteSet(S) /\ S \subseteq Id /\ balance[t] = SumOver(n, S)
  BY IdsFinite DEF PoolIsNet
<1>2. ASSUME NEW id \in Id
      PROVE  n[id] \in Int /\ u[id] \in Int /\ h[id] = n[id] + u[id]
  <2>1. book[id] \in BookType /\ Held(id) \in Nat /\ Paid(id) \in Nat
    BY DEF TypeOK, BookType, EscrowType, Held, Paid
  <2>2. book[id].deposited + book[id].unbacked
          = Paid(id) + Held(id) + book[id].stranded
    BY DEF Accounted, Balanced
  <2> QED
    BY <2>1, <2>2 DEF BookType, NetOf, Net
<1>3. /\ Sum(u, S) = SumOver(u, S)
      /\ Sum(h, S) = SumOver(h, S)
  BY DEF Sum, SumOver
<1> HIDE DEF S, u, h, n
<1>4. SumOver(h, S) = SumOver(n, S) + SumOver(u, S)
  BY <1>1, <1>2, SumPlus
<1>5. balance[t] + Sum(u, S) = Sum(h, S)
  BY <1>1, <1>3, <1>4
<1> QED
  BY <1>5 DEF S, u, h

\* The pool of a token is what its escrows hold and what re-creations wrote off,
\* less what timeouts of never-funded escrows took out of it, in every behaviour
\* of the contract.
THEOREM PoolBalancesAlways == Spec => []PoolBalances
BY PoolIsNetInit, TypeCorrect, AccountedAlways, PoolIsNetStep, NetIsPool, PTL
   DEF Spec

-----------------------------------------------------------------------------
(* In a disciplined environment nothing is advanced or written off, so the  *)
(* account of an escrow reduces to deposit = paid + held.                   *)

Clean == \A id \in Id : book[id].unbacked = 0 /\ book[id].stranded = 0

\* A payment for an escrow that holds its money advances nothing.
LEMMA PayClean ==
  ASSUME TypeOK, Clean, NEW id \in Id, NEW x \in Nat, NEW y \in Nat,
         Pay(id, x, y), escrow[id].status # "Pending"
  PROVE  Clean'
<1>1. Advanced(id, x + y) = 0
  BY DEF Advanced
<1>2. /\ book'[id].stranded = book[id].stranded
      /\ book'[id].unbacked = book[id].unbacked + Advanced(id, x + y)
      /\ \A j \in Id \ {id} : book'[j] = book[j]
  BY PayBook
<1>3. book[id].unbacked = 0 /\ book[id].stranded = 0
  BY DEF Clean
<1>4. book'[id].unbacked = 0 /\ book'[id].stranded = 0
  BY <1>1, <1>2, <1>3
<1> QED
  BY <1>2, <1>4 DEF Clean

\* The same for a payment to one of the two payees.
LEMMA PayToClean ==
  ASSUME TypeOK, Clean, NEW id \in Id, NEW to, NEW x \in Nat,
         PayTo(id, to, x), escrow[id].status # "Pending"
  PROVE  Clean'
<1>1. x \in Nat /\ 0 \in Nat
  OBVIOUS
<1>2. Pay(id, x, 0) \/ Pay(id, 0, x)
  BY DEF PayTo
<1> QED
  BY <1>1, <1>2, PayClean

\* No call of a disciplined environment advances or writes off money.
LEMMA CleanStep == TypeOK /\ Clean /\ [DisciplinedNext]_vars => Clean'
<1> SUFFICES ASSUME TypeOK, Clean, [DisciplinedNext]_vars
             PROVE  Clean'
  OBVIOUS
<1>1. ASSUME NEW terms \in Terms, now <= Horizon,
             ~Exists([terms |-> terms, at |-> now]), Create(terms)
      PROVE  Clean'
  <2> DEFINE id == [terms |-> terms, at |-> now]
  <2>1. id \in Id
    BY <1>1, EscrowAssumption DEF Id, RateTypeOK, TypeOK
  <2>2. Held(id) = 0
    BY <1>1 DEF Held, Exists
  <2>3. book' = [book EXCEPT ![id].stranded = @ + Held(id)]
    BY <1>1 DEF Create
  <2> QED
    BY <2>1, <2>2, <2>3 DEF Clean, TypeOK, BookType
<1>2. ASSUME NEW id \in Id, NEW caller \in Address, FundEscrow(id, caller)
      PROVE  Clean'
  BY <1>2 DEF FundEscrow, PayIn, Clean, TypeOK, BookType
<1>3. ASSUME NEW id \in Id, NEW caller \in Address, NEW to \in Address,
             ApproveRelease(id, caller, to)
      PROVE  Clean'
  <2>1. escrow[id].amount \in Nat /\ escrow[id].status = "Funded"
    BY <1>3 DEF ApproveRelease, IsFunded, TypeOK, EscrowType
  <2>2. CASE UNCHANGED book
    BY <2>2 DEF Clean
  <2>3. CASE PayTo(id, to, escrow[id].amount)
    BY <2>1, <2>3, PayToClean
  <2> QED
    BY <1>3, <2>2, <2>3 DEF ApproveRelease
<1>4. ASSUME NEW id \in Id, escrow[id].status = "Funded", ReleaseEscrowOnTimeout(id)
      PROVE  Clean'
  <2>1. escrow[id].amount \in Nat /\ Pay(id, escrow[id].amount, 0)
    BY <1>4 DEF ReleaseEscrowOnTimeout, TypeOK, EscrowType
  <2> QED
    BY <1>4, <2>1, PayClean
<1>5. ASSUME NEW id \in Id, NEW caller \in Address, NEW to \in Address,
             NEW amt \in Amounts, ReleaseEscrowPartial(id, caller, amt, to)
      PROVE  Clean'
  <2>1. /\ amt \in Nat
        /\ escrow[id].status = "Funded"
        /\ PayTo(id, to, amt)
    BY <1>5, EscrowAssumption DEF ReleaseEscrowPartial, IsFunded
  <2> QED
    BY <2>1, PayToClean
<1>6. ASSUME NEW id \in Id, NEW caller \in Address, NEW damage \in Amounts,
             ReleaseWithDeduction(id, caller, damage)
      PROVE  Clean'
  <2>1. escrow[id].amount \in Nat
    BY DEF TypeOK, EscrowType
  <2>2. damage \in Int /\ damage >= 0 /\ damage <= escrow[id].amount
    BY <1>6, EscrowAssumption DEF ReleaseWithDeduction, WithinAmount
  <2>3. damage \in Nat /\ Refund(id, damage) \in Nat
    BY <2>1, <2>2 DEF Refund
  <2>4. Pay(id, Refund(id, damage), damage) /\ escrow[id].status = "Funded"
    BY <1>6 DEF ReleaseWithDeduction, IsFunded
  <2> QED
    BY <2>3, <2>4, PayClean
<1>7. ASSUME NEW id \in Id, NEW caller \in Address, NEW to \in Address,
             ResolveDispute(id, caller, to)
      PROVE  Clean'
  <2>1. /\ escrow[id].amount \in Nat
        /\ escrow[id].status = "Disputed"
        /\ PayTo(id, to, escrow[id].amount)
    BY <1>7 DEF ResolveDispute, TypeOK, EscrowType
  <2> QED
    BY <2>1, PayToClean
<1>8. ASSUME NEW id \in Id, ResolveDisputeOnTimeout(id)
      PROVE  Clean'
  <2>1. /\ escrow[id].amount \in Nat
        /\ escrow[id].status = "Disputed"
        /\ Pay(id, escrow[id].amount, 0)
    BY <1>8 DEF ResolveDisputeOnTimeout, TypeOK, EscrowType
  <2> QED
    BY <2>1, PayClean
<1>9. ASSUME UNCHANGED book
      PROVE  Clean'
  BY <1>9 DEF Clean
<1>10. ASSUME NEW id \in Id, NEW caller \in Address, NEW to \in Address,
              NEW amt \in Amounts, ApprovePartialRelease(id, caller, to, amt)
       PROVE  Clean'
  BY <1>9, <1>10 DEF ApprovePartialRelease
<1>11. ASSUME NEW id \in Id, NEW caller \in Address, InitiateDispute(id, caller)
       PROVE  Clean'
  BY <1>9, <1>11 DEF InitiateDispute
<1>12. ASSUME Environment \/ UNCHANGED vars
       PROVE  Clean'
  BY <1>9, <1>12 DEF Environment, ProfileChange, NextLedger, vars, escrowVars
<1> QED
  BY <1>1, <1>2, <1>3, <1>4, <1>5, <1>6, <1>7, <1>8, <1>10, <1>11, <1>12
     DEF DisciplinedNext, Call

\* As long as no client repeats a create within one ledger and nobody times out
\* an escrow that was never funded, every escrow pays out its own deposit, the
\* whole of it and nothing else, whatever the parties do.
THEOREM PaysItsDepositAlways == DisciplinedSpec => []PaysItsDeposit
<1>1. Init => TypeOK /\ Accounted /\ Clean
  BY TypeInit DEF Init, Accounted, Balanced, Paid, Held, NoEscrow, NoEntries, Clean
<1>2. TypeOK /\ Accounted /\ Clean /\ [DisciplinedNext]_vars
        => (TypeOK /\ Accounted /\ Clean)'
  BY DisciplinedIsNext, TypeStep, AccountedStep, CleanStep
<1>3. TypeOK /\ Accounted /\ Clean => PaysItsDeposit
  <2> SUFFICES ASSUME TypeOK, Accounted, Clean, NEW id \in Id
               PROVE  book[id].deposited = Paid(id) + Held(id)
    BY DEF PaysItsDeposit
  <2>1. book[id] \in BookType /\ Paid(id) \in Nat /\ Held(id) \in Nat
    BY DEF TypeOK, BookType, Paid, Held, EscrowType
  <2> QED
    BY <2>1 DEF Accounted, Balanced, Clean, BookType
<1> QED
  BY <1>1, <1>2, <1>3, PTL DEF DisciplinedSpec

\* In the same environment the pool of a token covers its live escrows in full,
\* so that no release draws on the money of another escrow.  (Without the
\* discipline a repeated create or an early timeout refutes it.)
THEOREM SolventIfDisciplined == DisciplinedSpec => []Solvent
<1>1. Init => TypeOK /\ PoolIsNet
  BY TypeInit, PoolIsNetInit
<1>2. TypeOK /\ PoolIsNet /\ [DisciplinedNext]_vars => (TypeOK /\ PoolIsNet)'
  BY DisciplinedIsNext, TypeStep, PoolIsNetStep
<1>3. TypeOK /\ PoolIsNet /\ PaysItsDeposit => Solvent
  <2> SUFFICES ASSUME TypeOK, PoolIsNet, PaysItsDeposit, NEW t \in Token
               PROVE  balance[t] >= Sum([id \in Id |-> Held(id)], IdsOf(t))
    BY DEF Solvent
  <2> DEFINE S == IdsOf(t)
             h == [id \in Id |-> Held(id)]
             n == NetOf
  <2>1. \A id \in Id : n[id] = h[id]
    <3> SUFFICES ASSUME NEW id \in Id
                 PROVE  Net(id) = Held(id)
      BY DEF NetOf
    <3>1. Paid(id) \in Nat /\ Held(id) \in Nat
      BY DEF TypeOK, BookType, Paid, Held, EscrowType
    <3> QED
      BY <3>1 DEF PaysItsDeposit, Net
  <2>2. /\ IsFiniteSet(S) /\ S \subseteq Id
        /\ balance[t] = SumOver(n, S) /\ balance[t] \in Nat
    BY IdsFinite DEF PoolIsNet, TypeOK
  <2>3. Sum(h, S) = SumOver(h, S)
    BY DEF Sum, SumOver
  <2> HIDE DEF S, h, n
  <2>4. SumOver(n, S) = SumOver(h, S)
    BY <2>1, <2>2, SumSame
  <2>5. balance[t] >= Sum(h, S)
    BY <2>2, <2>3, <2>4
  <2> QED
    BY <2>5 DEF S, h
<1> QED
  BY <1>1, <1>2, <1>3, PaysItsDepositAlways, PTL DEF DisciplinedSpec

-----------------------------------------------------------------------------
(* A settled escrow stays settled, and a disputed one moves only by ruling.  *)

\* What SettledForGood says of one escrow in one step.
StaysSettled(id) ==
  /\ Settled(id) => escrow'[id] = escrow[id] /\ book'[id] = book[id]
  /\ escrow[id].status = "Disputed" =>
       \/ escrow'[id] = escrow[id] /\ book'[id] = book[id]
       \/ Settled(id)' /\ Paid(id)' = Paid(id) + escrow[id].amount

\* Every step other than a create leaves each escrow as StaysSettled says.
LEMMA SettledStep ==
  ASSUME TypeOK, [Next]_vars, created' = created, NEW j \in Id
  PROVE  StaysSettled(j)
<1>1. ASSUME NEW terms \in Terms, Create(terms)
      PROVE  FALSE
  BY <1>1 DEF Create, TypeOK
<1>2. ASSUME NEW id \in Id, escrow[id].status \in {"Pending", "Funded"},
             \A i \in Id \ {id} : escrow'[i] = escrow[i],
             \A i \in Id \ {id} : book'[i] = book[i]
      PROVE  StaysSettled(j)
  BY <1>2 DEF StaysSettled, Settled
<1>3. ASSUME NEW id \in Id, NEW caller \in Address, FundEscrow(id, caller)
      PROVE  StaysSettled(j)
  BY <1>2, <1>3, SetStatusEffect DEF FundEscrow, PayIn, TypeOK
<1>4. ASSUME NEW id \in Id, NEW caller \in Address, NEW to \in Address,
             ApproveRelease(id, caller, to)
      PROVE  StaysSettled(j)
  <2>1. escrow[id].amount \in Nat /\ escrow[id].status = "Funded"
    BY <1>4 DEF ApproveRelease, IsFunded, TypeOK, EscrowType
  <2>2. CASE UNCHANGED <<escrow, balance, book>>
    BY <1>2, <2>1, <2>2
  <2>3. CASE SetStatus(id, "Released") /\ PayTo(id, to, escrow[id].amount)
    BY <1>2, <2>1, <2>3, SetStatusEffect, PayToBook
  <2> QED
    BY <1>4, <2>2, <2>3 DEF ApproveRelease
<1>5. ASSUME NEW id \in Id, ReleaseEscrowOnTimeout(id)
      PROVE  StaysSettled(j)
  <2>1. /\ escrow[id].amount \in Nat
        /\ escrow[id].status \in {"Pending", "Funded"}
        /\ SetStatus(id, "Refunded")
        /\ Pay(id, escrow[id].amount, 0)
    BY <1>5 DEF ReleaseEscrowOnTimeout, IsStale, TypeOK, EscrowType
  <2> QED
    BY <1>2, <2>1, SetStatusEffect, PayBook
<1>6. ASSUME NEW id \in Id, NEW caller \in Address, NEW to \in Address,
             NEW amt \in Amounts, ReleaseEscrowPartial(id, caller, amt, to)
      PROVE  StaysSettled(j)
  <2>1. /\ amt \in Nat
        /\ escrow[id].status = "Funded"
        /\ ReduceAmount(id, amt)
        /\ PayTo(id, to, amt)
    BY <1>6, EscrowAssumption DEF ReleaseEscrowPartial, IsFunded
  <2>2. \A i \in Id \ {id} : escrow'[i] = escrow[i]
    BY <2>1 DEF ReduceAmount, TypeOK
  <2> QED
    BY <1>2, <2>1, <2>2, PayToBook
<1>7. ASSUME NEW id \in Id, NEW caller \in Address, NEW damage \in Amounts,
             ReleaseWithDeduction(id, caller, damage)
      PROVE  StaysSettled(j)
  <2>1. escrow[id].amount \in Nat
    BY DEF TypeOK, EscrowType
  <2>2. damage \in Int /\ damage >= 0 /\ damage <= escrow[id].amount
    BY <1>7, EscrowAssumption DEF ReleaseWithDeduction, WithinAmount
  <2>3. damage \in Nat /\ Refund(id, damage) \in Nat
    BY <2>1, <2>2 DEF Refund
  <2>4. /\ escrow[id].status = "Funded"
        /\ SetStatus(id, "Released")
        /\ Pay(id, Refund(id, damage), damage)
    BY <1>7 DEF ReleaseWithDeduction, IsFunded
  <2> QED
    BY <1>2, <2>3, <2>4, SetStatusEffect, PayBook
<1>8. ASSUME NEW id \in Id, NEW caller \in Address, InitiateDispute(id, caller)
      PROVE  StaysSettled(j)
  <2>1. /\ escrow[id].status = "Funded"
        /\ \A i \in Id \ {id} : escrow'[i] = escrow[i]
        /\ book' = book
    BY <1>8 DEF InitiateDispute, IsFunded, TypeOK
  <2> QED
    BY <1>2, <2>1
<1>9. ASSUME NEW id \in Id, NEW x \in Nat, x = escrow[id].amount,
             escrow[id].status = "Disputed",
             escrow'[id].status \in {"Released", "Refunded"},
             Paid(id)' = Paid(id) + x,
             \A i \in Id \ {id} : escrow'[i] = escrow[i],
             \A i \in Id \ {id} : book'[i] = book[i]
      PROVE  StaysSettled(j)
  BY <1>9 DEF StaysSettled, Settled
<1>10. ASSUME NEW id \in Id, NEW caller \in Address, NEW to \in Address,
              ResolveDispute(id, caller, to)
       PROVE  StaysSettled(j)
  <2>1. /\ escrow[id].amount \in Nat
        /\ escrow[id].status = "Disputed"
        /\ escrow'[id].status \in {"Released", "Refunded"}
        /\ \A i \in Id \ {id} : escrow'[i] = escrow[i]
        /\ PayTo(id, to, escrow[id].amount)
    BY <1>10 DEF ResolveDispute, TypeOK, EscrowType
  <2>2. /\ Paid(id)' = Paid(id) + escrow[id].amount
        /\ \A i \in Id \ {id} : book'[i] = book[i]
    BY <2>1, PayToBook
  <2> QED
    BY <1>9, <2>1, <2>2
<1>11. ASSUME NEW id \in Id, ResolveDisputeOnTimeout(id)
       PROVE  StaysSettled(j)
  <2>1. /\ escrow[id].amount \in Nat
        /\ escrow[id].status = "Disputed"
        /\ escrow'[id].status \in {"Released", "Refunded"}
        /\ \A i \in Id \ {id} : escrow'[i] = escrow[i]
        /\ Pay(id, escrow[id].amount, 0)
    BY <1>11 DEF ResolveDisputeOnTimeout, TypeOK, EscrowType
  <2>2. Paid(id) \in Nat
    BY DEF TypeOK, Paid, BookType
  <2>3. /\ Paid(id)' = Paid(id) + escrow[id].amount
        /\ \A i \in Id \ {id} : book'[i] = book[i]
    BY <2>1, <2>2, PayBook
  <2> QED
    BY <1>9, <2>1, <2>3
<1>12. ASSUME UNCHANGED <<escrow, book>>
       PROVE  StaysSettled(j)
  BY <1>12 DEF StaysSettled
<1>13. ASSUME NEW id \in Id, NEW caller \in Address, NEW to \in Address,
              NEW amt \in Amounts, ApprovePartialRelease(id, caller, to, amt)
       PROVE  StaysSettled(j)
  BY <1>12, <1>13 DEF ApprovePartialRelease
<1>14. ASSUME Environment \/ UNCHANGED vars
       PROVE  StaysSettled(j)
  BY <1>12, <1>14 DEF Environment, ProfileChange, NextLedger, vars, escrowVars
<1> QED
  BY <1>1, <1>3, <1>4, <1>5, <1>6, <1>7, <1>8, <1>10, <1>11, <1>13, <1>14
     DEF Next, Call

\* No call revives a settled escrow or pays from it again, and a disputed one is
\* paid out once, in full, by the ruling or the timeout that settles it.
THEOREM SettledForGoodAlways == Spec => SettledForGood
<1>1. TypeOK /\ [Next]_vars
        => [created' = created =>
              \A id \in Id :
                /\ Settled(id) => escrow'[id] = escrow[id] /\ book'[id] = book[id]
                /\ escrow[id].status = "Disputed" =>
                     \/ escrow'[id] = escrow[id] /\ book'[id] = book[id]
                     \/ Settled(id)' /\ Paid(id)' = Paid(id) + escrow[id].amount]_vars
  BY SettledStep DEF StaysSettled
<1> QED
  BY <1>1, TypeCorrect, PTL DEF Spec, SettledForGood

-----------------------------------------------------------------------------
(* The administration, in the contract it administers.                     *)

\* The calls on escrows, the profile changes and the ledgers leave it alone; the
\* rest are its own calls.
LEMMA AdminStep == [Next]_vars => [AdminNext]_adminVars
<1> SUFFICES ASSUME [Next]_vars
             PROVE  AdminNext \/ UNCHANGED adminVars
  OBVIOUS
<1>1. ASSUME NEW terms \in Terms, Create(terms)
      PROVE  UNCHANGED adminVars
  BY <1>1 DEF Create
<1>2. ASSUME NEW id \in Id, Call(id)
      PROVE  UNCHANGED adminVars
  <2>1. ASSUME NEW caller \in Address,
               \/ FundEscrow(id, caller)
               \/ InitiateDispute(id, caller)
               \/ \E damage \in Amounts : ReleaseWithDeduction(id, caller, damage)
        PROVE  UNCHANGED adminVars
    BY <2>1 DEF FundEscrow, InitiateDispute, ReleaseWithDeduction
  <2>2. ASSUME NEW caller \in Address, NEW to \in Address,
               ApproveRelease(id, caller, to) \/ ResolveDispute(id, caller, to)
        PROVE  UNCHANGED adminVars
    BY <2>2 DEF ApproveRelease, ResolveDispute
  <2>3. ASSUME NEW caller \in Address, NEW to \in Address, NEW amt \in Amounts,
               ApprovePartialRelease(id, caller, to, amt) \/ ReleaseEscrowPartial(id, caller, amt, to)
        PROVE  UNCHANGED adminVars
    BY <2>3 DEF ApprovePartialRelease, ReleaseEscrowPartial
  <2>4. ResolveDisputeOnTimeout(id) => UNCHANGED adminVars
    BY DEF ResolveDisputeOnTimeout
  <2> QED
    BY <1>2, <2>1, <2>2, <2>3, <2>4 DEF Call
<1>3. ASSUME NEW id \in Id, ReleaseEscrowOnTimeout(id)
      PROVE  UNCHANGED adminVars
  BY <1>3 DEF ReleaseEscrowOnTimeout
<1>4. Environment => AdminNext \/ UNCHANGED adminVars
  BY DEF Environment, ProfileChange, NextLedger
<1>5. UNCHANGED vars => UNCHANGED adminVars
  BY DEF vars
<1> QED
  BY <1>1, <1>2, <1>3, <1>4, <1>5 DEF Next

\* The contract administers itself as EscrowAdmin says, whatever happens to its
\* escrows: no call on an escrow is a way around the admin's calls.
THEOREM AdminImplemented == Spec => AdminSpec
<1>1. Init => AdminInit
  BY DEF Init
<1> QED
  BY <1>1, AdminStep, PTL DEF Spec, AdminSpec

\* In the contract as it runs, an offer of the admin role is of the admin of the
\* moment.
THEOREM ProposalIsCurrentAlways == Spec => []ProposalIsCurrent
BY AdminImplemented, AdminProposalIsCurrent, PTL

\* In the contract as it runs, the admin hands the role over by its own proposal
\* only.
THEOREM HandoverByConsentAlways == Spec => HandoverByConsent
BY AdminImplemented, AdminHandoverByConsent, PTL
=============================================================================
