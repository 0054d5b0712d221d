------------------------ MODULE EscrowRefinementProofs ------------------------
(***************************************************************************)
(* Proof that the approval counters of the escrow contract, which decide a *)
(* release in O(1), count the distinct parties whose flags are set, and,   *)
(* on top of it, that the contract in a disciplined environment implements *)
(* Vault: its initial states map to initial states of the vault and each   *)
(* of its calls to one action of the vault or to a stutter.                *)
(*                                                                         *)
(* CountsMatchSigners is not inductive: a clear resets the counters of the *)
(* two payees and removes the flags of the three parties, so the flags     *)
(* must be known to be theirs.  WholeMatch and AmountMatch add that to the *)
(* two halves of the property, and each is inductive.  From them follows   *)
(* that two different parties agree to every payment of a funded escrow.   *)
(*                                                                         *)
(* The mapping reads the flags, never the counters, so the two consents of *)
(* a release come from WholeMatch and AmountMatch; that a funding deposits *)
(* the price comes from Undrawn, and that a payment reaches one payee and  *)
(* not both from Distinct.                                                 *)
(***************************************************************************)
EXTENDS EscrowRefinement, EscrowProofs

Parties(id) == Payees(id) \cup {id.terms.arbiter}

-----------------------------------------------------------------------------
\* Three addresses are finitely many.
LEMMA ThreeFinite ==
  ASSUME NEW a, NEW b, NEW c
  PROVE  IsFiniteSet({a, b} \cup {c})
<1>1. IsFiniteSet({a})
  BY FS_Singleton
<1>2. IsFiniteSet({a} \cup {b})
  BY <1>1, FS_AddElement
<1>3. {a, b} = {a} \cup {b}
  OBVIOUS
<1>4. IsFiniteSet({a, b})
  BY <1>2, <1>3
<1> QED
  BY <1>4, FS_AddElement

\* The parties of an escrow are finitely many addresses.
LEMMA PartiesFinite ==
  ASSUME NEW id \in Id
  PROVE  IsFiniteSet(Parties(id)) /\ Parties(id) \subseteq Address
<1>1. IsFiniteSet(Parties(id))
  BY ThreeFinite DEF Parties, Payees
<1> QED
  BY <1>1, IdTypes DEF Parties

\* A flag that was not set adds one signer to the pair it is for.
LEMMA OneMore ==
  ASSUME NEW S, IsFiniteSet(S), NEW a, a \notin S, NEW n \in Nat,
         n = Cardinality(S)
  PROVE  Cardinality(S \cup {a}) = n + 1
BY FS_AddElement

\* The half of the invariant about whole releases, and the half about amounts.
WholeMatch ==
  \A id \in Id :
    /\ signed[id] \subseteq Parties(id) \X Payees(id)
    /\ \A to \in Address : count[id][to] = Cardinality(Signers(id, to))

AmountMatch ==
  \A id \in Id :
    /\ amountSigned[id] \subseteq Parties(id) \X Payees(id) \X Amounts
    /\ \A to \in Address, amt \in Amounts :
         amountCount[id][<<to, amt>>] = Cardinality(AmountSigners(id, to, amt))

\* Each half depends on two of the maps.
LEMMA HalfFrame ==
  /\ WholeMatch /\ UNCHANGED <<count, signed>> => WholeMatch'
  /\ AmountMatch /\ UNCHANGED <<amountCount, amountSigned>> => AmountMatch'
BY DEF WholeMatch, AmountMatch, Signers, AmountSigners

\* clear_approval_counts leaves no counter without its flags, nor a flag
\* without its counter.
LEMMA ClearWhole ==
  ASSUME TypeOK, WholeMatch, NEW id \in Id, ClearApprovalCounts(id)
  PROVE  WholeMatch'
<1> SUFFICES ASSUME NEW j \in Id, NEW to \in Address
             PROVE  /\ signed'[j] \subseteq Parties(j) \X Payees(j)
                    /\ count'[j][to] = Cardinality(Signers(j, to)')
  BY IdTypes DEF WholeMatch
<1>1. CASE j # id
  <2>1. signed'[j] = signed[j] /\ count'[j] = count[j]
    BY <1>1 DEF ClearApprovalCounts, TypeOK
  <2> QED
    BY <2>1 DEF WholeMatch, Signers
<1>2. CASE j = id
  <2>1. signed'[j] = {f \in signed[j] : ~(IsParty(j, f[1]) /\ f[2] \in Payees(j))}
    BY <1>2 DEF ClearApprovalCounts, TypeOK
  <2>2. signed'[j] = {}
    <3>1. signed[j] \subseteq Parties(j) \X Payees(j)
      BY DEF WholeMatch
    <3> QED
      BY <2>1, <3>1 DEF IsParty, Parties
  <2>3. Signers(j, to)' = {}
    BY <2>2 DEF Signers
  <2>4. count'[j][to] = 0
    <3>1. count'[j][to] = IF to \in Payees(j) THEN 0 ELSE count[j][to]
      BY <1>2 DEF ClearApprovalCounts, TypeOK
    <3>2. CASE to \in Payees(j)
      BY <3>1, <3>2
    <3>3. CASE to \notin Payees(j)
      <4>1. Signers(j, to) = {}
        BY <3>3 DEF WholeMatch, Signers
      <4> QED
        BY <3>1, <3>3, <4>1, FS_EmptySet DEF WholeMatch
    <3> QED
      BY <3>2, <3>3
  <2> QED
    BY <2>2, <2>3, <2>4, FS_EmptySet
<1> QED
  BY <1>1, <1>2

\* clear_amount_approval does the same for the counter of one pair, and leaves
\* those of the other pairs alone.
LEMMA ClearAmount ==
  ASSUME TypeOK, AmountMatch, NEW id \in Id, NEW pt \in Address, NEW pa \in Amounts,
         ClearAmountApproval(id, pt, pa)
  PROVE  AmountMatch'
<1> SUFFICES ASSUME NEW j \in Id, NEW to \in Address, NEW amt \in Amounts
             PROVE  /\ amountSigned'[j] \subseteq Parties(j) \X Payees(j) \X Amounts
                    /\ amountCount'[j][<<to, amt>>]
                         = Cardinality(AmountSigners(j, to, amt)')
  BY DEF AmountMatch
<1>0. /\ amountSigned[j] \subseteq Parties(j) \X Payees(j) \X Amounts
      /\ amountCount[j][<<to, amt>>] = Cardinality(AmountSigners(j, to, amt))
  BY DEF AmountMatch
<1>1. CASE j # id
  <2>1. amountSigned'[j] = amountSigned[j] /\ amountCount'[j] = amountCount[j]
    BY <1>1 DEF ClearAmountApproval, TypeOK
  <2> QED
    BY <1>0, <2>1 DEF AmountSigners
<1>2. CASE j = id
  <2>1. amountSigned'[j] =
          {f \in amountSigned[j] : ~(IsParty(j, f[1]) /\ f[2] = pt /\ f[3] = pa)}
    BY <1>2 DEF ClearAmountApproval, TypeOK
  <2>2. amountCount'[j][<<to, amt>>] =
          IF to = pt /\ amt = pa THEN 0 ELSE amountCount[j][<<to, amt>>]
    BY <1>2 DEF ClearAmountApproval, TypeOK
  <2>3. CASE to = pt /\ amt = pa
    <3>1. AmountSigners(j, to, amt)' = {}
      BY <1>0, <2>1, <2>3 DEF AmountSigners, IsParty, Parties
    <3> QED
      BY <1>0, <2>1, <2>2, <2>3, <3>1, FS_EmptySet
  <2>4. CASE ~(to = pt /\ amt = pa)
    <3>1. AmountSigners(j, to, amt)' = AmountSigners(j, to, amt)
      BY <2>1, <2>4 DEF AmountSigners
    <3> QED
      BY <1>0, <2>1, <2>2, <2>4, <3>1
  <2> QED
    BY <2>3, <2>4
<1> QED
  BY <1>1, <1>2

\* The first signature for a target.
LEMMA SignWhole ==
  ASSUME TypeOK, WholeMatch, NEW id \in Id, NEW signer \in Parties(id),
         NEW pt \in Payees(id), ~HasApproved(id, signer, pt),
         count' = [count EXCEPT ![id][pt] = @ + 1],
         signed' = [signed EXCEPT ![id] = @ \cup {<<signer, pt>>}]
  PROVE  WholeMatch'
<1> SUFFICES ASSUME NEW j \in Id, NEW to \in Address
             PROVE  /\ signed'[j] \subseteq Parties(j) \X Payees(j)
                    /\ count'[j][to] = Cardinality(Signers(j, to)')
  BY IdTypes DEF WholeMatch
<1>0. /\ signed[j] \subseteq Parties(j) \X Payees(j)
      /\ count[j][to] = Cardinality(Signers(j, to))
      /\ count[j][to] \in Nat
  BY DEF WholeMatch, TypeOK
<1>1. CASE j # id
  <2>1. signed'[j] = signed[j] /\ count'[j] = count[j]
    BY <1>1 DEF TypeOK
  <2> QED
    BY <1>0, <2>1 DEF Signers
<1>2. CASE j = id
  <2>1. signed'[j] = signed[j] \cup {<<signer, pt>>}
    BY <1>2 DEF TypeOK
  <2>2. count'[j][to] = IF to = pt THEN count[j][to] + 1 ELSE count[j][to]
    BY <1>2 DEF TypeOK
  <2>3. CASE to = pt
    <3>1. signer \in Address
      BY PartiesFinite
    <3>2. Signers(j, to)' = Signers(j, to) \cup {signer}
      BY <2>1, <2>3, <3>1 DEF Signers
    <3>3. signer \notin Signers(j, to)
      BY <1>2, <2>3 DEF Signers, HasApproved
    <3>4. IsFiniteSet(Signers(j, to))
      <4>1. Signers(j, to) \subseteq Parties(j)
        BY <1>0 DEF Signers
      <4> QED
        BY <4>1, PartiesFinite, FS_Subset
    <3>5. Cardinality(Signers(j, to) \cup {signer}) = count[j][to] + 1
      BY <1>0, <3>3, <3>4, OneMore
    <3> QED
      BY <1>0, <1>2, <2>1, <2>2, <2>3, <3>2, <3>5
  <2>4. CASE to # pt
    <3>1. Signers(j, to)' = Signers(j, to)
      BY <2>1, <2>4 DEF Signers
    <3> QED
      BY <1>0, <1>2, <2>1, <2>2, <2>4, <3>1
  <2> QED
    BY <2>3, <2>4
<1> QED
  BY <1>1, <1>2

\* A signature for a target and an amount.
LEMMA SignAmount ==
  ASSUME TypeOK, AmountMatch, NEW id \in Id, NEW signer \in Parties(id),
         NEW pt \in Payees(id), NEW pa \in Amounts,
         <<signer, pt, pa>> \notin amountSigned[id],
         amountSigned' = [amountSigned EXCEPT ![id] = @ \cup {<<signer, pt, pa>>}],
         amountCount' = [amountCount EXCEPT ![id][<<pt, pa>>] = @ + 1]
  PROVE  AmountMatch'
<1> SUFFICES ASSUME NEW j \in Id, NEW to \in Address, NEW amt \in Amounts
             PROVE  /\ amountSigned'[j] \subseteq Parties(j) \X Payees(j) \X Amounts
                    /\ amountCount'[j][<<to, amt>>]
                         = Cardinality(AmountSigners(j, to, amt)')
  BY IdTypes DEF AmountMatch
<1>0. /\ amountSigned[j] \subseteq Parties(j) \X Payees(j) \X Amounts
      /\ amountCount[j][<<to, amt>>] = Cardinality(AmountSigners(j, to, amt))
      /\ amountCount[j][<<to, amt>>] \in Nat
  BY DEF AmountMatch, TypeOK
<1>1. CASE j # id
  <2>1. amountSigned'[j] = amountSigned[j] /\ amountCount'[j] = amountCount[j]
    BY <1>1 DEF TypeOK
  <2> QED
    BY <1>0, <2>1 DEF AmountSigners
<1>2. CASE j = id
  <2>0. pt \in Address /\ signer \in Address
    BY IdTypes, PartiesFinite
  <2>1. amountSigned'[j] = amountSigned[j] \cup {<<signer, pt, pa>>}
    BY <1>2 DEF TypeOK
  <2>2. amountCount'[j][<<to, amt>>] =
          IF to = pt /\ amt = pa THEN amountCount[j][<<to, amt>>] + 1
                                 ELSE amountCount[j][<<to, amt>>]
    BY <1>2, <2>0 DEF TypeOK
  <2>3. amountSigned'[j] \subseteq Parties(j) \X Payees(j) \X Amounts
    BY <1>0, <1>2, <2>1
  <2>4. CASE to = pt /\ amt = pa
    <3>1. AmountSigners(j, to, amt)' = AmountSigners(j, to, amt) \cup {signer}
      BY <2>0, <2>1, <2>4 DEF AmountSigners
    <3>2. signer \notin AmountSigners(j, to, amt)
      BY <1>2, <2>4 DEF AmountSigners
    <3>3. IsFiniteSet(AmountSigners(j, to, amt))
      <4>1. AmountSigners(j, to, amt) \subseteq Parties(j)
        BY <1>0 DEF AmountSigners
      <4> QED
        BY <4>1, PartiesFinite, FS_Subset
    <3>4. Cardinality(AmountSigners(j, to, amt) \cup {signer})
            = amountCount[j][<<to, amt>>] + 1
      BY <1>0, <3>2, <3>3, OneMore
    <3> QED
      BY <2>2, <2>3, <2>4, <3>1, <3>4
  <2>5. CASE ~(to = pt /\ amt = pa)
    <3>1. AmountSigners(j, to, amt)' = AmountSigners(j, to, amt)
      BY <2>1, <2>5 DEF AmountSigners
    <3> QED
      BY <1>0, <2>2, <2>3, <2>5, <3>1
  <2> QED
    BY <2>4, <2>5
<1> QED
  BY <1>1, <1>2

-----------------------------------------------------------------------------
\* Every call keeps the counters of whole releases right.
LEMMA WholeStep == TypeOK /\ WholeMatch /\ [Next]_vars => WholeMatch'
<1> SUFFICES ASSUME TypeOK, WholeMatch, [Next]_vars
             PROVE  WholeMatch'
  OBVIOUS
<1>1. ASSUME NEW id \in Id, NEW caller \in Address, NEW to \in Address,
             ApproveRelease(id, caller, to)
      PROVE  WholeMatch'
  <2>1. caller \in Parties(id) /\ to \in Payees(id) /\ ~HasApproved(id, caller, to)
    BY <1>1 DEF ApproveRelease, IsParty, Parties
  <2>2. CASE /\ count' = [count EXCEPT ![id][to] = @ + 1]
             /\ signed' = [signed EXCEPT ![id] = @ \cup {<<caller, to>>}]
    BY <2>1, <2>2, SignWhole
  <2>3. CASE ClearApprovalCounts(id)
    BY <2>3, ClearWhole
  <2> QED
    BY <1>1, <2>2, <2>3 DEF ApproveRelease
<1>2. ASSUME NEW id \in Id,
             ReleaseEscrowOnTimeout(id) \/ ResolveDisputeOnTimeout(id)
      PROVE  WholeMatch'
  BY <1>2, ClearWhole DEF ReleaseEscrowOnTimeout, ResolveDisputeOnTimeout
<1>3. ASSUME UNCHANGED <<count, signed>>
      PROVE  WholeMatch'
  BY <1>3, HalfFrame
<1>4. ASSUME NEW terms \in Terms, Create(terms)
      PROVE  WholeMatch'
  BY <1>3, <1>4 DEF Create, approvalVars
<1>5. ASSUME NEW id \in Id, NEW caller \in Address,
             FundEscrow(id, caller) \/ InitiateDispute(id, caller)
      PROVE  WholeMatch'
  BY <1>3, <1>5 DEF FundEscrow, InitiateDispute, approvalVars
<1>6. ASSUME NEW id \in Id, NEW caller \in Address, NEW to \in Address,
             ResolveDispute(id, caller, to)
      PROVE  WholeMatch'
  BY <1>3, <1>6 DEF ResolveDispute
<1>7. ASSUME NEW id \in Id, NEW caller \in Address, NEW to \in Address,
             NEW amt \in Amounts,
             \/ ApprovePartialRelease(id, caller, to, amt)
             \/ ReleaseEscrowPartial(id, caller, amt, to)
      PROVE  WholeMatch'
  BY <1>3, <1>7 DEF ApprovePartialRelease, ReleaseEscrowPartial
<1>8. ASSUME NEW id \in Id, NEW caller \in Address, NEW damage \in Amounts,
             ReleaseWithDeduction(id, caller, damage)
      PROVE  WholeMatch'
  BY <1>3, <1>8 DEF ReleaseWithDeduction
<1>9. ASSUME Environment \/ UNCHANGED vars
      PROVE  WholeMatch'
  BY <1>3, <1>9
     DEF Environment, ProfileChange, NextLedger, vars, escrowVars, approvalVars
<1> QED
  BY <1>1, <1>2, <1>4, <1>5, <1>6, <1>7, <1>8, <1>9 DEF Next, Call

\* Every call keeps the counters of partial releases right.
LEMMA AmountStep == TypeOK /\ AmountMatch /\ [Next]_vars => AmountMatch'
<1> SUFFICES ASSUME TypeOK, AmountMatch, [Next]_vars
             PROVE  AmountMatch'
  OBVIOUS
<1>1. ASSUME NEW id \in Id, NEW caller \in Address, NEW to \in Address,
             NEW amt \in Amounts, ApprovePartialRelease(id, caller, to, amt)
      PROVE  AmountMatch'
  <2>1. caller \in Parties(id) /\ to \in Payees(id)
    BY <1>1 DEF ApprovePartialRelease, IsParty, Parties
  <2> QED
    BY <1>1, <2>1, SignAmount DEF ApprovePartialRelease
<1>2. ASSUME NEW id \in Id, NEW caller \in Address, NEW to \in Address,
             NEW amt \in Amounts, ReleaseEscrowPartial(id, caller, amt, to)
      PROVE  AmountMatch'
  BY <1>2, ClearAmount DEF ReleaseEscrowPartial
<1>3. ASSUME NEW id \in Id, NEW caller \in Address, NEW damage \in Amounts,
             ReleaseWithDeduction(id, caller, damage)
      PROVE  AmountMatch'
  BY <1>3, IdTypes, ClearAmount DEF ReleaseWithDeduction
<1>4. ASSUME UNCHANGED <<amountCount, amountSigned>>
      PROVE  AmountMatch'
  BY <1>4, HalfFrame
<1>5. ASSUME NEW terms \in Terms, Create(terms)
      PROVE  AmountMatch'
  BY <1>4, <1>5 DEF Create, approvalVars
<1>6. ASSUME NEW id \in Id, NEW caller \in Address,
             FundEscrow(id, caller) \/ InitiateDispute(id, caller)
      PROVE  AmountMatch'
  BY <1>4, <1>6 DEF FundEscrow, InitiateDispute, approvalVars
<1>7. ASSUME NEW id \in Id, NEW caller \in Address, NEW to \in Address,
             ApproveRelease(id, caller, to) \/ ResolveDispute(id, caller, to)
      PROVE  AmountMatch'
  BY <1>4, <1>7 DEF ApproveRelease, ResolveDispute
<1>8. ASSUME NEW id \in Id,
             ReleaseEscrowOnTimeout(id) \/ ResolveDisputeOnTimeout(id)
      PROVE  AmountMatch'
  BY <1>4, <1>8 DEF ReleaseEscrowOnTimeout, ResolveDisputeOnTimeout
<1>9. ASSUME Environment \/ UNCHANGED vars
      PROVE  AmountMatch'
  BY <1>4, <1>9
     DEF Environment, ProfileChange, NextLedger, vars, escrowVars, approvalVars
<1> QED
  BY <1>1, <1>2, <1>3, <1>5, <1>6, <1>7, <1>8, <1>9 DEF Next, Call

\* Nothing is signed at the start, and all counters are zero.
LEMMA MatchInit == Init => WholeMatch /\ AmountMatch
<1> SUFFICES ASSUME Init
             PROVE  WholeMatch /\ AmountMatch
  OBVIOUS
<1>1. \A id \in Id, to \in Address : Signers(id, to) = {}
  BY DEF Init, Signers
<1>2. \A id \in Id, to \in Address, amt \in Amounts : AmountSigners(id, to, amt) = {}
  BY DEF Init, AmountSigners
<1>3. WholeMatch
  BY <1>1, FS_EmptySet DEF Init, WholeMatch
<1>4. AmountMatch
  BY <1>2, FS_EmptySet DEF Init, AmountMatch
<1> QED
  BY <1>3, <1>4

\* In every behaviour the counters that decide a release are the numbers of
\* distinct parties whose flags are set, so no party is ever counted twice and no
\* signature is lost, whatever is cleared, disputed or created anew in between.
THEOREM CountsMatchSignersAlways == Spec => []CountsMatchSigners
<1>1. Init => TypeOK /\ WholeMatch /\ AmountMatch
  BY TypeInit, MatchInit
<1>2. TypeOK /\ WholeMatch /\ AmountMatch /\ [Next]_vars
        => (TypeOK /\ WholeMatch /\ AmountMatch)'
  BY TypeStep, WholeStep, AmountStep
<1>3. WholeMatch /\ AmountMatch => CountsMatchSigners
  BY DEF WholeMatch, AmountMatch, CountsMatchSigners
<1> QED
  BY <1>1, <1>2, <1>3, PTL DEF Spec

-----------------------------------------------------------------------------
(* Two parties agree to every payment.                                     *)

\* The two payees of an escrow that exists are different.
Distinct == \A id \in Id : Exists(id) => id.terms.depositor # id.terms.beneficiary

\* Every step keeps the payees of an escrow different: create checks them, and no
\* other call makes an escrow exist.
LEMMA DistinctStep == TypeOK /\ Distinct /\ [Next]_vars => Distinct'
<1> SUFFICES ASSUME TypeOK, Distinct, [Next]_vars
             PROVE  Distinct'
  OBVIOUS
<1>0. ASSUME NEW id \in Id, Exists(id), \A j \in Id \ {id} : escrow'[j] = escrow[j]
      PROVE  Distinct'
  BY <1>0 DEF Distinct, Exists
<1>1. ASSUME NEW terms \in Terms, Create(terms)
      PROVE  Distinct'
  <2>1. \A j \in Id \ {[terms |-> terms, at |-> now]} : escrow'[j] = escrow[j]
    BY <1>1 DEF Create, TypeOK
  <2> QED
    BY <1>1, <2>1 DEF Distinct, Exists, Create
<1>2. ASSUME NEW id \in Id, NEW caller \in Address, FundEscrow(id, caller)
      PROVE  Distinct'
  BY <1>0, <1>2, SetStatusEffect DEF FundEscrow, Exists
<1>3. ASSUME NEW id \in Id, NEW caller \in Address, NEW to \in Address,
             ApproveRelease(id, caller, to)
      PROVE  Distinct'
  <2>1. Exists(id)
    BY <1>3 DEF ApproveRelease, IsFunded, Exists
  <2>2. CASE UNCHANGED escrow
    BY <1>0, <2>1, <2>2
  <2>3. CASE SetStatus(id, "Released")
    BY <1>0, <2>1, <2>3, SetStatusEffect
  <2> QED
    BY <1>3, <2>2, <2>3 DEF ApproveRelease
<1>4. ASSUME NEW id \in Id, ReleaseEscrowOnTimeout(id)
      PROVE  Distinct'
  BY <1>0, <1>4, SetStatusEffect DEF ReleaseEscrowOnTimeout, IsStale, Exists
<1>5. ASSUME NEW id \in Id, NEW caller \in Address, NEW to \in Address,
             NEW amt \in Amounts, ReleaseEscrowPartial(id, caller, amt, to)
      PROVE  Distinct'
  <2>1. Exists(id) /\ \A j \in Id \ {id} : escrow'[j] = escrow[j]
    BY <1>5 DEF ReleaseEscrowPartial, ReduceAmount, IsFunded, Exists, TypeOK
  <2> QED
    BY <1>0, <2>1
<1>6. ASSUME NEW id \in Id, NEW caller \in Address, NEW damage \in Amounts,
             ReleaseWithDeduction(id, caller, damage)
      PROVE  Distinct'
  BY <1>0, <1>6, SetStatusEffect DEF ReleaseWithDeduction, IsFunded, Exists
<1>7. ASSUME NEW id \in Id, NEW caller \in Address, InitiateDispute(id, caller)
      PROVE  Distinct'
  <2>1. Exists(id) /\ \A j \in Id \ {id} : escrow'[j] = escrow[j]
    BY <1>7 DEF InitiateDispute, IsFunded, Exists, TypeOK
  <2> QED
    BY <1>0, <2>1
<1>8. ASSUME NEW id \in Id, NEW caller \in Address, NEW to \in Address,
             ResolveDispute(id, caller, to)
      PROVE  Distinct'
  <2>1. Exists(id) /\ \A j \in Id \ {id} : escrow'[j] = escrow[j]
    BY <1>8 DEF ResolveDispute, Exists, TypeOK
  <2> QED
    BY <1>0, <2>1
<1>9. ASSUME NEW id \in Id, ResolveDisputeOnTimeout(id)
      PROVE  Distinct'
  <2>1. Exists(id) /\ \A j \in Id \ {id} : escrow'[j] = escrow[j]
    BY <1>9 DEF ResolveDisputeOnTimeout, Exists, TypeOK
  <2> QED
    BY <1>0, <2>1
<1>10. ASSUME UNCHANGED escrow
       PROVE  Distinct'
  BY <1>10 DEF Distinct, Exists
<1>11. ASSUME NEW id \in Id, NEW caller \in Address, NEW to \in Address,
              NEW amt \in Amounts, ApprovePartialRelease(id, caller, to, amt)
       PROVE  Distinct'
  BY <1>10, <1>11 DEF ApprovePartialRelease
<1>12. ASSUME Environment \/ UNCHANGED vars
       PROVE  Distinct'
  BY <1>10, <1>12 DEF Environment, ProfileChange, NextLedger, vars, escrowVars
<1> QED
  BY <1>1, <1>2, <1>3, <1>4, <1>5, <1>6, <1>7, <1>8, <1>9, <1>11, <1>12
     DEF Next, Call

\* A set with two members at least has two different ones.
LEMMA TwoMembers ==
  ASSUME NEW S, IsFiniteSet(S), NEW n \in Nat, n = Cardinality(S), n >= 2
  PROVE  \E a, b \in S : a # b
<1>1. PICK a \in S : TRUE
  BY FS_EmptySet
<1>2. CASE \A b \in S : b = a
  <2>1. S = {a}
    BY <1>1, <1>2
  <2> QED
    BY <2>1, FS_Singleton
<1> QED
  BY <1>1, <1>2

\* A counter above zero has a signer, and one above one has two.
LEMMA OneSigner ==
  ASSUME WholeMatch, TypeOK, NEW id \in Id, NEW to \in Address,
         count[id][to] + 1 >= 2
  PROVE  \E a \in Address : <<a, to>> \in signed[id]
<1>1. Cardinality(Signers(id, to)) # 0
  BY DEF WholeMatch, TypeOK
<1>2. Signers(id, to) # {}
  BY <1>1, FS_EmptySet
<1> QED
  BY <1>2 DEF Signers

LEMMA TwoSigners ==
  ASSUME AmountMatch, TypeOK, NEW id \in Id, NEW to \in Address, NEW amt \in Amounts,
         amountCount[id][<<to, amt>>] >= 2
  PROVE  \E a, b \in Address :
           a # b /\ {<<a, to, amt>>, <<b, to, amt>>} \subseteq amountSigned[id]
<1> DEFINE S == AmountSigners(id, to, amt)
<1>1. S \subseteq Parties(id)
  BY DEF AmountMatch, AmountSigners
<1>2. IsFiniteSet(S)
  BY <1>1, PartiesFinite, FS_Subset
<1>3. amountCount[id][<<to, amt>>] \in Nat /\ amountCount[id][<<to, amt>>] = Cardinality(S)
  BY DEF AmountMatch, TypeOK
<1>4. \E a, b \in S : a # b
  <2> HIDE DEF S
  <2> QED
    BY <1>2, <1>3, TwoMembers
<1> QED
  BY <1>4 DEF AmountSigners

\* A payment to one payee is what that payee receives.
LEMMA PayToReceived ==
  ASSUME TypeOK, NEW id \in Id, NEW to \in Payees(id), NEW x \in Nat,
         id.terms.depositor # id.terms.beneficiary, PayTo(id, to, x)
  PROVE  /\ Received(id, to)' = Received(id, to) + x
         /\ \A j \in Id \ {id} : book'[j] = book[j]
<1>1. book[id] \in BookType
  BY DEF TypeOK
<1>2. CASE to = id.terms.depositor
  <2>1. book'[id] = Debited(id, x, 0) /\ \A j \in Id \ {id} : book'[j] = book[j]
    BY <1>2 DEF PayTo, Pay, TypeOK
  <2> QED
    BY <1>1, <1>2, <2>1 DEF Debited, BookType, Received
<1>3. CASE to # id.terms.depositor
  <2>1. to = id.terms.beneficiary
    BY <1>3 DEF Payees
  <2>2. book'[id] = Debited(id, 0, x) /\ \A j \in Id \ {id} : book'[j] = book[j]
    BY <1>3 DEF PayTo, Pay, TypeOK
  <2> QED
    BY <1>1, <1>3, <2>1, <2>2 DEF Debited, BookType, Received
<1> QED
  BY <1>2, <1>3

\* What TwoConsents says of one escrow in one step.
Consented(id) ==
  escrow[id].status = "Funded" /\ Paid(id)' # Paid(id) =>
    \/ \E a, b \in Address, to \in Payees(id) :
         /\ a # b /\ <<a, to>> \in signed[id] /\ Called(b)
         /\ Received(id, to)' = Received(id, to) + escrow[id].amount
    \/ \E a, b \in Address, to \in Payees(id), amt \in Amounts :
         /\ a # b /\ {<<a, to, amt>>, <<b, to, amt>>} \subseteq amountSigned[id]
         /\ Received(id, to)' = Received(id, to) + amt
    \/ escrow'[id].status = "Refunded"

\* A payment of an amount with two signatures.
LEMMA AmountConsent ==
  ASSUME TypeOK, AmountMatch, NEW id \in Id, NEW to \in Address, to \in Payees(id),
         NEW amt \in Amounts, amountCount[id][<<to, amt>>] >= 2,
         Received(id, to)' = Received(id, to) + amt
  PROVE  Consented(id)
<1>1. PICK a \in Address, b \in Address :
        a # b /\ {<<a, to, amt>>, <<b, to, amt>>} \subseteq amountSigned[id]
  BY TwoSigners
<1>2. \E x, y \in Address, t \in Payees(id), n \in Amounts :
        /\ x # y /\ {<<x, t, n>>, <<y, t, n>>} \subseteq amountSigned[id]
        /\ Received(id, t)' = Received(id, t) + n
  <2> WITNESS a \in Address, b \in Address, to \in Payees(id), amt \in Amounts
  <2> QED
    BY <1>1
<1> QED
  BY <1>2 DEF Consented

\* Every step asks for two consents for what it pays out of a funded escrow.
LEMMA ConsentStep ==
  ASSUME TypeOK, WholeMatch, AmountMatch, Distinct, [Next]_vars, NEW j \in Id
  PROVE  Consented(j)
<1>0. ASSUME book'[j] = book[j]
      PROVE  Consented(j)
  BY <1>0 DEF Consented, Paid
<1>1. ASSUME NEW id \in Id, NEW caller \in Address, NEW to \in Address,
             ApproveRelease(id, caller, to)
      PROVE  Consented(j)
  <2>1. CASE UNCHANGED book
    BY <1>0, <2>1
  <2>2. CASE PayTo(id, to, escrow[id].amount) /\ count[id][to] + 1 >= 2
    <3>1. /\ escrow[id].amount \in Nat /\ to \in Payees(id)
          /\ id.terms.depositor # id.terms.beneficiary
      BY <1>1 DEF ApproveRelease, IsFunded, TypeOK, EscrowType, Distinct, Exists
    <3>2. /\ Received(id, to)' = Received(id, to) + escrow[id].amount
          /\ \A i \in Id \ {id} : book'[i] = book[i]
      BY <2>2, <3>1, PayToReceived
    <3>3. PICK a \in Address : <<a, to>> \in signed[id]
      BY <2>2, OneSigner
    <3>4. a # caller
      BY <1>1, <3>3 DEF ApproveRelease, HasApproved
    <3>5. Called(caller)
      <4>1. userCalls'[caller] = [Window(caller) EXCEPT !.daily = @ + 1]
        BY <1>1 DEF ApproveRelease, CheckRateLimit, TypeOK, RateTypeOK
      <4>2. Window(caller).daily \in Nat /\ userCalls[caller] \in [daily: Nat, reset: Nat]
        BY DEF Window, TypeOK, RateTypeOK
      <4>3. userCalls'[caller].daily = Window(caller).daily + 1
        BY <4>1 DEF Window, TypeOK, RateTypeOK
      <4>4. CASE Window(caller) = userCalls[caller]
        BY <4>2, <4>3, <4>4 DEF Called
      <4>5. CASE Window(caller) # userCalls[caller]
        <5>1. /\ Window(caller) = [daily |-> 0, reset |-> now]
              /\ userCalls[caller].daily = 0 \/ now - userCalls[caller].reset >= Day
          BY <4>5 DEF Window
        <5>2. userCalls'[caller] = [daily |-> 1, reset |-> now]
          BY <4>1, <5>1
        <5>3. CASE userCalls[caller].daily = 0
          BY <5>2, <5>3 DEF Called
        <5>4. CASE now - userCalls[caller].reset >= Day
          BY <4>2, <5>2, <5>4, EscrowAssumption DEF Called, TypeOK, RateTypeOK
        <5> QED
          BY <5>1, <5>3, <5>4
      <4> QED
        BY <4>4, <4>5
    <3>6. CASE j = id
      BY <3>1, <3>2, <3>3, <3>4, <3>5, <3>6 DEF Consented
    <3> QED
      BY <1>0, <3>2, <3>6
  <2> QED
    BY <1>1, <2>1, <2>2 DEF ApproveRelease
<1>2. ASSUME NEW id \in Id, NEW caller \in Address, NEW to \in Address,
             NEW amt \in Amounts, ReleaseEscrowPartial(id, caller, amt, to)
      PROVE  Consented(j)
  <2>1. /\ amt \in Nat /\ to \in Payees(id) /\ PayTo(id, to, amt)
        /\ amountCount[id][<<to, amt>>] >= 2
        /\ id.terms.depositor # id.terms.beneficiary
    BY <1>2, EscrowAssumption DEF ReleaseEscrowPartial, IsFunded, Distinct, Exists
  <2>2. /\ Received(id, to)' = Received(id, to) + amt
        /\ \A i \in Id \ {id} : book'[i] = book[i]
    BY <2>1, PayToReceived
  <2>3. CASE j = id
    BY <2>1, <2>2, <2>3, AmountConsent
  <2> QED
    BY <1>0, <2>2, <2>3
<1>3. ASSUME NEW id \in Id, NEW caller \in Address, NEW damage \in Amounts,
             ReleaseWithDeduction(id, caller, damage)
      PROVE  Consented(j)
  <2> DEFINE to == id.terms.beneficiary
  <2>1. /\ damage \in Int /\ damage >= 0 /\ damage <= escrow[id].amount
        /\ escrow[id].amount \in Nat
        /\ Pay(id, Refund(id, damage), damage)
        /\ amountCount[id][<<to, damage>>] >= 2
        /\ id.terms.depositor # to
    BY <1>3, EscrowAssumption
       DEF ReleaseWithDeduction, WithinAmount, IsFunded, Distinct, Exists, TypeOK,
           EscrowType
  <2>2. damage \in Nat /\ Refund(id, damage) \in Nat
    BY <2>1 DEF Refund
  <2>3. /\ book'[id] = Debited(id, Refund(id, damage), damage)
        /\ \A i \in Id \ {id} : book'[i] = book[i]
        /\ book[id] \in BookType
    BY <2>1 DEF Pay, TypeOK
  <2>4. Received(id, to)' = Received(id, to) + damage
    BY <2>1, <2>2, <2>3 DEF Debited, BookType, Received
  <2>5. to \in Address /\ to \in Payees(id)
    BY IdTypes DEF Payees
  <2>6. CASE j = id
    BY <2>1, <2>4, <2>5, <2>6, AmountConsent
  <2> QED
    BY <1>0, <2>3, <2>6
<1>4. ASSUME NEW id \in Id, escrow[id].status # "Funded" \/ escrow'[id].status = "Refunded",
             \A i \in Id \ {id} : book'[i] = book[i]
      PROVE  Consented(j)
  BY <1>0, <1>4 DEF Consented
<1>5. ASSUME NEW id \in Id, ReleaseEscrowOnTimeout(id)
      PROVE  Consented(j)
  BY <1>4, <1>5, SetStatusEffect DEF ReleaseEscrowOnTimeout, Pay, TypeOK
<1>6. ASSUME NEW id \in Id, ResolveDisputeOnTimeout(id)
      PROVE  Consented(j)
  BY <1>4, <1>6 DEF ResolveDisputeOnTimeout, Pay, TypeOK
<1>7. ASSUME NEW id \in Id, NEW caller \in Address, NEW to \in Address,
             ResolveDispute(id, caller, to)
      PROVE  Consented(j)
  BY <1>4, <1>7 DEF ResolveDispute, PayTo, Pay, TypeOK
<1>8. ASSUME NEW id \in Id, NEW caller \in Address, FundEscrow(id, caller)
      PROVE  Consented(j)
  BY <1>4, <1>8 DEF FundEscrow, PayIn, TypeOK
<1>9. ASSUME NEW terms \in Terms, Create(terms)
      PROVE  Consented(j)
  <2> DEFINE id == [terms |-> terms, at |-> now]
  <2>1. book' = [book EXCEPT ![id].stranded = @ + Held(id)]
    BY <1>9 DEF Create
  <2>2. book'[j].toDepositor = book[j].toDepositor
        /\ book'[j].toBeneficiary = book[j].toBeneficiary
    BY <2>1 DEF TypeOK, BookType
  <2> QED
    BY <2>2 DEF Consented, Paid
<1>10. ASSUME UNCHANGED book
       PROVE  Consented(j)
  BY <1>0, <1>10
<1>11. ASSUME NEW id \in Id, NEW caller \in Address,
              \/ InitiateDispute(id, caller)
              \/ \E to \in Address, amt \in Amounts :
                   ApprovePartialRelease(id, caller, to, amt)
       PROVE  Consented(j)
  BY <1>10, <1>11 DEF InitiateDispute, ApprovePartialRelease
<1>12. ASSUME Environment \/ UNCHANGED vars
       PROVE  Consented(j)
  BY <1>10, <1>12 DEF Environment, ProfileChange, NextLedger, vars, escrowVars
<1> QED
  BY <1>1, <1>2, <1>3, <1>5, <1>6, <1>7, <1>8, <1>9, <1>11, <1>12 DEF Next, Call

\* Whatever leaves a funded escrow was agreed to by two different parties, for
\* that payee and, for a part, that amount, or is the refund of the timeout.
THEOREM TwoConsentsAlways == Spec => TwoConsents
<1> DEFINE Match == TypeOK /\ WholeMatch /\ AmountMatch /\ Distinct
<1>1. Init => Match
  <2>1. Init => Distinct
    BY DEF Init, Distinct, Exists, NoEscrow
  <2> QED
    BY <2>1, TypeInit, MatchInit
<1>2. Match /\ [Next]_vars => Match'
  BY TypeStep, WholeStep, AmountStep, DistinctStep
<1>3. Match /\ [Next]_vars => [\A id \in Id : Consented(id)]_vars
  BY ConsentStep
<1>4. (\A id \in Id : Consented(id)) =>
        \A id \in Id :
          escrow[id].status = "Funded" /\ Paid(id)' # Paid(id) =>
            \/ \E a, b \in Address, to \in Payees(id) :
                 /\ a # b /\ <<a, to>> \in signed[id] /\ Called(b)
                 /\ Received(id, to)' = Received(id, to) + escrow[id].amount
            \/ \E a, b \in Address, to \in Payees(id), amt \in Amounts :
                 /\ a # b /\ {<<a, to, amt>>, <<b, to, amt>>} \subseteq amountSigned[id]
                 /\ Received(id, to)' = Received(id, to) + amt
            \/ escrow'[id].status = "Refunded"
  BY DEF Consented
<1> HIDE DEF Match
<1> QED
  BY <1>1, <1>2, <1>3, <1>4, PTL DEF Spec, TwoConsents

-----------------------------------------------------------------------------
(* The refinement.                                                         *)

\* An escrow that waits for its funding is recorded with its whole price.
Undrawn ==
  \A id \in Id : escrow[id].status = "Pending" => escrow[id].amount = id.terms.amount

RefInv == TypeOK /\ WholeMatch /\ AmountMatch /\ Distinct /\ Undrawn

-----------------------------------------------------------------------------
(* The mapping.                                                            *)

\* The parties of a deposit are those of its escrow.
LEMMA SameParties ==
  ASSUME NEW id \in Id
  PROVE  /\ Abstract!Payees(id) = Payees(id)
         /\ Abstract!Party(id) = Parties(id)
BY DEF Abstract!Payees, Abstract!Party, Payees, Parties

\* The phase of an escrow, status by status.
LEMMA PhaseOf ==
  ASSUME NEW id \in Id
  PROVE  /\ escrow[id].status = "None" => Phase(id) = "none"
         /\ escrow[id].status = "Pending" => Phase(id) = "open"
         /\ escrow[id].status = "Funded" => Phase(id) = "held"
         /\ escrow[id].status = "Disputed" => Phase(id) = "frozen"
         /\ escrow[id].status \in {"Released", "Refunded"} => Phase(id) = "closed"
BY DEF Phase

\* The same of the state after a step.
LEMMA PhaseOfNext ==
  ASSUME NEW id \in Id
  PROVE  /\ escrow'[id].status = "None" => Phase(id)' = "none"
         /\ escrow'[id].status = "Pending" => Phase(id)' = "open"
         /\ escrow'[id].status = "Funded" => Phase(id)' = "held"
         /\ escrow'[id].status = "Disputed" => Phase(id)' = "frozen"
         /\ escrow'[id].status \in {"Released", "Refunded"} => Phase(id)' = "closed"
BY DEF Phase

\* What a step leaves alone in an escrow looks the same in its deposit.
LEMMA SameDeposit ==
  ASSUME NEW id \in Id, escrow'[id] = escrow[id], book'[id] = book[id]
  PROVE  /\ Phase(id)' = Phase(id) /\ Price(id)' = Price(id)
         /\ Held(id)' = Held(id)
         /\ \A a \in Address : Received(id, a)' = Received(id, a)
BY DEF Phase, Price, Exists, Held, Received

\* Only the escrow id may change in a step.
Alone(id) ==
  \A j \in Id \ {id} : escrow'[j] = escrow[j] /\ book'[j] = book[j]

\* A step that changes one escrow changes the phase of one deposit.
LEMMA PhaseMap ==
  ASSUME NEW id \in Id, Alone(id)
  PROVE  [j \in Id |-> Phase(j)]' =
           [[j \in Id |-> Phase(j)] EXCEPT ![id] = Phase(id)']
BY SameDeposit DEF Alone

\* The same of the prices.
LEMMA PriceMap ==
  ASSUME NEW id \in Id, Alone(id)
  PROVE  [j \in Id |-> Price(j)]' =
           [[j \in Id |-> Price(j)] EXCEPT ![id] = Price(id)']
BY SameDeposit DEF Alone

\* The same of what is held.
LEMMA FundsMap ==
  ASSUME NEW id \in Id, Alone(id)
  PROVE  [j \in Id |-> Held(j)]' =
           [[j \in Id |-> Held(j)] EXCEPT ![id] = Held(id)']
BY SameDeposit DEF Alone

\* The same of what was paid.
LEMMA PaidMap ==
  ASSUME NEW id \in Id, Alone(id)
  PROVE  [j \in Id |-> [a \in Address |-> Received(j, a)]]' =
           [[j \in Id |-> [a \in Address |-> Received(j, a)]]
              EXCEPT ![id] = [a \in Address |-> Received(id, a)']]
BY SameDeposit DEF Alone

\* The price of an escrow that stays in existence is that of its terms, so it
\* does not change.
LEMMA PriceKept ==
  ASSUME NEW id \in Id, Alone(id), Exists(id), Exists(id)'
  PROVE  UNCHANGED [j \in Id |-> Price(j)]
BY PriceMap DEF Price

\* A step that pays nothing.
LEMMA NothingPaid ==
  ASSUME NEW id \in Id, Alone(id),
         book'[id].toDepositor = book[id].toDepositor,
         book'[id].toBeneficiary = book[id].toBeneficiary
  PROVE  UNCHANGED [j \in Id |-> [a \in Address |-> Received(j, a)]]
<1>1. \A a \in Address : Received(id, a)' = Received(id, a)
  BY DEF Received
<1>2. [a \in Address |-> Received(id, a)'] = [a \in Address |-> Received(id, a)]
  BY <1>1
<1> QED
  BY <1>2, PaidMap

\* What the payees receive of a payment.
LEMMA PayReceived ==
  ASSUME TypeOK, NEW id \in Id, NEW x \in Nat, NEW y \in Nat, Pay(id, x, y),
         id.terms.depositor # id.terms.beneficiary
  PROVE  \A a \in Address :
           Received(id, a)' = Received(id, a) +
             (IF a = id.terms.depositor THEN x
              ELSE IF a = id.terms.beneficiary THEN y ELSE 0)
<1>1. book[id] \in BookType
  BY DEF TypeOK
<1>2. book'[id] = Debited(id, x, y)
  BY DEF TypeOK, Pay
<1>3. /\ book'[id].toDepositor = book[id].toDepositor + x
      /\ book'[id].toBeneficiary = book[id].toBeneficiary + y
      /\ book[id].toDepositor \in Nat /\ book[id].toBeneficiary \in Nat
  BY <1>1, <1>2 DEF Debited, BookType
<1> QED
  BY <1>3 DEF Received

\* What everybody receives of a payment to one payee.
LEMMA PayToAll ==
  ASSUME TypeOK, NEW id \in Id, NEW to \in Payees(id), NEW x \in Nat,
         id.terms.depositor # id.terms.beneficiary, PayTo(id, to, x)
  PROVE  \A a \in Address :
           Received(id, a)' = Received(id, a) + (IF a = to THEN x ELSE 0)
<1>1. CASE to = id.terms.depositor
  <2>1. Pay(id, x, 0)
    BY <1>1 DEF PayTo
  <2> QED
    BY <1>1, <2>1, PayReceived
<1>2. CASE to # id.terms.depositor
  <2>1. Pay(id, 0, x) /\ to = id.terms.beneficiary
    BY <1>2 DEF PayTo, Payees
  <2> QED
    BY <1>2, <2>1, PayReceived
<1> QED
  BY <1>1, <1>2

-----------------------------------------------------------------------------
(* The invariant.                                                          *)

\* Every call leaves what awaits its funding undrawn: create records the price,
\* and what draws from an escrow wants it funded.
LEMMA UndrawnStep == TypeOK /\ Undrawn /\ [Next]_vars => Undrawn'
<1> SUFFICES ASSUME TypeOK, Undrawn, [Next]_vars
             PROVE  Undrawn'
  OBVIOUS
<1>0. ASSUME NEW id \in Id, escrow'[id].status # "Pending",
             \A j \in Id \ {id} : escrow'[j] = escrow[j]
      PROVE  Undrawn'
  BY <1>0 DEF Undrawn
<1>1. ASSUME NEW terms \in Terms, Create(terms)
      PROVE  Undrawn'
  <2> DEFINE id == [terms |-> terms, at |-> now]
  <2>1. id \in Id
    BY <1>1, EscrowAssumption DEF Id, RateTypeOK, TypeOK, Create
  <2>2. /\ escrow'[id].amount = id.terms.amount
        /\ \A j \in Id \ {id} : escrow'[j] = escrow[j]
    BY <1>1, <2>1 DEF Create, TypeOK
  <2> QED
    BY <2>1, <2>2 DEF Undrawn
<1>2. ASSUME NEW id \in Id, NEW s, s # "Pending", SetStatus(id, s)
      PROVE  Undrawn'
  BY <1>0, <1>2, SetStatusEffect
<1>3. ASSUME NEW id \in Id, NEW caller \in Address, FundEscrow(id, caller)
      PROVE  Undrawn'
  BY <1>2, <1>3 DEF FundEscrow
<1>4. ASSUME UNCHANGED escrow
      PROVE  Undrawn'
  BY <1>4 DEF Undrawn
<1>5. ASSUME NEW id \in Id, NEW caller \in Address, NEW to \in Address,
             ApproveRelease(id, caller, to)
      PROVE  Undrawn'
  BY <1>2, <1>4, <1>5 DEF ApproveRelease
<1>6. ASSUME NEW id \in Id, ReleaseEscrowOnTimeout(id)
      PROVE  Undrawn'
  BY <1>2, <1>6 DEF ReleaseEscrowOnTimeout
<1>7. ASSUME NEW id \in Id, NEW caller \in Address, NEW to \in Address,
             NEW amt \in Amounts, ReleaseEscrowPartial(id, caller, amt, to)
      PROVE  Undrawn'
  <2>1. /\ escrow'[id].status = escrow[id].status
        /\ \A j \in Id \ {id} : escrow'[j] = escrow[j]
    BY <1>7 DEF ReleaseEscrowPartial, ReduceAmount, TypeOK, EscrowType
  <2> QED
    BY <1>0, <1>7, <2>1 DEF ReleaseEscrowPartial, IsFunded
<1>8. ASSUME NEW id \in Id, NEW caller \in Address, NEW damage \in Amounts,
             ReleaseWithDeduction(id, caller, damage)
      PROVE  Undrawn'
  BY <1>2, <1>8 DEF ReleaseWithDeduction
<1>9. ASSUME NEW id \in Id, NEW caller \in Address, InitiateDispute(id, caller)
      PROVE  Undrawn'
  BY <1>0, <1>9 DEF InitiateDispute, TypeOK, EscrowType
<1>10. ASSUME NEW id \in Id, NEW caller \in Address, NEW to \in Address,
              ResolveDispute(id, caller, to)
       PROVE  Undrawn'
  BY <1>0, <1>10 DEF ResolveDispute, TypeOK, EscrowType
<1>11. ASSUME NEW id \in Id, ResolveDisputeOnTimeout(id)
       PROVE  Undrawn'
  BY <1>0, <1>11 DEF ResolveDisputeOnTimeout, TypeOK, EscrowType
<1>12. ASSUME NEW id \in Id, NEW caller \in Address, NEW to \in Address,
              NEW amt \in Amounts, ApprovePartialRelease(id, caller, to, amt)
       PROVE  Undrawn'
  BY <1>4, <1>12 DEF ApprovePartialRelease
<1>13. ASSUME Environment \/ UNCHANGED vars
       PROVE  Undrawn'
  BY <1>4, <1>13 DEF Environment, ProfileChange, NextLedger, vars, escrowVars
<1> QED
  BY <1>1, <1>3, <1>5, <1>6, <1>7, <1>8, <1>9, <1>10, <1>11, <1>12, <1>13
     DEF Next, Call

-----------------------------------------------------------------------------
(* Each call is an action of the vault.                                    *)

\* The initial states are those of an empty vault.
LEMMA InitMaps == Init => Abstract!Init
<1> SUFFICES ASSUME Init
             PROVE  Abstract!Init
  OBVIOUS
<1>1. \A id \in Id : escrow[id].status = "None" /\ book[id] = NoEntries
  BY DEF Init, NoEscrow
<1>2. \A id \in Id : /\ Phase(id) = "none" /\ Price(id) = 0 /\ Held(id) = 0
                     /\ \A a \in Address : Received(id, a) = 0
  BY <1>1, PhaseOf DEF Price, Exists, Held, Received, NoEntries
<1> QED
  BY <1>2 DEF Abstract!Init, Init

\* A create under a fresh id opens a deposit.
LEMMA CreateMaps ==
  ASSUME RefInv, NEW terms \in Terms, Create(terms),
         NEW id, id = [terms |-> terms, at |-> now], ~Exists(id)
  PROVE  id \in Id /\ Abstract!Open(id, terms.amount)
<1>1. id \in Id /\ id.terms = terms
  BY EscrowAssumption DEF Id, RateTypeOK, TypeOK, Create, RefInv
<1>2. /\ escrow'[id].status = "Pending" /\ escrow[id].status = "None"
      /\ book' = [book EXCEPT ![id].stranded = @ + Held(id)]
      /\ \A j \in Id \ {id} : escrow'[j] = escrow[j]
      /\ signed' = signed /\ amountSigned' = amountSigned
      /\ terms.amount > 0
  BY <1>1 DEF Create, RefInv, TypeOK, Exists, approvalVars
<1>3. /\ Alone(id)
      /\ book'[id].toDepositor = book[id].toDepositor
      /\ book'[id].toBeneficiary = book[id].toBeneficiary
  BY <1>1, <1>2 DEF Alone, RefInv, TypeOK, BookType
<1>4. UNCHANGED [j \in Id |-> [a \in Address |-> Received(j, a)]]
  BY <1>1, <1>3, NothingPaid
<1>5. Phase(id) = "none" /\ Phase(id)' = "open"
  BY <1>1, <1>2, PhaseOf, PhaseOfNext
<1>6. Held(id)' = Held(id) /\ Price(id)' = terms.amount
  BY <1>1, <1>2 DEF Held, Price, Exists
<1>7. [j \in Id |-> Phase(j)]' = [[j \in Id |-> Phase(j)] EXCEPT ![id] = "open"]
  BY <1>1, <1>3, <1>5, PhaseMap
<1>8. [j \in Id |-> Price(j)]' = [[j \in Id |-> Price(j)] EXCEPT ![id] = terms.amount]
  BY <1>1, <1>3, <1>6, PriceMap
<1>9. UNCHANGED [j \in Id |-> Held(j)]
  BY <1>1, <1>3, <1>6, FundsMap
<1> QED
  BY <1>1, <1>2, <1>4, <1>5, <1>7, <1>8, <1>9 DEF Abstract!Open

\* The payment of the depositor makes what was to be paid what is held.
LEMMA FundMaps ==
  ASSUME RefInv, NEW id \in Id, NEW caller \in Address, FundEscrow(id, caller)
  PROVE  Abstract!Fund(id)
<1>1. /\ escrow[id].status = "Pending" /\ escrow'[id].status = "Funded"
      /\ escrow'[id].amount = escrow[id].amount
      /\ escrow[id].amount = id.terms.amount
      /\ \A j \in Id \ {id} : escrow'[j] = escrow[j]
      /\ signed' = signed /\ amountSigned' = amountSigned
  BY SetStatusEffect DEF FundEscrow, RefInv, Undrawn, approvalVars
<1>2. /\ Alone(id)
      /\ book'[id].toDepositor = book[id].toDepositor
      /\ book'[id].toBeneficiary = book[id].toBeneficiary
  BY <1>1 DEF FundEscrow, PayIn, Alone, RefInv, TypeOK, BookType
<1>3. UNCHANGED [j \in Id |-> [a \in Address |-> Received(j, a)]]
  BY <1>2, NothingPaid
<1>4. Phase(id) = "open" /\ Phase(id)' = "held"
  BY <1>1, PhaseOf, PhaseOfNext
<1>5. Held(id)' = Price(id)
  BY <1>1 DEF Held, Price, Exists
<1>6. UNCHANGED [j \in Id |-> Price(j)]
  BY <1>1, <1>2, PriceKept DEF Exists
<1>7. [j \in Id |-> Phase(j)]' = [[j \in Id |-> Phase(j)] EXCEPT ![id] = "held"]
  BY <1>2, <1>4, PhaseMap
<1>8. [j \in Id |-> Held(j)]' = [[j \in Id |-> Held(j)] EXCEPT ![id] = Price(id)]
  BY <1>2, <1>5, FundsMap
<1> QED
  BY <1>1, <1>3, <1>4, <1>6, <1>7, <1>8 DEF Abstract!Fund

\* A step that settles an escrow and pays its payees what pays says.
LEMMA PayOutMaps ==
  ASSUME NEW id \in Id, Alone(id), escrow'[id].status \in {"Released", "Refunded"},
         NEW pays,
         \A a \in Address : Received(id, a)' =
           Received(id, a) + (IF a \in DOMAIN pays THEN pays[a] ELSE 0)
  PROVE  Abstract!PayOut(id, pays)
<1>1. [j \in Id |-> Phase(j)]' = [[j \in Id |-> Phase(j)] EXCEPT ![id] = "closed"]
  BY PhaseMap, PhaseOfNext
<1>2. Held(id)' = 0
  BY DEF Held
<1>3. [j \in Id |-> Held(j)]' = [[j \in Id |-> Held(j)] EXCEPT ![id] = 0]
  BY <1>2, FundsMap
<1> DEFINE pd == [j \in Id |-> [a \in Address |-> Received(j, a)]]
<1>4. [a \in Address |-> Received(id, a)'] =
        [a \in Address |-> pd[id][a] + IF a \in DOMAIN pays THEN pays[a] ELSE 0]
  OBVIOUS
<1>5. pd' = [pd EXCEPT ![id] =
               [a \in Address |-> @[a] + IF a \in DOMAIN pays THEN pays[a] ELSE 0]]
  BY <1>4, PaidMap
<1> QED
  BY <1>1, <1>3, <1>5 DEF Abstract!PayOut

\* A step that settles an escrow and pays everything to one payee.
LEMMA PayAllMaps ==
  ASSUME RefInv, NEW id \in Id, escrow[id].status \in {"Funded", "Disputed"},
         \A j \in Id \ {id} : escrow'[j] = escrow[j],
         escrow'[id].status \in {"Released", "Refunded"},
         NEW to \in Payees(id), PayTo(id, to, escrow[id].amount)
  PROVE  /\ Abstract!PayAll(id, to)
         /\ UNCHANGED [j \in Id |-> Price(j)]
<1>1. /\ escrow[id].amount \in Nat /\ Held(id) = escrow[id].amount
      /\ id.terms.depositor # id.terms.beneficiary
  BY DEF RefInv, TypeOK, EscrowType, Held, Distinct, Exists
<1>2. Alone(id)
  BY <1>1, PayToBook DEF Alone, RefInv
<1>3. \A a \in Address :
        Received(id, a)' = Received(id, a) + (IF a = to THEN Held(id) ELSE 0)
  BY <1>1, PayToAll DEF RefInv
<1>4. Abstract!PayOut(id, [a \in {to} |-> Held(id)])
  BY <1>2, <1>3, PayOutMaps
<1>5. UNCHANGED [j \in Id |-> Price(j)]
  BY <1>2, PriceKept DEF Exists
<1> QED
  BY <1>4, <1>5 DEF Abstract!PayAll

\* A step that clears the whole approvals of an escrow clears its consents.
LEMMA ClearMaps ==
  ASSUME RefInv, NEW id \in Id, ClearApprovalCounts(id)
  PROVE  signed' = [signed EXCEPT ![id] = {}]
<1>1. signed[id] \subseteq Parties(id) \X Payees(id)
  BY DEF RefInv, WholeMatch
<1>2. \A f \in signed[id] : IsParty(id, f[1]) /\ f[2] \in Payees(id)
  BY <1>1 DEF IsParty, Parties
<1>3. {f \in signed[id] : ~(IsParty(id, f[1]) /\ f[2] \in Payees(id))} = {}
  BY <1>2
<1> QED
  BY <1>3 DEF ClearApprovalCounts

\* A signature on a release is a consent, and the second one the release.
LEMMA ApproveMaps ==
  ASSUME RefInv, NEW id \in Id, NEW caller \in Address, NEW to \in Address,
         ApproveRelease(id, caller, to)
  PROVE  \/ Abstract!ConsentWhole(id, caller, to)
         \/ Abstract!ReleaseWhole(id, caller, to)
<1>1. /\ escrow[id].status = "Funded" /\ Phase(id) = "held"
      /\ caller \in Abstract!Party(id) /\ to \in Payees(id) /\ to \in Abstract!Payees(id)
      /\ <<caller, to>> \notin signed[id]
      /\ amountSigned' = amountSigned
  BY SameParties, PhaseOf DEF ApproveRelease, IsFunded, IsParty, HasApproved, Parties
<1>2. CASE /\ signed' = [signed EXCEPT ![id] = @ \cup {<<caller, to>>}]
           /\ UNCHANGED <<escrow, balance, book>>
  <2>1. \A j \in Id : /\ Phase(j)' = Phase(j) /\ Price(j)' = Price(j)
                      /\ Held(j)' = Held(j)
                      /\ \A a \in Address : Received(j, a)' = Received(j, a)
    BY <1>2, SameDeposit
  <2> QED
    BY <1>1, <1>2, <2>1 DEF Abstract!ConsentWhole
<1>3. CASE /\ count[id][to] + 1 >= 2
           /\ SetStatus(id, "Released")
           /\ ClearApprovalCounts(id)
           /\ PayTo(id, to, escrow[id].amount)
  <2>1. /\ escrow'[id].status = "Released"
        /\ \A j \in Id \ {id} : escrow'[j] = escrow[j]
    BY <1>3, SetStatusEffect DEF RefInv
  <2>2. Abstract!PayAll(id, to) /\ UNCHANGED [j \in Id |-> Price(j)]
    BY <1>1, <1>3, <2>1, PayAllMaps
  <2>3. signed' = [signed EXCEPT ![id] = {}]
    BY <1>3, ClearMaps
  <2>4. PICK a \in Address : <<a, to>> \in signed[id]
    BY <1>3, OneSigner DEF RefInv
  <2>5. a \in Abstract!Party(id) \ {caller}
    BY <1>1, <2>4, SameParties DEF RefInv, WholeMatch
  <2> QED
    BY <1>1, <2>2, <2>3, <2>4, <2>5 DEF Abstract!ReleaseWhole
<1> QED
  BY <1>2, <1>3 DEF ApproveRelease

\* The refund of a funded escrow on its timeout.
LEMMA TimeoutMaps ==
  ASSUME RefInv, NEW id \in Id, escrow[id].status = "Funded",
         ReleaseEscrowOnTimeout(id)
  PROVE  Abstract!Expire(id)
<1> DEFINE to == id.terms.depositor
<1>1. /\ escrow'[id].status = "Refunded"
      /\ \A j \in Id \ {id} : escrow'[j] = escrow[j]
      /\ to \in Payees(id)
      /\ PayTo(id, to, escrow[id].amount)
      /\ amountSigned' = amountSigned
  BY SetStatusEffect DEF ReleaseEscrowOnTimeout, RefInv, Payees, PayTo
<1>2. Abstract!PayAll(id, to) /\ UNCHANGED [j \in Id |-> Price(j)]
  BY <1>1, PayAllMaps
<1>3. signed' = [signed EXCEPT ![id] = {}]
  BY ClearMaps DEF ReleaseEscrowOnTimeout
<1>4. Phase(id) = "held"
  BY PhaseOf
<1> QED
  BY <1>1, <1>2, <1>3, <1>4 DEF Abstract!Expire

\* The refund of a disputed escrow whose arbiter is late.
LEMMA DisputeTimeoutMaps ==
  ASSUME RefInv, NEW id \in Id, ResolveDisputeOnTimeout(id)
  PROVE  Abstract!Expire(id)
<1> DEFINE to == id.terms.depositor
<1>1. /\ escrow[id].status = "Disputed"
      /\ escrow'[id].status = "Refunded"
      /\ \A j \in Id \ {id} : escrow'[j] = escrow[j]
      /\ to \in Payees(id)
      /\ PayTo(id, to, escrow[id].amount)
      /\ amountSigned' = amountSigned
  BY DEF ResolveDisputeOnTimeout, RefInv, TypeOK, EscrowType, Payees, PayTo
<1>2. Abstract!PayAll(id, to) /\ UNCHANGED [j \in Id |-> Price(j)]
  BY <1>1, PayAllMaps
<1>3. signed' = [signed EXCEPT ![id] = {}]
  BY ClearMaps DEF ResolveDisputeOnTimeout
<1>4. Phase(id) = "frozen"
  BY <1>1, PhaseOf
<1> QED
  BY <1>1, <1>2, <1>3, <1>4 DEF Abstract!Expire

\* The ruling of the arbiter.
LEMMA ResolveMaps ==
  ASSUME RefInv, NEW id \in Id, NEW caller \in Address, NEW to \in Address,
         ResolveDispute(id, caller, to)
  PROVE  Abstract!Rule(id, to)
<1>1. /\ escrow[id].status = "Disputed"
      /\ escrow'[id].status \in {"Released", "Refunded"}
      /\ \A j \in Id \ {id} : escrow'[j] = escrow[j]
      /\ to \in Payees(id)
      /\ PayTo(id, to, escrow[id].amount)
      /\ signed' = signed /\ amountSigned' = amountSigned
  BY DEF ResolveDispute, RefInv, TypeOK, EscrowType
<1>2. Abstract!PayAll(id, to) /\ UNCHANGED [j \in Id |-> Price(j)]
  BY <1>1, PayAllMaps
<1>3. Phase(id) = "frozen" /\ to \in Abstract!Payees(id)
  BY <1>1, PhaseOf, SameParties
<1> QED
  BY <1>1, <1>2, <1>3 DEF Abstract!Rule

\* A dispute freezes the deposit and leaves every consent in place.
LEMMA DisputeMaps ==
  ASSUME RefInv, NEW id \in Id, NEW caller \in Address, InitiateDispute(id, caller)
  PROVE  Abstract!Freeze(id)
<1>1. /\ escrow[id].status = "Funded" /\ escrow'[id].status = "Disputed"
      /\ escrow'[id].amount = escrow[id].amount
      /\ Alone(id) /\ book' = book
      /\ signed' = signed /\ amountSigned' = amountSigned
  BY DEF InitiateDispute, IsFunded, Alone, RefInv, TypeOK, EscrowType
<1>2. UNCHANGED [j \in Id |-> [a \in Address |-> Received(j, a)]]
  BY <1>1, NothingPaid
<1>3. Phase(id) = "held" /\ Phase(id)' = "frozen"
  BY <1>1, PhaseOf, PhaseOfNext
<1>4. Held(id)' = Held(id)
  BY <1>1 DEF Held
<1>5. UNCHANGED [j \in Id |-> Price(j)]
  BY <1>1, PriceKept DEF Exists
<1>6. [j \in Id |-> Phase(j)]' = [[j \in Id |-> Phase(j)] EXCEPT ![id] = "frozen"]
  BY <1>1, <1>3, PhaseMap
<1>7. UNCHANGED [j \in Id |-> Held(j)]
  BY <1>1, <1>4, FundsMap
<1> QED
  BY <1>1, <1>2, <1>3, <1>5, <1>6, <1>7 DEF Abstract!Freeze

\* The flag of a partial approval is a consent to that amount.
LEMMA ApprovePartMaps ==
  ASSUME RefInv, NEW id \in Id, NEW caller \in Address, NEW to \in Address,
         NEW amt \in Amounts, ApprovePartialRelease(id, caller, to, amt)
  PROVE  Abstract!ConsentPart(id, caller, to, amt)
<1>1. /\ escrow[id].status = "Funded" /\ Phase(id) = "held"
      /\ caller \in Abstract!Party(id) /\ to \in Abstract!Payees(id)
      /\ <<caller, to, amt>> \notin amountSigned[id] /\ amt >= 0
      /\ amountSigned' = [amountSigned EXCEPT ![id] = @ \cup {<<caller, to, amt>>}]
      /\ UNCHANGED <<escrow, book, signed>>
  BY SameParties, PhaseOf DEF ApprovePartialRelease, IsFunded, IsParty, Parties
<1>2. \A j \in Id : /\ Phase(j)' = Phase(j) /\ Price(j)' = Price(j)
                    /\ Held(j)' = Held(j)
                    /\ \A a \in Address : Received(j, a)' = Received(j, a)
  BY <1>1, SameDeposit
<1> QED
  BY <1>1, <1>2 DEF Abstract!ConsentPart

\* A counter of two stands for two consents, and clearing it spends them.
LEMMA SpendMaps ==
  ASSUME RefInv, NEW id \in Id, NEW to \in Payees(id), NEW amt \in Amounts,
         amountCount[id][<<to, amt>>] >= 2, ClearAmountApproval(id, to, amt)
  PROVE  Abstract!TwoConsent(id, to, amt) /\ Abstract!Spend(id, to, amt)
<1>1. /\ to \in Address
      /\ amountSigned[id] \subseteq Parties(id) \X Payees(id) \X Amounts
  BY IdTypes DEF RefInv, AmountMatch
<1>2. PICK a \in Address, b \in Address :
        a # b /\ {<<a, to, amt>>, <<b, to, amt>>} \subseteq amountSigned[id]
  BY <1>1, TwoSigners DEF RefInv
<1>3. a \in Abstract!Party(id) /\ b \in Abstract!Party(id)
  BY <1>1, <1>2, SameParties
<1>4. Abstract!TwoConsent(id, to, amt)
  BY <1>2, <1>3 DEF Abstract!TwoConsent
<1>5. \A f \in amountSigned[id] : IsParty(id, f[1])
  BY <1>1 DEF IsParty, Parties
<1>6. {f \in amountSigned[id] : ~(IsParty(id, f[1]) /\ f[2] = to /\ f[3] = amt)}
        = {f \in amountSigned[id] : ~(f[2] = to /\ f[3] = amt)}
  BY <1>5
<1>7. Abstract!Spend(id, to, amt)
  BY <1>6 DEF ClearAmountApproval, Abstract!Spend
<1> QED
  BY <1>4, <1>7

\* A partial release spends two consents to its amount.
LEMMA PartialMaps ==
  ASSUME RefInv, NEW id \in Id, NEW caller \in Address, NEW to \in Address,
         NEW amt \in Amounts, ReleaseEscrowPartial(id, caller, amt, to)
  PROVE  Abstract!ReleasePart(id, to, amt)
<1>1. /\ escrow[id].status = "Funded" /\ escrow[id].amount \in Nat
      /\ amt \in Nat /\ amt > 0 /\ amt <= escrow[id].amount
      /\ to \in Payees(id) /\ PayTo(id, to, amt)
      /\ id.terms.depositor # id.terms.beneficiary
      /\ escrow'[id].status = "Funded"
      /\ escrow'[id].amount = escrow[id].amount - amt
      /\ \A j \in Id \ {id} : escrow'[j] = escrow[j]
      /\ signed' = signed
  BY EscrowAssumption
     DEF ReleaseEscrowPartial, IsFunded, WithinAmount, ReduceAmount, RefInv, TypeOK,
         EscrowType, Distinct, Exists
<1>2. Alone(id)
  BY <1>1, PayToBook DEF Alone, RefInv
<1>3. /\ Abstract!TwoConsent(id, to, amt) /\ Abstract!Spend(id, to, amt)
      /\ to \in Abstract!Payees(id)
  BY <1>1, SpendMaps, SameParties DEF ReleaseEscrowPartial
<1>4. Phase(id) = "held" /\ Phase(id)' = "held"
  BY <1>1, PhaseOf, PhaseOfNext
<1>5. UNCHANGED [j \in Id |-> Phase(j)]
  BY <1>2, <1>4, PhaseMap
<1>6. Held(id) = escrow[id].amount /\ Held(id)' = Held(id) - amt
  BY <1>1 DEF Held
<1>7. [j \in Id |-> Held(j)]' = [[j \in Id |-> Held(j)] EXCEPT ![id] = @ - amt]
  BY <1>2, <1>6, FundsMap
<1>8. UNCHANGED [j \in Id |-> Price(j)]
  BY <1>1, <1>2, PriceKept DEF Exists
<1> DEFINE pd == [j \in Id |-> [a \in Address |-> Received(j, a)]]
<1>9. pd' = [pd EXCEPT ![id][to] = @ + amt]
  <2>1. \A a \in Address :
          Received(id, a)' = Received(id, a) + (IF a = to THEN amt ELSE 0)
    BY <1>1, PayToAll DEF RefInv
  <2>2. \A a \in Address : Received(id, a) \in Int
    <3>1. book[id].toDepositor \in Int /\ book[id].toBeneficiary \in Int
      BY DEF RefInv, TypeOK, BookType
    <3> QED
      BY <3>1 DEF Received
  <2>3. amt \in Int
    BY <1>1
  <2>4. \A a \in Address : Received(id, a)' =
          IF a = to THEN Received(id, a) + amt ELSE Received(id, a)
    BY <2>1, <2>2, <2>3
  <2>5. [a \in Address |-> Received(id, a)'] =
          [[a \in Address |-> Received(id, a)] EXCEPT ![to] = @ + amt]
    BY <2>4
  <2> QED
    BY <1>2, <2>5, PaidMap
<1> QED
  BY <1>1, <1>3, <1>4, <1>5, <1>6, <1>7, <1>8, <1>9 DEF Abstract!ReleasePart

\* A release with a deduction spends two consents to the damage.
LEMMA DeductionMaps ==
  ASSUME RefInv, NEW id \in Id, NEW caller \in Address, NEW damage \in Amounts,
         ReleaseWithDeduction(id, caller, damage)
  PROVE  Abstract!Split(id, damage)
<1> DEFINE to == id.terms.beneficiary
<1>1. /\ escrow[id].status = "Funded" /\ escrow[id].amount \in Nat
      /\ Held(id) = escrow[id].amount
      /\ damage \in Nat /\ damage <= escrow[id].amount
      /\ Refund(id, damage) \in Nat /\ Refund(id, damage) = Held(id) - damage
      /\ Pay(id, Refund(id, damage), damage)
      /\ id.terms.depositor # to
      /\ escrow'[id].status = "Released"
      /\ \A j \in Id \ {id} : escrow'[j] = escrow[j]
      /\ signed' = signed
  <2>1. /\ escrow[id].status = "Funded" /\ escrow[id].amount \in Nat
        /\ damage \in Int /\ damage >= 0 /\ damage <= escrow[id].amount
        /\ Pay(id, Refund(id, damage), damage)
        /\ SetStatus(id, "Released") /\ signed' = signed
    BY EscrowAssumption
       DEF ReleaseWithDeduction, IsFunded, WithinAmount, RefInv, TypeOK, EscrowType
  <2>2. Held(id) = escrow[id].amount /\ id.terms.depositor # to
    BY <2>1 DEF Held, RefInv, Distinct, Exists
  <2>3. /\ damage \in Nat
        /\ Refund(id, damage) \in Nat /\ Refund(id, damage) = Held(id) - damage
    BY <2>1, <2>2 DEF Refund
  <2> QED
    BY <2>1, <2>2, <2>3, SetStatusEffect DEF RefInv
<1>2. Alone(id)
  BY <1>1, PayBook DEF Alone, RefInv
<1>3. Abstract!TwoConsent(id, to, damage) /\ Abstract!Spend(id, to, damage)
  BY SpendMaps DEF ReleaseWithDeduction, Payees
<1> DEFINE pays == [a \in Payees(id) |-> IF a = to THEN damage ELSE Held(id) - damage]
<1>4. Abstract!PayOut(id, pays)
  <2>1. \A a \in Address : Received(id, a)' = Received(id, a) +
          (IF a = id.terms.depositor THEN Held(id) - damage
           ELSE IF a = to THEN damage ELSE 0)
    BY <1>1, PayReceived DEF RefInv
  <2>2. \A a \in Address : Received(id, a)' =
          Received(id, a) + (IF a \in DOMAIN pays THEN pays[a] ELSE 0)
    BY <1>1, <2>1 DEF Payees
  <2> HIDE DEF pays
  <2> QED
    BY <1>1, <1>2, <2>2, PayOutMaps
<1>5. UNCHANGED [j \in Id |-> Price(j)]
  BY <1>1, <1>2, PriceKept DEF Exists
<1>6. Phase(id) = "held" /\ Abstract!Payees(id) = Payees(id)
  BY <1>1, PhaseOf, SameParties
<1> QED
  BY <1>1, <1>3, <1>4, <1>5, <1>6 DEF Abstract!Split

-----------------------------------------------------------------------------
(* The refinement.                                                         *)

\* A step that touches no escrow, no account and no flag is a stutter.
LEMMA StutterMaps ==
  ASSUME UNCHANGED <<escrow, book, signed, amountSigned>>
  PROVE  UNCHANGED Abstract!vars
<1>1. \A j \in Id : /\ Phase(j)' = Phase(j) /\ Price(j)' = Price(j)
                    /\ Held(j)' = Held(j)
                    /\ \A a \in Address : Received(j, a)' = Received(j, a)
  BY SameDeposit
<1> QED
  BY <1>1 DEF Abstract!vars

\* Every step of the contract in a disciplined environment maps to one of the vault.
LEMMA StepMaps == RefInv /\ [DisciplinedNext]_vars => [Abstract!Next]_(Abstract!vars)
<1> SUFFICES ASSUME RefInv, [DisciplinedNext]_vars
             PROVE  Abstract!Next \/ UNCHANGED Abstract!vars
  OBVIOUS
<1>1. ASSUME NEW terms \in Terms, Create(terms),
             ~Exists([terms |-> terms, at |-> now])
      PROVE  Abstract!Next
  <2>1. /\ [terms |-> terms, at |-> now] \in Id
        /\ Abstract!Open([terms |-> terms, at |-> now], terms.amount)
    BY <1>1, CreateMaps
  <2> QED
    BY <2>1 DEF Abstract!Next
<1>2. ASSUME NEW id \in Id, NEW caller \in Address, FundEscrow(id, caller)
      PROVE  Abstract!Next
  BY <1>2, FundMaps DEF Abstract!Next
<1>3. ASSUME NEW id \in Id, NEW caller \in Address, NEW to \in Address,
             ApproveRelease(id, caller, to)
      PROVE  Abstract!Next
  BY <1>3, ApproveMaps DEF Abstract!Next
<1>4. ASSUME NEW id \in Id, escrow[id].status = "Funded", ReleaseEscrowOnTimeout(id)
      PROVE  Abstract!Next
  BY <1>4, TimeoutMaps DEF Abstract!Next
<1>5. ASSUME NEW id \in Id, NEW caller \in Address, NEW to \in Address,
             NEW amt \in Amounts, ApprovePartialRelease(id, caller, to, amt)
      PROVE  Abstract!Next
  BY <1>5, ApprovePartMaps DEF Abstract!Next
<1>6. ASSUME NEW id \in Id, NEW caller \in Address, NEW to \in Address,
             NEW amt \in Amounts, ReleaseEscrowPartial(id, caller, amt, to)
      PROVE  Abstract!Next
  BY <1>6, PartialMaps DEF Abstract!Next
<1>7. ASSUME NEW id \in Id, NEW caller \in Address, NEW damage \in Amounts,
             ReleaseWithDeduction(id, caller, damage)
      PROVE  Abstract!Next
  BY <1>7, DeductionMaps DEF Abstract!Next
<1>8. ASSUME NEW id \in Id, NEW caller \in Address, InitiateDispute(id, caller)
      PROVE  Abstract!Next
  BY <1>8, DisputeMaps DEF Abstract!Next
<1>9. ASSUME NEW id \in Id, NEW caller \in Address, NEW to \in Address,
             ResolveDispute(id, caller, to)
      PROVE  Abstract!Next
  BY <1>9, ResolveMaps DEF Abstract!Next
<1>10. ASSUME NEW id \in Id, ResolveDisputeOnTimeout(id)
       PROVE  Abstract!Next
  BY <1>10, DisputeTimeoutMaps DEF Abstract!Next
<1>11. ASSUME Environment \/ UNCHANGED vars
       PROVE  UNCHANGED Abstract!vars
  BY <1>11, StutterMaps
     DEF Environment, ProfileChange, NextLedger, vars, escrowVars, approvalVars
<1> QED
  BY <1>1, <1>2, <1>3, <1>4, <1>5, <1>6, <1>7, <1>8, <1>9, <1>10, <1>11
     DEF DisciplinedNext, Call

\* In a disciplined environment every behaviour of the contract is one of the vault.
THEOREM VaultImplemented == DisciplinedSpec => ImplementsVault
<1>1. Init => RefInv
  <2>1. Init => Distinct /\ Undrawn
    BY DEF Init, Distinct, Undrawn, Exists, NoEscrow
  <2> QED
    BY <2>1, TypeInit, MatchInit DEF RefInv
<1>2. RefInv /\ [DisciplinedNext]_vars => RefInv'
  BY DisciplinedIsNext, TypeStep, WholeStep, AmountStep, DistinctStep, UndrawnStep
     DEF RefInv
<1> QED
  BY <1>1, <1>2, InitMaps, StepMaps, PTL
     DEF DisciplinedSpec, ImplementsVault, Abstract!Spec
=============================================================================
