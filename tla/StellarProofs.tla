----------------------------- MODULE StellarProofs -----------------------------
(***************************************************************************)
(* Proofs about the escrow accounts of the backend, for any escrows,       *)
(* requests, lost replies, failed commits and crashes: the key of an       *)
(* account that holds funds is stored, and its row never tells what the    *)
(* ledger did not do, nor lags behind it without a fault.  The invariant   *)
(* says where the funds are while a request is at each of its steps, and   *)
(* that an escrow in the making is nobody else's.                          *)
(*                                                                         *)
(* Proofs about payments on the Stellar ledger, for any calls, keys,       *)
(* attempts, lost replies and crashes: a call pays once, the rows tell     *)
(* what the ledger did, and the calls of one key pay once between them but *)
(* for the rows that were lost.  The invariant is about sequence numbers:  *)
(* whatever the ledger may yet take up of a call is the transaction the    *)
(* call has built last.                                                    *)
(***************************************************************************)
EXTENDS StellarPayment, StellarEscrow, FiniteSetTheorems, TLAPS

-----------------------------------------------------------------------------
(* Escrow accounts.                                                        *)
-----------------------------------------------------------------------------

Making == {"account", "fund", "record"}
Settling == {"load", "submit", "commit"}
Settled == {"RELEASED", "REFUNDED"}

Places == Making \cup Settling \cup {"idle", "pay", "failDeposit", "sync"}

Requests ==
  [at: Places, op: {"none", "create", "reconcile"} \cup Settled,
   escrow: Escrow \cup {"none"}, seen: Status]

EscrowTypes ==
  /\ keyStored \in [Escrow -> BOOLEAN]
  /\ ledger \in [Escrow -> {"none", "funded", "destination", "source"}]
  /\ status \in [Escrow -> Status]
  /\ req \in [Request -> Requests]
  /\ mishaps \in Nat

\* Where the funds of a request's escrow are.
Located(q) ==
  LET e == req[q].escrow
  IN  /\ req[q].at # "idle" => e \in Escrow
      /\ req[q].at \in {"account", "fund"} => ledger[e] = "none" /\ status[e] = "none"
      /\ req[q].at = "record" => ledger[e] = "funded" /\ status[e] = "none"
      /\ req[q].at \in {"fund", "record"} => keyStored[e]
      /\ req[q].at \in Settling => req[q].op \in Settled
      /\ req[q].at = "commit" => ledger[e] = Receiver(req[q].op)

\* No other request works at an escrow that is being made.
Alone ==
  \A q, r \in Request :
    req[q].at \in Making /\ req[r].at \in Making \cup Settling
      /\ req[q].escrow = req[r].escrow => q = r

\* An escrow that nobody began has no funds and no row.
Unborn == \A e \in Escrow : ~keyStored[e] => ledger[e] = "none" /\ status[e] = "none"

EscrowInv ==
  /\ EscrowTypes
  /\ \A q \in Request : Located(q)
  /\ Alone
  /\ Unborn
  /\ RowIsTrue

-----------------------------------------------------------------------------
(* Where the funds are.                                                    *)

\* The initial state satisfies the invariant.
LEMMA EscrowInvInit == EscrowInit => EscrowInv
BY DEF EscrowInit, EscrowInv, EscrowTypes, Requests, Places, Located, Alone, Unborn, RowIsTrue, Idle, Status,
       Making, Settling, Settled

\* A request goes on to its next step.
LEMMA GoesOn ==
  ASSUME EscrowTypes, NEW q \in Request, NEW l \in Places, Proceed(q, l)
  PROVE  /\ req' \in [Request -> Requests]
         /\ req'[q].at = l /\ req'[q].op = req[q].op /\ req'[q].escrow = req[q].escrow
         /\ \A r \in Request \ {q} : req'[r] = req[r]
BY DEF EscrowTypes, Proceed, Requests

\* A request ends.
LEMMA Ends ==
  ASSUME EscrowTypes, NEW q \in Request, End(q)
  PROVE  /\ req' \in [Request -> Requests] /\ req'[q].at = "idle"
         /\ \A r \in Request \ {q} : req'[r] = req[r]
BY DEF EscrowTypes, End, Idle, Requests, Places, Status

\* A settled escrow is read again.
LEMMA ReadAgain ==
  ASSUME EscrowTypes, NEW q \in Request, req[q].op \in Settled,
         req' = [req EXCEPT ![q].at = "sync", ![q].seen = req[q].op]
  PROVE  /\ req' \in [Request -> Requests]
         /\ req'[q].at = "sync" /\ req'[q].escrow = req[q].escrow
         /\ \A r \in Request \ {q} : req'[r] = req[r]
<1> DEFINE r == [req[q] EXCEPT !.at = "sync", !.seen = req[q].op]
<1>1. req \in [Request -> Requests] /\ req[q] \in Requests
  BY DEF EscrowTypes
<1>2. r \in Requests /\ r.at = "sync" /\ r.escrow = req[q].escrow
  BY <1>1 DEF Requests, Places, Settled, Status
<1>3. req' = [req EXCEPT ![q] = r]
  BY <1>1
<1> HIDE DEF r
<1> QED
  BY <1>1, <1>2, <1>3

\* A key is stored.
LEMMA KeyType ==
  ASSUME keyStored \in [Escrow -> BOOLEAN], NEW e \in Escrow,
         keyStored' = Set(keyStored, e, TRUE)
  PROVE  /\ keyStored' \in [Escrow -> BOOLEAN]
         /\ keyStored'[e] /\ \A f \in Escrow \ {e} : keyStored'[f] = keyStored[f]
BY Zenon DEF Set

\* Every step keeps the types.
LEMMA EscrowTypeStep == EscrowInv /\ [EscrowNext]_escrowVars => EscrowTypes'
<1> SUFFICES ASSUME EscrowInv, [EscrowNext]_escrowVars
             PROVE  EscrowTypes'
  OBVIOUS
<1>0. EscrowTypes
  BY DEF EscrowInv
<1> USE <1>0
<1>1. ASSUME NEW q \in Request, NEW e \in Escrow,
             BeginDeposit(q, e) \/ BeginRelease(q, e) \/ BeginRefund(q, e) \/ Reconcile(q, e)
      PROVE  EscrowTypes'
  BY <1>1 DEF BeginDeposit, BeginRelease, BeginRefund, Reconcile, Start, EscrowTypes, Requests,
              Places, Making, Settling, Settled, Status
<1>2. ASSUME NEW q \in Request,
             \/ CreateAccount(q) \/ Fund(q) \/ RecordEscrow(q) \/ SaveDeposit(q)
             \/ FailDeposit(q) \/ LoadAccount(q) \/ SubmitSettlement(q) \/ Sync(q) \/ CrashRequest(q)
      PROVE  req' \in [Request -> Requests] /\ mishaps' \in Nat
  <2>1. End(q) \/ \E l \in Places : Proceed(q, l)
    BY <1>2 DEF CreateAccount, Fund, RecordEscrow, SaveDeposit, FailDeposit, LoadAccount,
                SubmitSettlement, Sync, CrashRequest, Places, Making, Settling
  <2>2. mishaps' = mishaps \/ mishaps' = mishaps + 1
    BY <1>2 DEF CreateAccount, Fund, RecordEscrow, SaveDeposit, FailDeposit, LoadAccount,
                SubmitSettlement, Sync, CrashRequest, Mishap, NoMishap
  <2> QED
    BY <2>1, <2>2, GoesOn, Ends DEF EscrowTypes
<1>3. ASSUME NEW q \in Request, CreateAccount(q)
      PROVE  EscrowTypes'
  <2>1. req[q].escrow \in Escrow
    BY <1>3 DEF CreateAccount, At, EscrowInv, Located
  <2>2. keyStored' \in [Escrow -> BOOLEAN]
    BY <1>3, <2>1, KeyType DEF CreateAccount, EscrowTypes
  <2> QED
    BY <1>2, <1>3, <2>2 DEF CreateAccount, EscrowTypes
<1>4. ASSUME NEW q \in Request, Fund(q) \/ SubmitSettlement(q)
      PROVE  EscrowTypes'
  <2>1. ledger' \in [Escrow -> {"none", "funded", "destination", "source"}]
    BY <1>4 DEF Fund, SubmitSettlement, Set, Receiver, EscrowTypes
  <2> QED
    BY <1>2, <1>4, <2>1 DEF Fund, SubmitSettlement, EscrowTypes
<1>5. ASSUME NEW q \in Request, RecordEscrow(q)
      PROVE  EscrowTypes'
  BY <1>2, <1>5 DEF RecordEscrow, Set, EscrowTypes, Status
<1>6. ASSUME NEW q \in Request,
             SaveDeposit(q) \/ FailDeposit(q) \/ LoadAccount(q) \/ Sync(q) \/ CrashRequest(q)
      PROVE  EscrowTypes'
  BY <1>2, <1>6 DEF SaveDeposit, FailDeposit, LoadAccount, Sync, CrashRequest, EscrowTypes
<1>7. ASSUME NEW q \in Request, CommitSettlement(q)
      PROVE  EscrowTypes'
  <2>1. req[q].op \in Settled
    BY <1>7 DEF CommitSettlement, At, EscrowInv, Located, Settling
  <2>2. status' \in [Escrow -> Status] /\ mishaps' \in Nat
    BY <1>7, <2>1 DEF CommitSettlement, Set, Mishap, NoMishap, EscrowTypes, Settled, Status
  <2>3. CASE End(q)
    BY <1>7, <2>2, <2>3, Ends DEF CommitSettlement, EscrowTypes
  <2>4. CASE req' = [req EXCEPT ![q].at = "sync", ![q].seen = req[q].op]
    <3>1. req' \in [Request -> Requests]
      BY <2>1, <2>4, ReadAgain
    <3> QED
      BY <1>7, <2>2, <3>1 DEF CommitSettlement, EscrowTypes
  <2> QED
    BY <1>7, <2>3, <2>4 DEF CommitSettlement
<1>8. CASE \E e \in Escrow, s \in Payment \ {"none"}, hash \in BOOLEAN : Webhook(e, s, hash)
  BY <1>8 DEF Webhook, EscrowTypes
<1>9. CASE UNCHANGED escrowVars
  BY <1>9 DEF escrowVars, EscrowTypes
<1> QED
  BY <1>1, <1>3, <1>4, <1>5, <1>6, <1>7, <1>8, <1>9 DEF EscrowNext

\* A request that ends, or goes on without touching funds and rows, leaves the
\* rest of the invariant true.
LEMMA Passing ==
  ASSUME EscrowInv, EscrowTypes', NEW q \in Request,
         UNCHANGED <<keyStored, ledger, status>>,
         \A r \in Request \ {q} : req'[r] = req[r],
         req'[q].at \in {"idle", "pay", "failDeposit", "sync"} \/
           /\ req[q].at \in Settling /\ req'[q].at \in {"load", "submit"}
           /\ req'[q].op = req[q].op /\ req'[q].escrow = req[q].escrow,
         req'[q].at # "idle" => req'[q].escrow \in Escrow
  PROVE  EscrowInv'
<1>1. \A r \in Request : Located(r)'
  BY DEF EscrowInv, Located, Settling
<1>2. Alone'
  BY DEF EscrowInv, Alone, Making, Settling
<1>3. Unborn' /\ RowIsTrue'
  BY DEF EscrowInv, Unborn, RowIsTrue
<1> QED
  BY <1>1, <1>2, <1>3 DEF EscrowInv

\* Every step keeps the invariant.
LEMMA EscrowInvStep == EscrowInv /\ [EscrowNext]_escrowVars => EscrowInv'
<1> SUFFICES ASSUME EscrowInv, [EscrowNext]_escrowVars
             PROVE  EscrowInv'
  OBVIOUS
<1>0. EscrowTypes /\ EscrowTypes'
  BY EscrowTypeStep DEF EscrowInv
<1>1. ASSUME NEW q \in Request, NEW e \in Escrow, BeginDeposit(q, e)
      PROVE  EscrowInv'
  <2>1. /\ UNCHANGED <<keyStored, ledger, status>>
        /\ req'[q] = [at |-> "account", op |-> "create", escrow |-> e, seen |-> "none"]
        /\ \A r \in Request \ {q} : req'[r] = req[r]
        /\ ledger[e] = "none" /\ status[e] = "none" /\ \A r \in Request : req[r].escrow # e
    BY <1>0, <1>1 DEF BeginDeposit, Start, EscrowTypes, EscrowInv, Unborn
  <2>2. \A r \in Request : Located(r)'
    BY <2>1 DEF EscrowInv, Located, Settling
  <2>3. Alone'
    BY <2>1 DEF EscrowInv, Alone
  <2>4. Unborn' /\ RowIsTrue'
    BY <2>1 DEF EscrowInv, Unborn, RowIsTrue
  <2> QED
    BY <1>0, <2>2, <2>3, <2>4 DEF EscrowInv
<1>2. ASSUME NEW q \in Request, NEW e \in Escrow, BeginRelease(q, e) \/ BeginRefund(q, e)
      PROVE  EscrowInv'
  <2>1. /\ UNCHANGED <<keyStored, ledger, status>> /\ status[e] = "ACTIVE"
        /\ req'[q].at = "load" /\ req'[q].op \in Settled /\ req'[q].escrow = e
        /\ \A r \in Request \ {q} : req'[r] = req[r]
    BY <1>0, <1>2 DEF BeginRelease, BeginRefund, Start, EscrowTypes, Settled
  <2>2. \A r \in Request : Located(r)'
    BY <2>1 DEF EscrowInv, Located, Settling
  <2>3. Alone'
    BY <2>1 DEF EscrowInv, Alone, Located, Making, Settling
  <2>4. Unborn' /\ RowIsTrue'
    BY <2>1 DEF EscrowInv, Unborn, RowIsTrue
  <2> QED
    BY <1>0, <2>2, <2>3, <2>4 DEF EscrowInv
<1>3. ASSUME NEW q \in Request, NEW e \in Escrow, Reconcile(q, e)
      PROVE  EscrowInv'
  BY <1>0, <1>3, Passing DEF Reconcile, Start, EscrowTypes
<1>4. ASSUME NEW q \in Request, CreateAccount(q)
      PROVE  EscrowInv'
  <2> DEFINE e == req[q].escrow
  <2>0. req[q].at = "account" /\ e \in Escrow
    BY <1>4 DEF CreateAccount, At, EscrowInv, Located
  <2>1. CASE keyStored' = Set(keyStored, e, TRUE) /\ Proceed(q, "fund")
    <3>1. /\ UNCHANGED <<ledger, status>>
          /\ keyStored'[e] /\ \A f \in Escrow \ {e} : keyStored'[f] = keyStored[f]
          /\ req'[q].at = "fund" /\ req'[q].escrow = e
          /\ \A r \in Request \ {q} : req'[r] = req[r]
      BY <1>0, <1>4, <2>0, <2>1, KeyType, GoesOn DEF CreateAccount, EscrowTypes, Places, Making
    <3>2. ledger[e] = "none" /\ status[e] = "none"
      BY <2>0 DEF EscrowInv, Located
    <3>3. \A r \in Request : Located(r)'
      BY <2>0, <3>1, <3>2 DEF EscrowInv, Located, Settling
    <3>4. Alone'
      BY <2>0, <3>1 DEF EscrowInv, Alone, Making, Settling
    <3>5. Unborn' /\ RowIsTrue'
      BY <3>1 DEF EscrowInv, Unborn, RowIsTrue
    <3> QED
      BY <1>0, <3>3, <3>4, <3>5 DEF EscrowInv
  <2>2. CASE Proceed(q, "failDeposit") /\ UNCHANGED keyStored
    BY <1>0, <1>4, <2>0, <2>2, Passing DEF CreateAccount, Proceed, EscrowTypes
  <2> QED
    BY <1>4, <2>1, <2>2 DEF CreateAccount
<1>5. ASSUME NEW q \in Request, Fund(q)
      PROVE  EscrowInv'
  <2> DEFINE e == req[q].escrow
  <2>0. /\ req[q].at = "fund" /\ e \in Escrow /\ keyStored[e]
        /\ ledger[e] = "none" /\ status[e] = "none"
    BY <1>5 DEF Fund, At, EscrowInv, Located
  <2>1. CASE ledger' = Set(ledger, e, "funded")
    <3>1. /\ UNCHANGED <<keyStored, status>>
          /\ ledger'[e] = "funded" /\ \A f \in Escrow \ {e} : ledger'[f] = ledger[f]
          /\ req'[q].at \in {"record", "failDeposit"} /\ req'[q].escrow = e
          /\ \A r \in Request \ {q} : req'[r] = req[r]
      <4>1. Proceed(q, "record") \/ Proceed(q, "failDeposit")
        BY <1>5, <2>0, <2>1 DEF Fund
      <4>2. /\ req'[q].at \in {"record", "failDeposit"} /\ req'[q].escrow = e
            /\ \A r \in Request \ {q} : req'[r] = req[r]
        BY <1>0, <4>1, GoesOn DEF Places, Making
      <4> QED
        BY <1>0, <1>5, <2>0, <2>1, <4>2 DEF Fund, Set, EscrowTypes
    <3>2. \A r \in Request \ {q} :
            req[r].at \in Making \cup Settling => req[r].escrow # e
      BY <2>0 DEF EscrowInv, Alone, Making
    <3>3. \A r \in Request : Located(r)'
      BY <2>0, <3>1, <3>2 DEF EscrowInv, Located, Making, Settling
    <3>4. Alone'
      BY <2>0, <3>1, <3>2 DEF EscrowInv, Alone, Making, Settling
    <3>5. Unborn' /\ RowIsTrue'
      BY <2>0, <3>1 DEF EscrowInv, Unborn, RowIsTrue
    <3> QED
      BY <1>0, <3>3, <3>4, <3>5 DEF EscrowInv
  <2>2. CASE Proceed(q, "failDeposit") /\ UNCHANGED ledger
    BY <1>0, <1>5, <2>0, <2>2, Passing DEF Fund, Proceed, EscrowTypes
  <2> QED
    BY <1>5, <2>1, <2>2 DEF Fund
<1>6. ASSUME NEW q \in Request, RecordEscrow(q)
      PROVE  EscrowInv'
  <2> DEFINE e == req[q].escrow
  <2>0. /\ req[q].at = "record" /\ e \in Escrow /\ keyStored[e]
        /\ ledger[e] = "funded" /\ status[e] = "none"
    BY <1>6 DEF RecordEscrow, At, EscrowInv, Located
  <2>1. CASE status' = Set(status, e, "ACTIVE")
    <3>1. /\ UNCHANGED <<keyStored, ledger>>
          /\ status'[e] = "ACTIVE" /\ \A f \in Escrow \ {e} : status'[f] = status[f]
          /\ req'[q].at \in {"pay", "failDeposit"} /\ req'[q].escrow = e
          /\ \A r \in Request \ {q} : req'[r] = req[r]
      <4>1. Proceed(q, "pay") \/ Proceed(q, "failDeposit")
        BY <1>6 DEF RecordEscrow
      <4>2. /\ req'[q].at \in {"pay", "failDeposit"} /\ req'[q].escrow = e
            /\ \A r \in Request \ {q} : req'[r] = req[r]
        BY <1>0, <4>1, GoesOn DEF Places
      <4> QED
        BY <1>0, <1>6, <2>0, <2>1, <4>2 DEF RecordEscrow, Set, EscrowTypes
    <3>2. \A r \in Request \ {q} :
            req[r].at \in Making \cup Settling => req[r].escrow # e
      BY <2>0 DEF EscrowInv, Alone, Making
    <3>3. \A r \in Request : Located(r)'
      BY <2>0, <3>1, <3>2 DEF EscrowInv, Located, Making, Settling
    <3>4. Alone'
      BY <2>0, <3>1, <3>2 DEF EscrowInv, Alone, Making, Settling
    <3>5. Unborn' /\ RowIsTrue'
      BY <2>0, <3>1 DEF EscrowInv, Unborn, RowIsTrue
    <3> QED
      BY <1>0, <3>3, <3>4, <3>5 DEF EscrowInv
  <2>2. CASE Proceed(q, "failDeposit") /\ UNCHANGED status
    BY <1>0, <1>6, <2>0, <2>2, Passing DEF RecordEscrow, Proceed, EscrowTypes
  <2> QED
    BY <1>6, <2>1, <2>2 DEF RecordEscrow
<1>7. ASSUME NEW q \in Request, SaveDeposit(q) \/ FailDeposit(q)
      PROVE  EscrowInv'
  <2>0. UNCHANGED <<keyStored, ledger, status>> /\ req[q].escrow \in Escrow
    BY <1>7 DEF SaveDeposit, FailDeposit, At, EscrowInv, Located
  <2>1. End(q) \/ Proceed(q, "failDeposit")
    BY <1>7 DEF SaveDeposit, FailDeposit
  <2>2. /\ \A r \in Request \ {q} : req'[r] = req[r]
        /\ \/ req'[q].at = "idle"
           \/ req'[q].at = "failDeposit" /\ req'[q].escrow = req[q].escrow
    <3>1. CASE End(q)
      BY <1>0, <3>1, Ends
    <3>2. CASE Proceed(q, "failDeposit")
      BY <1>0, <3>2, GoesOn DEF Places
    <3> QED
      BY <2>1, <3>1, <3>2
  <2> QED
    BY <1>0, <2>0, <2>2, Passing
<1>8. ASSUME NEW q \in Request, LoadAccount(q)
      PROVE  EscrowInv'
  <2>1. /\ UNCHANGED <<keyStored, ledger, status>>
        /\ req[q].at = "load" /\ req[q].escrow \in Escrow
        /\ \A r \in Request \ {q} : req'[r] = req[r]
        /\ \/ req'[q].at = "idle"
           \/ /\ req'[q].at = "submit" /\ req'[q].escrow = req[q].escrow
              /\ req'[q].op = req[q].op
    <3>1. /\ UNCHANGED <<keyStored, ledger, status>>
          /\ req[q].at = "load" /\ req[q].escrow \in Escrow
      BY <1>8 DEF LoadAccount, At, EscrowInv, Located
    <3>2. CASE End(q)
      BY <1>0, <3>1, <3>2, Ends
    <3>3. CASE Proceed(q, "submit")
      BY <1>0, <3>1, <3>3, GoesOn DEF Places, Settling
    <3> QED
      BY <1>8, <3>2, <3>3 DEF LoadAccount
  <2> QED
    BY <1>0, <2>1, Passing DEF Settling
<1>9. ASSUME NEW q \in Request, SubmitSettlement(q)
      PROVE  EscrowInv'
  <2> DEFINE e == req[q].escrow
  <2>0. req[q].at = "submit" /\ e \in Escrow /\ req[q].op \in Settled
    BY <1>9 DEF SubmitSettlement, At, EscrowInv, Located, Settling
  <2>1. CASE ledger[e] = "funded" /\ ledger' = Set(ledger, e, Receiver(req[q].op))
    <3>1. /\ UNCHANGED <<keyStored, status>>
          /\ ledger'[e] = Receiver(req[q].op)
          /\ \A f \in Escrow \ {e} : ledger'[f] = ledger[f]
          /\ \/ req'[q].at = "idle"
             \/ /\ req'[q].at = "commit" /\ req'[q].escrow = e
                /\ req'[q].op = req[q].op
          /\ \A r \in Request \ {q} : req'[r] = req[r]
      <4>1. /\ UNCHANGED <<keyStored, status>>
            /\ ledger'[e] = Receiver(req[q].op)
            /\ \A f \in Escrow \ {e} : ledger'[f] = ledger[f]
        BY <1>0, <1>9, <2>0, <2>1 DEF SubmitSettlement, Set, EscrowTypes
      <4>2. CASE End(q)
        BY <1>0, <4>1, <4>2, Ends
      <4>3. CASE Proceed(q, "commit")
        BY <1>0, <4>1, <4>3, GoesOn DEF Places, Settling
      <4> QED
        BY <1>9, <4>2, <4>3 DEF SubmitSettlement
    <3>2. \A r \in Request \ {q} : req[r].at \in Making => req[r].escrow # e
      BY <2>0 DEF EscrowInv, Alone, Settling
    <3>3. Receiver(req[q].op) \in {"destination", "source"}
      BY DEF Receiver
    <3>4. \A r \in Request \ {q} : req[r].at = "commit" => req[r].escrow # e
      BY <2>1 DEF EscrowInv, Located, Receiver
    <3>5. \A r \in Request : Located(r)'
      BY <2>0, <3>1, <3>2, <3>4 DEF EscrowInv, Located, Making, Settling
    <3>6. Alone'
      BY <2>0, <3>1 DEF EscrowInv, Alone, Making, Settling
    <3>7. Unborn' /\ RowIsTrue'
      <4>1. status[e] \notin Settled
        BY <2>0, <2>1 DEF EscrowInv, RowIsTrue, Receiver, Settled
      <4> QED
        BY <2>0, <2>1, <3>1, <3>3, <4>1 DEF EscrowInv, Unborn, RowIsTrue, Settled
    <3> QED
      BY <1>0, <3>5, <3>6, <3>7 DEF EscrowInv
  <2>2. CASE End(q) /\ UNCHANGED ledger
    BY <1>0, <1>9, <2>2, Passing DEF SubmitSettlement, End, Idle, EscrowTypes
  <2> QED
    BY <1>9, <2>1, <2>2 DEF SubmitSettlement
<1>10. ASSUME NEW q \in Request, CommitSettlement(q)
       PROVE  EscrowInv'
  <2> DEFINE e == req[q].escrow
  <2>0. /\ req[q].at = "commit" /\ e \in Escrow /\ req[q].op \in Settled
        /\ ledger[e] = Receiver(req[q].op)
    BY <1>10 DEF CommitSettlement, At, EscrowInv, Located, Settling
  <2>1. /\ UNCHANGED <<keyStored, ledger>>
        /\ \A r \in Request \ {q} : req'[r] = req[r]
        /\ \/ req'[q].at = "idle"
           \/ req'[q].at = "sync" /\ req'[q].escrow = e
    <3>1. CASE End(q)
      BY <1>0, <1>10, <3>1, Ends DEF CommitSettlement
    <3>2. CASE req' = [req EXCEPT ![q].at = "sync", ![q].seen = req[q].op]
      BY <1>0, <1>10, <2>0, <3>2, ReadAgain DEF CommitSettlement
    <3> QED
      BY <1>10, <3>1, <3>2 DEF CommitSettlement
  <2>2. CASE status' = Set(status, e, req[q].op)
    <3>1. status'[e] = req[q].op /\ \A f \in Escrow \ {e} : status'[f] = status[f]
      BY <1>0, <2>0, <2>2 DEF Set, EscrowTypes
    <3>2. \A r \in Request \ {q} : req[r].at \in Making => req[r].escrow # e
      BY <2>0 DEF EscrowInv, Alone, Settling
    <3>3. \A r \in Request : Located(r)'
      BY <2>0, <2>1, <3>1, <3>2 DEF EscrowInv, Located, Making, Settling
    <3>4. Alone'
      BY <2>0, <2>1 DEF EscrowInv, Alone, Making, Settling
    <3>5. Unborn' /\ RowIsTrue'
      BY <2>0, <2>1, <3>1 DEF EscrowInv, Unborn, RowIsTrue, Settled, Receiver
    <3> QED
      BY <1>0, <3>3, <3>4, <3>5 DEF EscrowInv
  <2>3. CASE UNCHANGED status
    BY <1>0, <2>0, <2>1, <2>3, Passing
  <2> QED
    BY <1>10, <2>2, <2>3 DEF CommitSettlement
<1>11. ASSUME NEW q \in Request, Sync(q) \/ CrashRequest(q)
       PROVE  EscrowInv'
  BY <1>0, <1>11, Passing DEF Sync, CrashRequest, End, Idle, EscrowTypes
<1>12. ASSUME UNCHANGED <<keyStored, ledger, status, req>>
       PROVE  EscrowInv'
  BY <1>0, <1>12 DEF EscrowInv, Located, Alone, Unborn, RowIsTrue
<1>13. CASE \E e \in Escrow, s \in Payment \ {"none"}, hash \in BOOLEAN : Webhook(e, s, hash)
  BY <1>12, <1>13 DEF Webhook
<1>14. CASE UNCHANGED escrowVars
  BY <1>12, <1>14 DEF escrowVars
<1> QED
  BY <1>1, <1>2, <1>3, <1>4, <1>5, <1>6, <1>7, <1>8, <1>9, <1>10, <1>11, <1>13, <1>14 DEF EscrowNext

-----------------------------------------------------------------------------
(* The books.                                                              *)

Unbooked == {e \in Escrow : ~Booked(e)}

Behind == IsFiniteSet(Unbooked) /\ DriftIsFault

\* An escrow off whose books the funds come is the request's, and costs a fault.
LEMMA OnlyMishaps ==
  ASSUME EscrowInv, [EscrowNext]_escrowVars
  PROVE  \/ Unbooked' \subseteq Unbooked /\ mishaps' >= mishaps
         \/ \E e \in Escrow : Unbooked' \subseteq Unbooked \cup {e} /\ mishaps' = mishaps + 1
<1> DEFINE Kept(e) ==
      /\ ledger'[e] = ledger[e] /\ status'[e] = status[e]
      /\ \A r \in Request : req[r].escrow = e /\ req[r].at \in {"record", "commit"} =>
           req'[r].escrow = e /\ req'[r].at = req[r].at
<1>0. EscrowTypes /\ EscrowTypes' /\ EscrowInv'
  BY EscrowInvStep DEF EscrowInv
<1>1. ASSUME NEW e \in Escrow, Kept(e), Booked(e)
      PROVE  Booked(e)'
  BY <1>1 DEF Booked, At
<1>2. ASSUME NEW q \in Request, \A r \in Request \ {q} : req'[r] = req[r],
             req[q].escrow \in Escrow,
             \A e \in Escrow \ {req[q].escrow} :
               ledger'[e] = ledger[e] /\ status'[e] = status[e],
             mishaps' = mishaps + 1
      PROVE  \E e \in Escrow : Unbooked' \subseteq Unbooked \cup {e} /\ mishaps' = mishaps + 1
  <2>1. \A e \in Escrow \ {req[q].escrow} : Kept(e)
    BY <1>2
  <2> QED
    BY <1>1, <1>2, <2>1 DEF Unbooked
<1>3. ASSUME NEW q \in Request, \A r \in Request \ {q} : req'[r] = req[r],
             req[q].escrow \in Escrow,
             \A e \in Escrow \ {req[q].escrow} :
               ledger'[e] = ledger[e] /\ status'[e] = status[e],
             \A e \in Escrow : e = req[q].escrow => Booked(e)' \/ Kept(e)
      PROVE  Unbooked' \subseteq Unbooked
  <2>1. \A e \in Escrow \ {req[q].escrow} : Kept(e)
    BY <1>3
  <2> QED
    BY <1>1, <1>3, <2>1 DEF Unbooked
<1>4. ASSUME \A e \in Escrow : Kept(e)
      PROVE  Unbooked' \subseteq Unbooked
  BY <1>1, <1>4 DEF Unbooked
<1>5. ASSUME NEW q \in Request, NEW e \in Escrow,
             BeginDeposit(q, e) \/ BeginRelease(q, e) \/ BeginRefund(q, e) \/ Reconcile(q, e)
      PROVE  Unbooked' \subseteq Unbooked /\ mishaps' >= mishaps
  <2>1. /\ UNCHANGED <<ledger, status, mishaps>> /\ req[q].at = "idle"
        /\ \A r \in Request \ {q} : req'[r] = req[r]
    BY <1>0, <1>5 DEF BeginDeposit, BeginRelease, BeginRefund, Reconcile, Start, At, EscrowTypes
  <2> QED
    BY <1>0, <1>4, <2>1 DEF EscrowTypes
<1>6. ASSUME NEW q \in Request,
             \/ CreateAccount(q) \/ FailDeposit(q) \/ LoadAccount(q) \/ Sync(q)
             \/ SaveDeposit(q) /\ NoMishap
      PROVE  Unbooked' \subseteq Unbooked /\ mishaps' >= mishaps
  <2>1. /\ UNCHANGED <<ledger, status, mishaps>> /\ req[q].at \notin {"record", "commit"}
    BY <1>0, <1>6 DEF CreateAccount, FailDeposit, LoadAccount, Sync, SaveDeposit, At, NoMishap,
                      EscrowTypes, Mishap
  <2>2. \A r \in Request \ {q} : req'[r] = req[r]
    BY <1>0, <1>6 DEF CreateAccount, FailDeposit, LoadAccount, Sync, SaveDeposit, Proceed, End,
                      EscrowTypes
  <2> QED
    BY <1>0, <1>4, <2>1, <2>2 DEF EscrowTypes
<1>7. ASSUME NEW q \in Request, Fund(q) \/ RecordEscrow(q) \/ SubmitSettlement(q) \/
             CommitSettlement(q) \/ SaveDeposit(q) \/ CrashRequest(q)
      PROVE  /\ \A r \in Request \ {q} : req'[r] = req[r]
             /\ req[q].escrow \in Escrow
             /\ \A e \in Escrow \ {req[q].escrow} :
                  ledger'[e] = ledger[e] /\ status'[e] = status[e]
             /\ Mishap \/ NoMishap
  <2>1. req[q].escrow \in Escrow
    BY <1>7 DEF Fund, RecordEscrow, SubmitSettlement, CommitSettlement, SaveDeposit, CrashRequest, At,
                EscrowInv, Located
  <2>2. \/ Proceed(q, "record") \/ Proceed(q, "failDeposit")
        \/ Proceed(q, "pay") \/ Proceed(q, "commit")
        \/ End(q) \/ req' = [req EXCEPT ![q].at = "sync", ![q].seen = req[q].op]
    BY <1>7 DEF Fund, RecordEscrow, SubmitSettlement, CommitSettlement, SaveDeposit, CrashRequest
  <2>3. \A r \in Request \ {q} : req'[r] = req[r]
    BY <1>0, <2>2 DEF Proceed, End, EscrowTypes
  <2>4. Mishap \/ NoMishap
    BY <1>7 DEF Fund, RecordEscrow, SubmitSettlement, CommitSettlement, SaveDeposit, CrashRequest
  <2>5. CASE Fund(q) \/ SubmitSettlement(q)
    BY <1>0, <2>1, <2>3, <2>4, <2>5 DEF Fund, SubmitSettlement, Set, EscrowTypes
  <2>6. CASE RecordEscrow(q) \/ CommitSettlement(q)
    BY <1>0, <2>1, <2>3, <2>4, <2>6 DEF RecordEscrow, CommitSettlement, Set, EscrowTypes
  <2>7. CASE SaveDeposit(q) \/ CrashRequest(q)
    BY <2>1, <2>3, <2>4, <2>7 DEF SaveDeposit, CrashRequest
  <2> QED
    BY <1>7, <2>5, <2>6, <2>7
<1>8. ASSUME NEW q \in Request, NoMishap, ~Mishap, Fund(q) \/ RecordEscrow(q),
             NEW e \in Escrow, e = req[q].escrow
      PROVE  Booked(e)' \/ Kept(e)
  <2>0. \A r \in Request \ {q} : req'[r] = req[r]
    BY <1>7, <1>8
  <2>1. CASE Fund(q)
    <3>1. CASE ledger' = Set(ledger, e, "funded") /\ Proceed(q, "record")
      <4>1. ledger'[e] = "funded" /\ req'[q].at = "record" /\ req'[q].escrow = e
        BY <1>0, <1>8, <3>1, GoesOn DEF Set, EscrowTypes, Places, Making
      <4> QED
        BY <4>1 DEF Booked, At
    <3>2. CASE UNCHANGED ledger
      BY <2>0, <2>1, <3>2 DEF Fund, At
    <3> QED
      BY <1>8, <2>1, <3>1, <3>2 DEF Fund
  <2>2. CASE RecordEscrow(q)
    <3>1. status' = Set(status, e, "ACTIVE") /\ UNCHANGED ledger /\ ledger[e] = "funded"
      BY <1>8, <2>2 DEF RecordEscrow, At, EscrowInv, Located
    <3>2. status'[e] = "ACTIVE" /\ ledger'[e] = "funded"
      BY <1>0, <2>0, <3>1 DEF Set, EscrowTypes
    <3> QED
      BY <3>2 DEF Booked
  <2> QED
    BY <1>8, <2>1, <2>2
<1>9. ASSUME NEW q \in Request, NoMishap, ~Mishap, SubmitSettlement(q) \/ CommitSettlement(q),
             NEW e \in Escrow, e = req[q].escrow
      PROVE  Booked(e)' \/ Kept(e)
  <2>0. \A r \in Request \ {q} : req'[r] = req[r]
    BY <1>7, <1>9
  <2>1. CASE SubmitSettlement(q)
    <3>1. CASE ledger' = Set(ledger, e, Receiver(req[q].op)) /\ Proceed(q, "commit")
      <4>1. /\ ledger'[e] \in {"destination", "source"}
            /\ req'[q].at = "commit" /\ req'[q].escrow = e
        BY <1>0, <1>9, <3>1, GoesOn DEF Set, EscrowTypes, Receiver, Places, Settling
      <4> QED
        BY <4>1 DEF Booked, At
    <3>2. CASE UNCHANGED ledger
      BY <2>0, <2>1, <3>2 DEF SubmitSettlement, At
    <3> QED
      BY <1>9, <2>1, <3>1, <3>2 DEF SubmitSettlement
  <2>2. CASE CommitSettlement(q)
    <3>1. /\ status' = Set(status, e, req[q].op) /\ UNCHANGED ledger
          /\ req[q].op \in Settled /\ ledger[e] = Receiver(req[q].op)
      BY <1>9, <2>2 DEF CommitSettlement, At, EscrowInv, Located, Settling
    <3>2. status'[e] = req[q].op /\ ledger'[e] = Receiver(status'[e])
      BY <1>0, <2>0, <3>1 DEF Set, EscrowTypes
    <3> QED
      BY <3>1, <3>2 DEF Booked, Receiver, Settled
  <2> QED
    BY <1>9, <2>1, <2>2
<1>10. ASSUME NEW q \in Request, Fund(q) \/ RecordEscrow(q) \/ SubmitSettlement(q) \/
              CommitSettlement(q) \/ SaveDeposit(q) \/ CrashRequest(q)
       PROVE  \/ Unbooked' \subseteq Unbooked /\ mishaps' >= mishaps
              \/ \E e \in Escrow : Unbooked' \subseteq Unbooked \cup {e} /\ mishaps' = mishaps + 1
  <2>1. CASE Mishap
    BY <1>2, <1>7, <1>10, <2>1 DEF Mishap
  <2>2. CASE NoMishap /\ ~Mishap /\ ~SaveDeposit(q)
    <3>1. ~CrashRequest(q)
      BY <2>2 DEF CrashRequest
    <3>2. \A e \in Escrow : e = req[q].escrow => Booked(e)' \/ Kept(e)
      BY <1>8, <1>9, <1>10, <2>2, <3>1
    <3>3. Unbooked' \subseteq Unbooked
      BY <1>3, <1>7, <1>10, <3>2
    <3> QED
      BY <1>0, <2>2, <3>3 DEF NoMishap, EscrowTypes
  <2>3. CASE NoMishap /\ SaveDeposit(q)
    BY <1>6, <2>3
  <2> QED
    BY <1>7, <1>10, <2>1, <2>2, <2>3
<1>11. CASE \E e \in Escrow, s \in Payment \ {"none"}, hash \in BOOLEAN : Webhook(e, s, hash)
  <2>1. UNCHANGED <<ledger, status, req, mishaps>>
    BY <1>11 DEF Webhook
  <2> QED
    BY <1>0, <1>4, <2>1 DEF EscrowTypes
<1>12. CASE UNCHANGED escrowVars
  BY <1>0, <1>4, <1>12 DEF escrowVars, EscrowTypes
<1> QED
  BY <1>5, <1>6, <1>10, <1>11, <1>12 DEF EscrowNext

\* The number of escrows off the books is bounded by the faults.
LEMMA BehindStep ==
  ASSUME EscrowInv, Behind, [EscrowNext]_escrowVars
  PROVE  Behind'
<1>1. mishaps \in Nat /\ mishaps' \in Nat
  BY EscrowTypeStep DEF EscrowInv, EscrowTypes
<1>2. CASE Unbooked' \subseteq Unbooked /\ mishaps' >= mishaps
  <2>1. IsFiniteSet(Unbooked') /\ Cardinality(Unbooked') <= Cardinality(Unbooked)
        /\ Cardinality(Unbooked) \in Nat /\ Cardinality(Unbooked') \in Nat
    BY <1>2, FS_Subset, FS_CardinalityType DEF Behind
  <2> QED
    BY <1>1, <1>2, <2>1 DEF Behind, DriftIsFault, Unbooked
<1>3. ASSUME NEW e \in Escrow, Unbooked' \subseteq Unbooked \cup {e}, mishaps' = mishaps + 1
      PROVE  Behind'
  <2>0. IsFiniteSet(Unbooked) /\ Cardinality(Unbooked) \in Nat
    BY FS_CardinalityType DEF Behind
  <2>1. IsFiniteSet(Unbooked \cup {e})
        /\ Cardinality(Unbooked \cup {e}) <= Cardinality(Unbooked) + 1
        /\ Cardinality(Unbooked \cup {e}) \in Nat
    <3>1. /\ IsFiniteSet(Unbooked \cup {e})
          /\ Cardinality(Unbooked \cup {e}) =
               IF e \in Unbooked THEN Cardinality(Unbooked) ELSE Cardinality(Unbooked) + 1
      BY <2>0, FS_AddElement, Zenon
    <3> QED
      BY <2>0, <3>1
  <2>2. IsFiniteSet(Unbooked') /\ Cardinality(Unbooked') <= Cardinality(Unbooked \cup {e})
        /\ Cardinality(Unbooked') \in Nat
    BY <1>3, <2>1, FS_Subset, FS_CardinalityType
  <2> QED
    BY <1>1, <1>3, <2>0, <2>1, <2>2 DEF Behind, DriftIsFault, Unbooked
<1> QED
  BY <1>2, <1>3, OnlyMishaps

\* Nothing is behind at first.
LEMMA BehindInit == EscrowInit => Behind
<1> SUFFICES ASSUME EscrowInit
             PROVE  Behind
  OBVIOUS
<1>1. Unbooked = {}
  BY DEF EscrowInit, Unbooked, Booked
<1>2. IsFiniteSet({}) /\ Cardinality({}) = 0
  BY FS_EmptySet
<1> QED
  BY <1>1, <1>2 DEF Behind, DriftIsFault, Unbooked, EscrowInit

-----------------------------------------------------------------------------
(* The theorems.                                                           *)

\* The key of an account that holds funds is always stored.
THEOREM KeyOfFundsAlways == EscrowSpec => []KeyOfFunds
<1>1. EscrowInv => KeyOfFunds
  BY DEF EscrowInv, Unborn, KeyOfFunds
<1>2. EscrowInit => EscrowInv
  BY EscrowInvInit
<1>3. EscrowInv /\ [EscrowNext]_escrowVars => EscrowInv'
  BY EscrowInvStep
<1> QED
  BY <1>1, <1>2, <1>3, PTL DEF EscrowSpec

\* An escrow's row is true of the ledger, and each row that lags cost a fault.
THEOREM BooksFollowLedgerAlways == EscrowSpec => []BooksFollowLedger
<1>1. EscrowInv /\ Behind => BooksFollowLedger
  BY DEF EscrowInv, Behind, BooksFollowLedger
<1>2. EscrowInit => EscrowInv /\ Behind
  BY EscrowInvInit, BehindInit
<1>3. EscrowInv /\ Behind /\ [EscrowNext]_escrowVars => EscrowInv' /\ Behind'
  BY EscrowInvStep, BehindStep
<1> QED
  BY <1>1, <1>2, <1>3, PTL DEF EscrowSpec

-----------------------------------------------------------------------------
(* Payments.                                                               *)
-----------------------------------------------------------------------------

CallPlaces ==
  {"new", "build", "insert", "submit", "commitDone", "commitFailed", "returned", "threw"}
RentPlaces == {"new", "send", "poll", "saveDone", "savePending", "saveFailed", "returned"}

Types ==
  /\ TypeOK
  /\ at \in [Caller -> CallPlaces \cup RentPlaces]
  /\ \A c \in Call : at[c] \in CallPlaces
  /\ \A c \in Rent : at[c] \in RentPlaces

Own(c) == Tx(c, tx[c])
Sent(c) == \E t \in applied \cup waiting : t.by = c

\* The sequence numbers of what was applied and of what waits.
Numbers ==
  /\ \A c \in Caller : tx[c] <= seq + 1
  /\ \A t \in applied : t = Own(t.by) /\ t.seq <= seq
  /\ \A t \in waiting :
       /\ t.seq <= seq + 1
       /\ t.seq = seq + 1 \/ t.by \in Rent => t = Own(t.by)

Unsent == \A c \in Caller : at[c] \in {"new", "build", "insert", "threw"} => ~Sent(c)

\* The rows, and the one call that may have a row for a key.
Holds(c) == Inserted(c) \/ row[c] # "none"

Rows ==
  /\ \A c \in Caller :
       row[c] = "completed" \/ at[c] \in {"commitDone", "saveDone"} =>
         \E t \in applied : t.by = c
  /\ \A c \in Call : row[c] # "none" => at[c] = "returned"
  /\ \A c \in Rent : row[c] = "pending" => at[c] = "returned"

OneHolder == \A c, d \in Call : Same(c, d) /\ Holds(c) /\ Holds(d) => c = d

Inv == Types /\ Numbers /\ Unsent /\ Rows /\ OneHolder

USE StellarPaymentAssumption DEF Caller

-----------------------------------------------------------------------------
(* The invariant.                                                          *)

\* The initial state satisfies the invariant.
LEMMA InvInit == Init => Inv
<1> SUFFICES ASSUME Init
             PROVE  Inv
  OBVIOUS
<1>1. Types
  BY DEF Init, Types, TypeOK, CallPlaces, RentPlaces
<1>2. Numbers /\ Unsent
  BY DEF Init, Numbers, Unsent, Sent
<1>3. Rows /\ OneHolder
  BY DEF Init, Rows, OneHolder, Holds, Inserted
<1> QED
  BY <1>1, <1>2, <1>3 DEF Inv

\* A call goes somewhere.
LEMMA Goes ==
  ASSUME Types, NEW c \in Caller, NEW l, Goto(c, l),
         c \in Call => l \in CallPlaces, c \in Rent => l \in RentPlaces
  PROVE  /\ at' \in [Caller -> CallPlaces \cup RentPlaces]
         /\ \A d \in Call : at'[d] \in CallPlaces
         /\ \A d \in Rent : at'[d] \in RentPlaces
         /\ at'[c] = l /\ \A d \in Caller \ {c} : at'[d] = at[d]
BY DEF Types, Goto

\* What one attempt of c may do to the ledger: nothing, have its transaction
\* applied, or have it wait.
Attempt(c) ==
  \/ UNCHANGED <<seq, applied, waiting>>
  \/ Take(Own(c))
  \/ waiting' = waiting \cup ({Own(c)} \ applied) /\ UNCHANGED <<seq, applied>>

\* A step of c leaves the other calls where they are.
Apart(c) ==
  \A d \in Caller \ {c} : at'[d] = at[d] /\ tx'[d] = tx[d] /\ row'[d] = row[d]

\* An attempt keeps the types of the ledger.
LEMMA AttemptType ==
  ASSUME Types, NEW c \in Caller, Attempt(c)
  PROVE  /\ seq' \in Nat /\ seq' >= seq
         /\ applied' \in SUBSET [by: Caller, seq: Nat] /\ applied \subseteq applied'
         /\ waiting' \in SUBSET [by: Caller, seq: Nat]
BY DEF Types, TypeOK, Attempt, Take, Own, Tx

\* An attempt keeps the sequence numbers, and sends nothing of other calls.
LEMMA AttemptNumbers ==
  ASSUME Types, Numbers, NEW c \in Caller, Attempt(c), UNCHANGED tx
  PROVE  Numbers' /\ \A d \in Caller \ {c} : Sent(d)' => Sent(d)
<1>1. \A d \in Caller \ {c} : Sent(d)' => Sent(d)
  BY DEF Attempt, Take, Own, Tx, Sent
<1>2. CASE UNCHANGED <<seq, applied, waiting>>
  BY <1>1, <1>2 DEF Numbers, Own
<1>3. CASE Take(Own(c))
  BY <1>1, <1>3 DEF Numbers, Take, Own, Tx, Types, TypeOK
<1>4. CASE waiting' = waiting \cup ({Own(c)} \ applied) /\ UNCHANGED <<seq, applied>>
  BY <1>1, <1>4 DEF Numbers, Own, Tx, Types, TypeOK
<1> QED
  BY <1>2, <1>3, <1>4 DEF Attempt

\* A transaction that is built when nothing of the call can be taken up keeps
\* the sequence numbers.
LEMMA BuiltNumbers ==
  ASSUME Types, Numbers, NEW c \in Caller, tx' = [tx EXCEPT ![c] = seq + 1],
         UNCHANGED <<seq, applied, waiting>>,
         \A t \in applied : t.by # c,
         \A t \in waiting : t.by = c => t.seq # seq + 1 /\ t.by \notin Rent
  PROVE  Numbers'
BY DEF Numbers, Own, Tx, Types, TypeOK

\* Every step keeps the types.
LEMMA TypeStep == Inv /\ [Next]_vars => Types'
<1> SUFFICES ASSUME Inv, [Next]_vars
             PROVE  Types'
  OBVIOUS
<1>0. Types
  BY DEF Inv
<1> USE <1>0
<1>1. ASSUME NEW c \in Caller, Lookup(c) \/ Build(c) \/ Insert(c)
      PROVE  Types'
  <2>1. c \in Call /\ \E l \in CallPlaces : Goto(c, l)
    BY <1>1 DEF Lookup, Build, Insert, CallPlaces
  <2>2. /\ at' \in [Caller -> CallPlaces \cup RentPlaces]
        /\ \A d \in Call : at'[d] \in CallPlaces
        /\ \A d \in Rent : at'[d] \in RentPlaces
    BY <2>1, Goes
  <2> QED
    BY <1>1, <2>2 DEF Lookup, Build, Insert, Types, TypeOK
<1>2. ASSUME NEW c \in Caller, Submit(c)
      PROVE  Types'
  <2>1. c \in Call /\ Attempt(c)
    BY <1>2 DEF Submit, Attempt, Own
  <2>2. /\ tx' \in [Caller -> Nat] /\ attempt' \in [Caller -> 1..MaxAttempts]
        /\ UNCHANGED <<row, faults>>
    BY <1>2 DEF Submit, Retry, Resend, Types, TypeOK
  <2>3. Goto(c, "commitDone") \/ Goto(c, "commitFailed") \/ UNCHANGED at
    BY <1>2 DEF Submit, Retry
  <2>4. /\ at' \in [Caller -> CallPlaces \cup RentPlaces]
        /\ \A d \in Call : at'[d] \in CallPlaces
        /\ \A d \in Rent : at'[d] \in RentPlaces
    BY <2>1, <2>3, Goes DEF CallPlaces, Types
  <2> QED
    BY <2>1, <2>2, <2>4, AttemptType DEF Types, TypeOK
<1>3. ASSUME NEW c \in Caller, Commit(c)
      PROVE  Types'
  <2>1. c \in Call /\ Goto(c, "returned")
    BY <1>3 DEF Commit
  <2>2. /\ at' \in [Caller -> CallPlaces \cup RentPlaces]
        /\ \A d \in Call : at'[d] \in CallPlaces
        /\ \A d \in Rent : at'[d] \in RentPlaces
    BY <2>1, Goes DEF CallPlaces
  <2> QED
    BY <1>3, <2>2 DEF Commit, Fault, NoFault, Types, TypeOK
<1>4. ASSUME NEW c \in Caller, RentBuild(c) \/ RentPoll(c) \/ RentSave(c)
      PROVE  Types'
  <2>1. c \in Rent /\ \E l \in RentPlaces : Goto(c, l)
    BY <1>4 DEF RentBuild, RentPoll, RentSave, RentPlaces
  <2>2. /\ at' \in [Caller -> CallPlaces \cup RentPlaces]
        /\ \A d \in Call : at'[d] \in CallPlaces
        /\ \A d \in Rent : at'[d] \in RentPlaces
    BY <2>1, Goes
  <2>3. UNCHANGED <<seq, applied, waiting, attempt>> /\ tx' \in [Caller -> Nat]
    BY <1>4 DEF RentBuild, RentPoll, RentSave, Types, TypeOK
  <2>4. faults' \in 0..MaxFaults
    BY <1>4 DEF RentBuild, RentPoll, RentSave, Fault, NoFault, Types, TypeOK
  <2>5. row' \in [Caller -> {"none", "pending", "completed", "failed"}]
    BY <1>4 DEF RentBuild, RentPoll, RentSave, Types, TypeOK
  <2> QED
    BY <2>2, <2>3, <2>4, <2>5 DEF Types, TypeOK
<1>5. ASSUME NEW c \in Caller, RentSend(c)
      PROVE  Types'
  <2>1. c \in Rent /\ Attempt(c)
    BY <1>5 DEF RentSend, Attempt, Own
  <2>2. /\ UNCHANGED <<tx, row>> /\ attempt' \in [Caller -> 1..MaxAttempts]
        /\ faults' \in 0..MaxFaults
    BY <1>5 DEF RentSend, Retry, Fault, NoFault, Types, TypeOK
  <2>3. Goto(c, "poll") \/ Goto(c, "saveFailed") \/ UNCHANGED at
    BY <1>5 DEF RentSend, Retry
  <2>4. /\ at' \in [Caller -> CallPlaces \cup RentPlaces]
        /\ \A d \in Call : at'[d] \in CallPlaces
        /\ \A d \in Rent : at'[d] \in RentPlaces
    BY <2>1, <2>3, Goes DEF RentPlaces, Types
  <2> QED
    BY <2>1, <2>2, <2>4, AttemptType DEF Types, TypeOK
<1>6. ASSUME NEW c \in Caller, Crash(c)
      PROVE  Types'
  <2>1. /\ at' \in [Caller -> CallPlaces \cup RentPlaces]
        /\ \A d \in Call : at'[d] \in CallPlaces
        /\ \A d \in Rent : at'[d] \in RentPlaces
    BY <1>6, Goes DEF Crash, CallPlaces, RentPlaces
  <2> QED
    BY <1>6, <2>1 DEF Crash, Fault, Types, TypeOK
<1>7. ASSUME NEW t \in waiting, Apply(t)
      PROVE  Types'
  BY <1>7 DEF Apply, Take, Types, TypeOK
<1>8. CASE UNCHANGED vars
  BY <1>8 DEF vars, Types, TypeOK
<1> QED
  BY <1>1, <1>2, <1>3, <1>4, <1>5, <1>6, <1>7, <1>8 DEF Next

\* A step of one call that settles nothing the ledger did not do, and takes a key
\* only when no other call has it, keeps what the rows say.
LEMMA Stays ==
  ASSUME Inv, Types', NEW c \in Caller, Apart(c), applied \subseteq applied',
         \A d \in Caller \ {c} : Sent(d)' => Sent(d),
         at'[c] \in {"new", "build", "insert", "threw"} => ~Sent(c)',
         row'[c] = "completed" \/ at'[c] \in {"commitDone", "saveDone"} =>
           \E t \in applied' : t.by = c,
         c \in Call /\ row'[c] # "none" => at'[c] = "returned",
         c \in Rent /\ row'[c] = "pending" => at'[c] = "returned",
         c \in Call /\ Holds(c)' =>
           Holds(c) \/ \A d \in Call \ {c} : Same(c, d) => ~Holds(d)
  PROVE  Unsent' /\ Rows' /\ OneHolder'
<1>1. Unsent'
  BY DEF Inv, Unsent, Apart
<1>2. Rows'
  <2>1. \A d \in Caller :
          row'[d] = "completed" \/ at'[d] \in {"commitDone", "saveDone"} =>
            \E t \in applied' : t.by = d
    BY DEF Inv, Rows, Apart
  <2>2. /\ \A d \in Call : row'[d] # "none" => at'[d] = "returned"
        /\ \A d \in Rent : row'[d] = "pending" => at'[d] = "returned"
    BY DEF Inv, Rows, Apart
  <2> QED
    BY <2>1, <2>2 DEF Rows
<1>3. OneHolder'
  <2>1. \A d \in Call \ {c} : Holds(d)' => Holds(d)
    BY DEF Holds, Inserted, Apart
  <2> QED
    BY <2>1 DEF Inv, OneHolder, Same
<1> QED
  BY <1>1, <1>2, <1>3

\* A call sends nothing before it is ready.
LEMMA Quiet ==
  ASSUME Inv, NEW c \in Caller, at[c] \in {"new", "build", "insert", "threw"}
  PROVE  ~Sent(c)
BY DEF Inv, Unsent

\* An attempt to submit, in full.
LEMMA SubmitStep ==
  ASSUME Inv, NEW c \in Caller, Submit(c)
  PROVE  /\ c \in Call /\ at[c] = "submit" /\ UNCHANGED row /\ Apart(c)
         /\ at'[c] \in {"submit", "commitDone", "commitFailed"}
         /\ at'[c] = "commitDone" => \E t \in applied' : t.by = c
         /\ applied \subseteq applied' /\ \A d \in Caller \ {c} : Sent(d)' => Sent(d)
         /\ Numbers'
<1>0. Types /\ Numbers
  BY DEF Inv
<1>1. c \in Call /\ at[c] = "submit" /\ UNCHANGED row /\ Attempt(c)
  BY DEF Submit, Attempt, Own
<1>2. applied \subseteq applied'
  BY <1>0, <1>1, AttemptType
<1>3. /\ at'[c] \in {"submit", "commitDone", "commitFailed"}
      /\ \A d \in Caller \ {c} : at'[d] = at[d]
  <2>1. Goto(c, "commitDone") \/ Goto(c, "commitFailed") \/ UNCHANGED at
    BY DEF Submit, Retry
  <2> QED
    BY <1>0, <1>1, <2>1, Goes DEF CallPlaces
<1>4. at'[c] = "commitDone" => \E t \in applied' : t.by = c
  <2>1. \/ Own(c) \in applied'
        \/ Goto(c, "commitFailed") \/ UNCHANGED at
    BY DEF Submit, Retry, Take, Own
  <2>2. Own(c).by = c
    BY DEF Own, Tx
  <2>3. CASE Goto(c, "commitFailed")
    BY <1>0, <1>1, <2>3, Goes DEF CallPlaces
  <2>4. CASE UNCHANGED at
    BY <1>1, <2>4
  <2> QED
    BY <2>1, <2>2, <2>3, <2>4
<1>5. \/ UNCHANGED tx
      \/ /\ tx' = [tx EXCEPT ![c] = seq + 1] /\ UNCHANGED <<seq, applied, waiting>>
         /\ Own(c) \notin applied /\ Own(c).seq # seq + 1
  BY DEF Submit, Resend, Own
<1>6. CASE UNCHANGED tx
  BY <1>0, <1>1, <1>2, <1>3, <1>4, <1>6, AttemptNumbers DEF Apart
<1>7. CASE /\ tx' = [tx EXCEPT ![c] = seq + 1] /\ UNCHANGED <<seq, applied, waiting>>
           /\ Own(c) \notin applied /\ Own(c).seq # seq + 1
  <2>1. /\ \A t \in applied : t.by # c
        /\ \A t \in waiting : t.by = c => t.seq # seq + 1 /\ t.by \notin Rent
    BY <1>0, <1>1, <1>7 DEF Numbers
  <2>2. Numbers'
    BY <1>0, <1>7, <2>1, BuiltNumbers
  <2>3. Apart(c) /\ \A d \in Caller \ {c} : Sent(d)' => Sent(d)
    BY <1>0, <1>1, <1>3, <1>7 DEF Apart, Sent, Types, TypeOK
  <2> QED
    BY <1>1, <1>2, <1>3, <1>4, <2>2, <2>3
<1> QED
  BY <1>5, <1>6, <1>7

\* Every step keeps the invariant.
LEMMA InvStep == Inv /\ [Next]_vars => Inv'
<1> SUFFICES ASSUME Inv, [Next]_vars
             PROVE  Inv'
  OBVIOUS
<1>0. Types /\ Types' /\ Numbers
  BY TypeStep DEF Inv
<1>1. ASSUME NEW c \in Caller, Lookup(c) \/ Insert(c)
      PROVE  Inv'
  <2>1. /\ c \in Call /\ UNCHANGED <<seq, applied, waiting, tx, row>>
        /\ at[c] \in {"new", "insert"}
    BY <1>1 DEF Lookup, Insert
  <2>2. /\ at'[c] \in {"returned", "build", "threw", "submit"}
        /\ \A d \in Caller \ {c} : at'[d] = at[d]
    <3>1. \E l \in {"returned", "build", "threw", "submit"} : Goto(c, l)
      BY <1>1 DEF Lookup, Insert
    <3> QED
      BY <1>0, <2>1, <3>1, Goes DEF CallPlaces
  <2>3. Numbers'
    BY <1>0, <2>1, AttemptNumbers DEF Attempt
  <2>4. row[c] = "none" /\ ~Sent(c)
    BY <2>1, Quiet DEF Inv, Rows
  <2>5. at'[c] = "submit" => \A d \in Call \ {c} : Same(c, d) => ~Holds(d)
    <3>1. CASE Lookup(c)
      <4>1. Goto(c, "returned") \/ Goto(c, "build")
        BY <3>1 DEF Lookup
      <4> QED
        BY <1>0, <2>1, <4>1, Goes DEF CallPlaces
    <3>2. CASE Insert(c) /\ \E d \in Call : d # c /\ Same(c, d) /\ row[d] # "none"
      <4>1. Goto(c, "threw")
        BY <3>2 DEF Insert
      <4> QED
        BY <1>0, <2>1, <4>1, Goes DEF CallPlaces
    <3>3. CASE Insert(c) /\ ~\E d \in Call : d # c /\ Same(c, d) /\ row[d] # "none"
      BY <3>3 DEF Insert, Holds
    <3> QED
      BY <1>1, <3>1, <3>2, <3>3
  <2>6. Apart(c) /\ \A d \in Caller : Sent(d)' => Sent(d)
    BY <2>1, <2>2 DEF Apart, Sent
  <2>7. Holds(c)' => at'[c] = "submit"
    BY <2>1, <2>2, <2>4 DEF Holds, Inserted
  <2>8. Unsent' /\ Rows' /\ OneHolder'
    BY <1>0, <2>1, <2>2, <2>4, <2>5, <2>6, <2>7, Stays
  <2> QED
    BY <1>0, <2>3, <2>8 DEF Inv
<1>2. ASSUME NEW c \in Caller, Build(c)
      PROVE  Inv'
  <2>1. /\ c \in Call /\ UNCHANGED <<seq, applied, waiting, row>> /\ at[c] = "build"
        /\ tx' = [tx EXCEPT ![c] = seq + 1]
    BY <1>2 DEF Build
  <2>2. at'[c] = "insert" /\ Apart(c)
    BY <1>0, <1>2, <2>1, Goes DEF Build, CallPlaces, Apart, Types, TypeOK
  <2>3. row[c] = "none" /\ ~Sent(c)
    BY <2>1, Quiet DEF Inv, Rows
  <2>4. Numbers'
    BY <1>0, <2>1, <2>3, BuiltNumbers DEF Sent
  <2>5. \A d \in Caller : Sent(d)' => Sent(d)
    BY <2>1 DEF Sent
  <2>6. ~Holds(c)'
    BY <2>1, <2>2, <2>3 DEF Holds, Inserted
  <2>7. Unsent' /\ Rows' /\ OneHolder'
    BY <1>0, <2>1, <2>2, <2>3, <2>5, <2>6, Stays
  <2> QED
    BY <1>0, <2>4, <2>7 DEF Inv
<1>3. ASSUME NEW c \in Caller, Submit(c)
      PROVE  Inv'
  <2>1. row[c] = "none" /\ Holds(c) /\ c \notin Rent
    BY <1>3, SubmitStep DEF Inv, Rows, Holds, Inserted
  <2>2. Unsent' /\ Rows' /\ OneHolder'
    BY <1>0, <1>3, <2>1, SubmitStep, Stays
  <2> QED
    BY <1>0, <1>3, <2>2, SubmitStep DEF Inv
<1>4. ASSUME NEW c \in Caller, Commit(c)
      PROVE  Inv'
  <2>1. /\ c \in Call /\ UNCHANGED <<seq, applied, waiting, tx>>
        /\ at[c] \in {"commitDone", "commitFailed"}
    BY <1>4 DEF Commit
  <2>2. at'[c] = "returned" /\ \A d \in Caller \ {c} : at'[d] = at[d]
    BY <1>0, <1>4, <2>1, Goes DEF Commit, CallPlaces
  <2>3. /\ \A d \in Caller \ {c} : row'[d] = row[d]
        /\ row'[c] = "completed" => at[c] = "commitDone" \/ row[c] = "completed"
    BY <1>0, <1>4 DEF Commit, Types, TypeOK
  <2>4. Numbers'
    BY <1>0, <2>1, AttemptNumbers DEF Attempt
  <2>5. Apart(c) /\ \A d \in Caller : Sent(d)' => Sent(d)
    BY <2>1, <2>2, <2>3 DEF Apart, Sent
  <2>6. Holds(c)
    BY <2>1 DEF Holds, Inserted
  <2>7. row'[c] = "completed" => \E t \in applied' : t.by = c
    BY <2>1, <2>3 DEF Inv, Rows
  <2>8. Unsent' /\ Rows' /\ OneHolder'
    BY <1>0, <2>1, <2>2, <2>5, <2>6, <2>7, Stays
  <2> QED
    BY <1>0, <2>4, <2>8 DEF Inv
<1>5. ASSUME NEW c \in Caller, RentBuild(c)
      PROVE  Inv'
  <2>1. /\ c \in Rent /\ UNCHANGED <<seq, applied, waiting, row>> /\ at[c] = "new"
        /\ tx' = [tx EXCEPT ![c] = seq + 1] \/ UNCHANGED tx
    BY <1>5 DEF RentBuild
  <2>2. at'[c] \in {"send", "saveFailed"} /\ Apart(c)
    <3>1. Goto(c, "send") \/ Goto(c, "saveFailed")
      BY <1>5 DEF RentBuild
    <3> QED
      BY <1>0, <2>1, <3>1, Goes DEF RentPlaces, Apart, Types, TypeOK
  <2>3. ~Sent(c)
    BY <2>1, Quiet
  <2>4. Numbers'
    BY <1>0, <2>1, <2>3, BuiltNumbers, AttemptNumbers DEF Sent, Attempt
  <2>5. \A d \in Caller : Sent(d)' => Sent(d)
    BY <2>1 DEF Sent
  <2>6. /\ row'[c] # "pending" /\ c \notin Call
        /\ row'[c] = "completed" => \E t \in applied' : t.by = c
    BY <2>1 DEF Inv, Rows
  <2>7. Unsent' /\ Rows' /\ OneHolder'
    BY <1>0, <2>1, <2>2, <2>5, <2>6, Stays
  <2> QED
    BY <1>0, <2>4, <2>7 DEF Inv
<1>6. ASSUME NEW c \in Caller, RentSend(c)
      PROVE  Inv'
  <2>1. c \in Rent /\ c \notin Call /\ UNCHANGED <<tx, row>> /\ Attempt(c) /\ at[c] = "send"
    BY <1>6 DEF RentSend, Attempt, Own
  <2>2. at'[c] \in {"send", "poll", "saveFailed"} /\ Apart(c)
    <3>1. Goto(c, "poll") \/ Goto(c, "saveFailed") \/ UNCHANGED at
      BY <1>6 DEF RentSend, Retry
    <3> QED
      BY <1>0, <2>1, <3>1, Goes DEF RentPlaces, Apart
  <2>3. Numbers' /\ applied \subseteq applied' /\ \A d \in Caller \ {c} : Sent(d)' => Sent(d)
    BY <1>0, <2>1, AttemptNumbers, AttemptType
  <2>4. row'[c] = "completed" => \E t \in applied' : t.by = c
    BY <2>1, <2>3 DEF Inv, Rows
  <2>5. row'[c] # "pending"
    BY <2>1 DEF Inv, Rows
  <2>6. Unsent' /\ Rows' /\ OneHolder'
    BY <1>0, <2>1, <2>2, <2>3, <2>4, <2>5, Stays
  <2> QED
    BY <1>0, <2>3, <2>6 DEF Inv
<1>7. ASSUME NEW c \in Caller, RentPoll(c) \/ RentSave(c)
      PROVE  Inv'
  <2>1. /\ c \in Rent /\ c \notin Call /\ UNCHANGED <<seq, applied, waiting, tx>>
        /\ at[c] \in {"poll", "saveDone", "savePending", "saveFailed"}
    BY <1>7 DEF RentPoll, RentSave
  <2>2. /\ at'[c] \in {"saveDone", "savePending", "saveFailed", "returned"}
        /\ \A d \in Caller \ {c} : at'[d] = at[d]
    <3>1. \E l \in {"saveDone", "savePending", "saveFailed", "returned"} : Goto(c, l)
      BY <1>7 DEF RentPoll, RentSave
    <3> QED
      BY <1>0, <2>1, <3>1, Goes DEF RentPlaces
  <2>3. /\ \A d \in Caller \ {c} : row'[d] = row[d]
        /\ row'[c] = "completed" => at[c] = "saveDone" \/ row[c] = "completed"
    BY <1>0, <1>7 DEF RentPoll, RentSave, Types, TypeOK
  <2>4. row'[c] = "pending" => at'[c] = "returned"
    <3>1. row[c] # "pending"
      BY <2>1 DEF Inv, Rows
    <3>2. CASE row' = row
      BY <3>1, <3>2
    <3>3. CASE row' = [row EXCEPT ![c] = IF @ = "completed" THEN @ ELSE "completed"]
      BY <1>0, <3>1, <3>3 DEF Types, TypeOK
    <3>4. CASE Goto(c, "returned")
      BY <1>0, <2>1, <3>4, Goes DEF RentPlaces
    <3> QED
      BY <1>7, <3>2, <3>3, <3>4 DEF RentPoll, RentSave
  <2>5. at'[c] = "saveDone" => \E t \in applied' : t.by = c
    <3>1. CASE Goto(c, "saveDone") /\ Tx(c, tx[c]) \in applied
      BY <2>1, <3>1 DEF Tx
    <3>2. CASE \E l \in {"savePending", "saveFailed", "returned"} : Goto(c, l)
      BY <1>0, <2>1, <3>2, Goes DEF RentPlaces
    <3> QED
      BY <1>7, <3>1, <3>2 DEF RentPoll, RentSave
  <2>6. Numbers'
    BY <1>0, <2>1, AttemptNumbers DEF Attempt
  <2>7. Apart(c) /\ \A d \in Caller : Sent(d)' => Sent(d)
    BY <2>1, <2>2, <2>3 DEF Apart, Sent
  <2>8. row'[c] = "completed" => \E t \in applied' : t.by = c
    BY <2>1, <2>3 DEF Inv, Rows
  <2>9. Unsent' /\ Rows' /\ OneHolder'
    BY <1>0, <2>1, <2>2, <2>4, <2>5, <2>7, <2>8, Stays
  <2> QED
    BY <1>0, <2>6, <2>9 DEF Inv
<1>8. ASSUME NEW c \in Caller, Crash(c)
      PROVE  Inv'
  <2>1. UNCHANGED <<seq, applied, waiting, tx, row>>
    BY <1>8 DEF Crash
  <2>2. at'[c] = "returned" /\ \A d \in Caller \ {c} : at'[d] = at[d]
    BY <1>0, <1>8, Goes DEF Crash, CallPlaces, RentPlaces
  <2>3. Numbers'
    BY <1>0, <2>1, AttemptNumbers DEF Attempt
  <2>4. Apart(c) /\ \A d \in Caller : Sent(d)' => Sent(d)
    BY <2>1, <2>2 DEF Apart, Sent
  <2>5. row'[c] = "completed" => \E t \in applied' : t.by = c
    BY <2>1 DEF Inv, Rows
  <2>6. Holds(c)' => Holds(c)
    BY <2>1, <2>2 DEF Holds, Inserted
  <2>7. Unsent' /\ Rows' /\ OneHolder'
    BY <1>0, <2>1, <2>2, <2>4, <2>5, <2>6, Stays
  <2> QED
    BY <1>0, <2>3, <2>7 DEF Inv
<1>9. ASSUME NEW t \in waiting, Apply(t)
      PROVE  Inv'
  <2>1. /\ UNCHANGED <<at, tx, row>> /\ applied \subseteq applied'
        /\ applied' \cup waiting' \subseteq applied \cup waiting
    BY <1>9 DEF Apply, Take
  <2>2. Numbers'
    <3>1. CASE Take(t)
      BY <1>0, <2>1, <3>1 DEF Take, Numbers, Own, Tx, Types, TypeOK
    <3>2. CASE waiting' = waiting \ {t} /\ UNCHANGED <<seq, applied>>
      BY <1>0, <2>1, <3>2 DEF Numbers, Own
    <3> QED
      BY <1>9, <3>1, <3>2 DEF Apply
  <2>3. Unsent' /\ Rows' /\ OneHolder'
    BY <2>1 DEF Inv, Unsent, Sent, Rows, OneHolder, Holds, Inserted
  <2> QED
    BY <1>0, <2>2, <2>3 DEF Inv
<1>10. CASE UNCHANGED vars
  <2>1. Numbers' /\ Unsent' /\ Rows' /\ OneHolder'
    BY <1>10 DEF vars, Inv, Numbers, Own, Unsent, Sent, Rows, OneHolder, Holds, Inserted
  <2> QED
    BY <1>0, <2>1 DEF Inv
<1> QED
  BY <1>1, <1>2, <1>3, <1>4, <1>5, <1>6, <1>7, <1>8, <1>9, <1>10 DEF Next

-----------------------------------------------------------------------------
(* Rows that went astray.                                                  *)

\* What the ledger has of c, or may yet take up, is not on the books.
Astray(c) ==
  /\ Sent(c)
  /\ \/ c \in Call /\ at[c] = "returned" /\ row[c] = "none"
     \/ /\ c \in Rent /\ at[c] \in {"send", "saveFailed", "returned"}
        /\ row[c] \notin {"completed", "pending"}

AstrayCalls == {c \in Caller : Astray(c)}

FewAstray == IsFiniteSet(AstrayCalls) /\ Cardinality(AstrayCalls) <= faults

\* A step of another call leaves a call where it is.
LEMMA StaysAstray ==
  ASSUME NEW c \in Caller, Apart(c), \A d \in Caller \ {c} : Sent(d)' => Sent(d)
  PROVE  AstrayCalls' \subseteq AstrayCalls \cup {c}
BY DEF AstrayCalls, Astray, Apart

\* A row goes astray by a fault, and one fault leads one row astray.
LEMMA OnlyFaults ==
  ASSUME Inv, [Next]_vars
  PROVE  \/ AstrayCalls' \subseteq AstrayCalls /\ faults' >= faults
         \/ \E c \in Caller :
              AstrayCalls' \subseteq AstrayCalls \cup {c} /\ faults' = faults + 1
<1>0. Types /\ Numbers /\ faults \in Nat
  BY DEF Inv, Types, TypeOK
<1>1. ASSUME NEW c \in Caller, Apart(c), \A d \in Caller \ {c} : Sent(d)' => Sent(d),
             Fault \/ NoFault, NoFault => (Astray(c)' => Astray(c))
      PROVE  \/ AstrayCalls' \subseteq AstrayCalls /\ faults' >= faults
             \/ \E d \in Caller :
                  AstrayCalls' \subseteq AstrayCalls \cup {d} /\ faults' = faults + 1
  <2>1. CASE Fault
    BY <1>1, <2>1, StaysAstray DEF Fault
  <2>2. CASE NoFault
    BY <1>0, <1>1, <2>2, StaysAstray DEF NoFault, AstrayCalls
  <2> QED
    BY <1>1, <2>1, <2>2
<1>2. ASSUME NEW c \in Caller, Lookup(c) \/ Build(c) \/ Insert(c) \/ RentBuild(c)
      PROVE  /\ Apart(c) /\ NoFault /\ \A d \in Caller : Sent(d)' => Sent(d)
             /\ ~Astray(c)'
  <2>1. /\ UNCHANGED <<seq, applied, waiting, row, faults>>
        /\ at[c] \in {"new", "build", "insert"}
    BY <1>2 DEF Lookup, Build, Insert, RentBuild
  <2>2. \A d \in Caller : Sent(d)' => Sent(d)
    BY <2>1 DEF Sent
  <2>3. ~Sent(c)
    BY <2>1, Quiet
  <2>4. Apart(c)
    BY <1>0, <1>2 DEF Lookup, Build, Insert, RentBuild, Apart, Goto, Types, TypeOK
  <2> QED
    BY <2>1, <2>2, <2>3, <2>4 DEF Astray, NoFault
<1>3. ASSUME NEW c \in Caller, Submit(c)
      PROVE  /\ Apart(c) /\ NoFault /\ \A d \in Caller \ {c} : Sent(d)' => Sent(d)
             /\ ~Astray(c)'
  BY <1>3, SubmitStep DEF Submit, NoFault, Astray
<1>4. ASSUME NEW c \in Caller, Commit(c)
      PROVE  /\ Apart(c) /\ (Fault \/ NoFault)
             /\ \A d \in Caller \ {c} : Sent(d)' => Sent(d)
             /\ NoFault => (Astray(c)' => Astray(c))
  <2>1. /\ c \in Call /\ UNCHANGED <<seq, applied, waiting, tx>>
        /\ \A d \in Caller \ {c} : row'[d] = row[d] /\ at'[d] = at[d]
    BY <1>0, <1>4 DEF Commit, Goto, Types, TypeOK
  <2>2. Fault \/ (NoFault /\ row'[c] # "none")
    BY <1>0, <1>4 DEF Commit, Types, TypeOK
  <2>3. ~(Fault /\ NoFault)
    BY <1>0 DEF Fault, NoFault
  <2>4. NoFault => ~Astray(c)'
    BY <2>1, <2>2, <2>3 DEF Astray
  <2> QED
    BY <2>1, <2>2, <2>4 DEF Apart, Sent
<1>5. ASSUME NEW c \in Caller, RentSend(c)
      PROVE  /\ Apart(c) /\ (Fault \/ NoFault)
             /\ \A d \in Caller \ {c} : Sent(d)' => Sent(d)
             /\ NoFault => (Astray(c)' => Astray(c))
  <2>1. c \in Rent /\ c \notin Call /\ UNCHANGED <<tx, row>> /\ Attempt(c) /\ at[c] = "send"
    BY <1>5 DEF RentSend, Attempt, Own
  <2>2. Goto(c, "poll") \/ Goto(c, "saveFailed") \/ UNCHANGED at
    BY <1>5 DEF RentSend, Retry
  <2>3. Apart(c) /\ \A d \in Caller \ {c} : Sent(d)' => Sent(d)
    BY <1>0, <2>1, <2>2, AttemptNumbers DEF Apart, Goto, Types
  <2>4. \/ Fault
        \/ NoFault /\ Goto(c, "poll")
        \/ NoFault /\ UNCHANGED <<applied, waiting>>
    BY <1>5 DEF RentSend
  <2>5. ~(Fault /\ NoFault)
    BY <1>0 DEF Fault, NoFault
  <2>6. CASE Goto(c, "poll")
    BY <1>0, <2>1, <2>3, <2>4, <2>6 DEF Astray, Goto, Types
  <2>7. CASE UNCHANGED <<applied, waiting>>
    BY <2>1, <2>3, <2>4, <2>7 DEF Astray, Sent
  <2> QED
    BY <2>3, <2>4, <2>5, <2>6, <2>7
<1>6. ASSUME NEW c \in Caller, RentPoll(c)
      PROVE  /\ Apart(c) /\ (Fault \/ NoFault)
             /\ \A d \in Caller \ {c} : Sent(d)' => Sent(d)
             /\ NoFault => (Astray(c)' => Astray(c))
  <2>1. c \in Rent /\ c \notin Call /\ UNCHANGED <<applied, waiting, tx, row>>
    BY <1>6 DEF RentPoll
  <2>2. Apart(c) /\ \A d \in Caller : Sent(d)' => Sent(d)
    BY <1>0, <1>6 DEF RentPoll, Apart, Goto, Sent, Types
  <2>3. \/ NoFault /\ (Goto(c, "saveDone") \/ Goto(c, "savePending"))
        \/ NoFault /\ Tx(c, tx[c]) \notin applied \cup waiting
        \/ Fault
    BY <1>6 DEF RentPoll
  <2>4. ~(Fault /\ NoFault)
    BY <1>0 DEF Fault, NoFault
  <2>5. CASE Goto(c, "saveDone") \/ Goto(c, "savePending")
    <3>1. at'[c] \in {"saveDone", "savePending"}
      BY <1>0, <2>5 DEF Goto, Types
    <3> QED
      BY <2>1, <2>2, <2>3, <3>1 DEF Astray
  <2>6. CASE Tx(c, tx[c]) \notin applied \cup waiting
    <3>1. ~Sent(c)
      BY <1>0, <2>1, <2>6 DEF Numbers, Sent, Own
    <3> QED
      BY <2>2, <2>3, <3>1 DEF Astray
  <2> QED
    BY <2>2, <2>3, <2>4, <2>5, <2>6
<1>7. ASSUME NEW c \in Caller, RentSave(c)
      PROVE  /\ Apart(c) /\ (Fault \/ NoFault)
             /\ \A d \in Caller \ {c} : Sent(d)' => Sent(d)
             /\ NoFault => (Astray(c)' => Astray(c))
  <2>1. c \in Rent /\ c \notin Call /\ UNCHANGED <<applied, waiting, tx>>
    BY <1>7 DEF RentSave
  <2>2. Apart(c) /\ \A d \in Caller : Sent(d)' => Sent(d)
    BY <1>0, <1>7 DEF RentSave, Apart, Goto, Sent, Types, TypeOK
  <2>3. \/ NoFault /\ row'[c] \in {"completed", "pending"}
        \/ /\ NoFault /\ at[c] = "saveFailed"
           /\ row'[c] = (IF row[c] = "completed" THEN row[c] ELSE "failed")
        \/ Fault
    BY <1>0, <1>7 DEF RentSave, Types, TypeOK
  <2>4. ~(Fault /\ NoFault)
    BY <1>0 DEF Fault, NoFault
  <2>5. row[c] # "pending" \/ at[c] = "returned"
    BY <2>1 DEF Inv, Rows
  <2>6. CASE NoFault /\ row'[c] \in {"completed", "pending"}
    BY <2>1, <2>2, <2>6 DEF Astray
  <2>7. CASE /\ NoFault /\ at[c] = "saveFailed"
             /\ row'[c] = (IF row[c] = "completed" THEN row[c] ELSE "failed")
    BY <2>1, <2>2, <2>5, <2>7 DEF Astray
  <2> QED
    BY <2>2, <2>3, <2>4, <2>6, <2>7
<1>8. ASSUME NEW c \in Caller, Crash(c)
      PROVE  /\ Apart(c) /\ Fault /\ \A d \in Caller : Sent(d)' => Sent(d)
             /\ NoFault => (Astray(c)' => Astray(c))
  BY <1>0, <1>8 DEF Crash, Apart, Goto, Sent, Types, Fault, NoFault
<1>9. ASSUME NEW t \in waiting, Apply(t)
      PROVE  AstrayCalls' \subseteq AstrayCalls /\ faults' >= faults
  <2>1. UNCHANGED <<at, row, faults>> /\ \A d \in Caller : Sent(d)' => Sent(d)
    BY <1>9 DEF Apply, Take, Sent
  <2> QED
    BY <1>0, <2>1 DEF AstrayCalls, Astray
<1>10. CASE UNCHANGED vars
  BY <1>0, <1>10 DEF vars, AstrayCalls, Astray, Sent
<1>11. ASSUME NEW c \in Caller,
              \/ Lookup(c) \/ Build(c) \/ Insert(c) \/ Submit(c) \/ Commit(c)
              \/ RentBuild(c) \/ RentSend(c) \/ RentPoll(c) \/ RentSave(c) \/ Crash(c)
       PROVE  /\ Apart(c) /\ (Fault \/ NoFault)
              /\ \A d \in Caller \ {c} : Sent(d)' => Sent(d)
              /\ NoFault => (Astray(c)' => Astray(c))
  <2>1. CASE Lookup(c) \/ Build(c) \/ Insert(c) \/ RentBuild(c)
    BY <1>2, <2>1
  <2>2. CASE Submit(c) \/ Commit(c)
    BY <1>3, <1>4, <2>2
  <2>3. CASE RentSend(c) \/ RentPoll(c)
    BY <1>5, <1>6, <2>3
  <2>4. CASE RentSave(c) \/ Crash(c)
    BY <1>7, <1>8, <2>4
  <2> QED
    BY <1>11, <2>1, <2>2, <2>3, <2>4
<1>12. CASE \E c \in Caller :
              \/ Lookup(c) \/ Build(c) \/ Insert(c) \/ Submit(c) \/ Commit(c)
              \/ RentBuild(c) \/ RentSend(c) \/ RentPoll(c) \/ RentSave(c) \/ Crash(c)
  <2>1. PICK c \in Caller :
               \/ Lookup(c) \/ Build(c) \/ Insert(c) \/ Submit(c) \/ Commit(c)
               \/ RentBuild(c) \/ RentSend(c) \/ RentPoll(c) \/ RentSave(c) \/ Crash(c)
    BY <1>12
  <2>2. /\ Apart(c) /\ (Fault \/ NoFault)
        /\ \A d \in Caller \ {c} : Sent(d)' => Sent(d)
        /\ NoFault => (Astray(c)' => Astray(c))
    BY <1>11, <2>1
  <2> QED
    BY <1>1, <2>2
<1> QED
  BY <1>9, <1>10, <1>12 DEF Next

\* The number of rows astray is bounded by the faults.
LEMMA FewStep ==
  ASSUME Inv, FewAstray, [Next]_vars
  PROVE  FewAstray'
<1>1. faults \in Nat /\ faults' \in Nat
  BY TypeStep DEF Inv, Types, TypeOK
<1>2. CASE AstrayCalls' \subseteq AstrayCalls /\ faults' >= faults
  <2>1. IsFiniteSet(AstrayCalls') /\ Cardinality(AstrayCalls') <= Cardinality(AstrayCalls)
        /\ Cardinality(AstrayCalls) \in Nat /\ Cardinality(AstrayCalls') \in Nat
    BY <1>2, FS_Subset, FS_CardinalityType DEF FewAstray
  <2> QED
    BY <1>1, <1>2, <2>1 DEF FewAstray
<1>3. ASSUME NEW c \in Caller, AstrayCalls' \subseteq AstrayCalls \cup {c},
             faults' = faults + 1
      PROVE  FewAstray'
  <2>0. IsFiniteSet(AstrayCalls) /\ Cardinality(AstrayCalls) \in Nat
    BY FS_CardinalityType DEF FewAstray
  <2>1. IsFiniteSet(AstrayCalls \cup {c})
        /\ Cardinality(AstrayCalls \cup {c}) <= Cardinality(AstrayCalls) + 1
        /\ Cardinality(AstrayCalls \cup {c}) \in Nat
    <3>1. /\ IsFiniteSet(AstrayCalls \cup {c})
          /\ Cardinality(AstrayCalls \cup {c}) =
               IF c \in AstrayCalls THEN Cardinality(AstrayCalls) ELSE Cardinality(AstrayCalls) + 1
      BY <2>0, FS_AddElement, Zenon
    <3> QED
      BY <2>0, <3>1
  <2>2. IsFiniteSet(AstrayCalls')
        /\ Cardinality(AstrayCalls') <= Cardinality(AstrayCalls \cup {c})
        /\ Cardinality(AstrayCalls') \in Nat
    BY <1>3, <2>1, FS_Subset, FS_CardinalityType
  <2> QED
    BY <1>1, <1>3, <2>0, <2>1, <2>2 DEF FewAstray
<1> QED
  BY <1>2, <1>3, OnlyFaults

\* No row is astray at first.
LEMMA FewInit == Init => FewAstray
<1> SUFFICES ASSUME Init
             PROVE  FewAstray
  OBVIOUS
<1>1. AstrayCalls = {}
  BY DEF Init, AstrayCalls, Astray, Sent
<1> QED
  BY <1>1, FS_EmptySet DEF Init, FewAstray

\* The invariant and the bound hold in every behaviour.
LEMMA Always == Spec => [](Inv /\ FewAstray)
<1>1. Init => Inv /\ FewAstray
  BY InvInit, FewInit
<1>2. Inv /\ FewAstray /\ [Next]_vars => Inv' /\ FewAstray'
  BY InvStep, FewStep
<1> QED
  BY <1>1, <1>2, PTL DEF Spec

-----------------------------------------------------------------------------
(* What a call pays is the transaction it has built last.                  *)

\* The transactions that were applied, of some callers.
LEMMA PaidIsOwn ==
  ASSUME Inv, NEW S \in SUBSET Caller
  PROVE  /\ Paid(S) \subseteq {Own(c) : c \in S}
         /\ \A t \in Paid(S) : t = Own(t.by) /\ Sent(t.by)
BY DEF Inv, Numbers, Paid, Sent

\* The bounds follow from the invariant.
LEMMA OnceHolds == Inv => OncePerCall
<1> SUFFICES ASSUME Inv, NEW c \in Caller
             PROVE  Cardinality(Paid({c})) <= 1
  BY DEF OncePerCall
<1>1. Paid({c}) \subseteq {Own(c)}
  BY PaidIsOwn
<1>2. IsFiniteSet({Own(c)}) /\ Cardinality({Own(c)}) = 1
  BY FS_Singleton
<1>3. Cardinality(Paid({c})) <= Cardinality({Own(c)}) /\ Cardinality(Paid({c})) \in Nat
  BY <1>1, <1>2, FS_Subset, FS_CardinalityType
<1> QED
  BY <1>2, <1>3

\* The rent whose row is not on the books is among the calls astray.
LEMMA RowsHold == Inv /\ FewAstray => RowsFollowLedger
<1> SUFFICES ASSUME Inv, FewAstray
             PROVE  RowsFollowLedger
  OBVIOUS
<1>1. CompletedIsPaid
  BY DEF Inv, Rows, CompletedIsPaid, Paid
<1> DEFINE Lost == {c \in Rent : /\ at[c] = "returned"
                                 /\ \E t \in applied \cup waiting : t.by = c
                                 /\ row[c] \notin {"completed", "pending"}}
<1>2. Lost \subseteq AstrayCalls
  BY DEF AstrayCalls, Astray, Sent
<1>3. /\ Cardinality(Lost) <= Cardinality(AstrayCalls)
      /\ Cardinality(Lost) \in Nat /\ Cardinality(AstrayCalls) \in Nat
  BY <1>2, FS_Subset, FS_CardinalityType DEF FewAstray
<1>4. faults \in Nat
  BY DEF Inv, Types, TypeOK
<1>5. Cardinality(Lost) <= faults
  BY <1>3, <1>4 DEF FewAstray
<1> QED
  BY <1>1, <1>5 DEF RowsFollowLedger, RentIsKept

\* Of the calls of a key that paid, one may have the row; the others are astray.
LEMMA KeyHolds == Inv /\ FewAstray => OncePerKey
<1> SUFFICES ASSUME Inv, FewAstray, NEW c \in Call, KeyOf[c] # NoKey
             PROVE  Cardinality(Paid({d \in Call : Same(c, d)})) <= 1 + faults
  BY DEF OncePerKey
<1> DEFINE Group == {d \in Call : Same(c, d)}
           Lost == {Own(d) : d \in AstrayCalls}
<1>0. Types /\ faults \in Nat
  BY DEF Inv, Types, TypeOK
<1>1. ASSUME NEW d \in Call, Sent(d)
      PROVE  Holds(d) \/ Astray(d)
  <2>1. at[d] \in {"submit", "commitDone", "commitFailed", "returned"}
    BY <1>0, <1>1, Quiet DEF Types, CallPlaces
  <2> QED
    BY <1>1, <2>1 DEF Holds, Inserted, Astray
<1>2. IsFiniteSet(Lost) /\ Cardinality(Lost) <= Cardinality(AstrayCalls)
  <2> DEFINE f == [d \in AstrayCalls |-> Own(d)]
  <2>1. f \in Surjection(AstrayCalls, Lost)
    BY DEF Surjection
  <2> QED
    BY <2>1, FS_Surjection DEF FewAstray
<1>3. \E x : Paid(Group) \subseteq Lost \cup {x}
  <2>1. \A t \in Paid(Group) : t = Own(t.by) /\ t.by \in Group /\ Sent(t.by)
    BY PaidIsOwn DEF Paid
  <2>2. CASE \E h \in Group : Holds(h)
    <3>1. PICK h \in Group : Holds(h)
      BY <2>2
    <3>2. \A d \in Group : Holds(d) => d = h
      BY <3>1 DEF Inv, OneHolder, Same
    <3>3. Paid(Group) \subseteq Lost \cup {Own(h)}
      BY <1>1, <2>1, <3>2 DEF AstrayCalls
    <3> QED
      BY <3>3
  <2>3. CASE \A h \in Group : ~Holds(h)
    BY <1>1, <2>1, <2>3 DEF AstrayCalls
  <2> QED
    BY <2>2, <2>3
<1>4. PICK x : Paid(Group) \subseteq Lost \cup {x}
  BY <1>3
<1>5. /\ IsFiniteSet(Lost \cup {x}) /\ Cardinality(Lost) \in Nat
      /\ Cardinality(Lost \cup {x}) <= Cardinality(Lost) + 1
      /\ Cardinality(Lost \cup {x}) \in Nat
  BY <1>2, FS_AddElement, FS_CardinalityType
<1>6. /\ Cardinality(Paid(Group)) <= Cardinality(Lost \cup {x})
      /\ Cardinality(Paid(Group)) \in Nat /\ Cardinality(AstrayCalls) \in Nat
  BY <1>4, <1>5, FS_Subset, FS_CardinalityType DEF FewAstray
<1>7. Cardinality(Paid(Group)) <= 1 + faults
  BY <1>0, <1>2, <1>5, <1>6 DEF FewAstray
<1> QED
  BY <1>7

-----------------------------------------------------------------------------
(* The theorems.                                                           *)

\* However often sendPayment submits, rebuilds or gives up, the ledger applies at
\* most one transaction of the call.
THEOREM OncePerCallAlways == Spec => []OncePerCall
<1>1. Inv /\ FewAstray => OncePerCall
  BY OnceHolds
<1> QED
  BY <1>1, Always, PTL

\* A COMPLETED row was paid, and rent that was paid or may yet be has a COMPLETED
\* or a PENDING row when its call is over, but for one row a fault.
THEOREM RowsFollowLedgerAlways == Spec => []RowsFollowLedger
<1>1. Inv /\ FewAstray => RowsFollowLedger
  BY RowsHold
<1> QED
  BY <1>1, Always, PTL

\* The calls with one idempotency key pay once between them, but for the rows
\* that a fault lost.
THEOREM OncePerKeyAlways == Spec => []OncePerKey
<1>1. Inv /\ FewAstray => OncePerKey
  BY KeyHolds
<1> QED
  BY <1>1, Always, PTL

=============================================================================
