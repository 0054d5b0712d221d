----------------------------- MODULE StellarEscrow -----------------------------
(***************************************************************************)
(* Escrow deposits held in Stellar accounts of the backend's own making:   *)
(* StellarService (createAccount, createEscrow, releaseEscrow,             *)
(* refundEscrow) and the flows of PaymentService that drive it and keep a  *)
(* payment row beside each escrow.                                         *)
(*                                                                         *)
(* The ledger, the database and the requests are apart: a transaction may  *)
(* be applied and its reply lost, a commit may fail after it was applied,  *)
(* a server may die between any two steps.  The rows of an escrow are      *)
(* written in a database transaction that locks nothing it reads, so that  *)
(* a release and a refund, whose @Locked keys differ, may both run.  The   *)
(* ledger accepts one spending transaction of an escrow account, which     *)
(* pays its balance and merges it.  The timelock of a release is taken to  *)
(* have passed.  processExpiredEscrows, which nothing calls, is left out.  *)
(***************************************************************************)
EXTENDS Integers, FiniteSets

CONSTANTS
  Request,        \* the requests in flight
  Escrow,         \* the escrows that may be created
  MaxMishaps,     \* bound: lost replies, failed commits, crashes
  MaxRequests     \* bound: requests in a behaviour

VARIABLES
  keyStored,      \* the escrow account, with its secret, is in stellar_accounts
  ledger,         \* the escrow account on the ledger: where its funds are
  status,         \* the row in stellar_escrows
  pay,            \* the payment row that refers to the escrow
  linked,         \* its referenceNumber is still "escrow:<id>"
  req,            \* where each request is
  mishaps, started

\* The bounds are numbers.
ASSUME StellarEscrowAssumption == {MaxMishaps, MaxRequests} \subseteq Nat

escrowVars == <<keyStored, ledger, status, pay, linked, req, mishaps, started>>

Idle == [at |-> "idle", op |-> "none", escrow |-> "none", seen |-> "none"]
Payment == {"none", "pending", "completed", "failed", "refunded"}
Status == {"none", "ACTIVE", "RELEASED", "REFUNDED"}

At(q, l) == req[q].at = l
Proceed(q, l) == req' = [req EXCEPT ![q].at = l]
End(q) == req' = [req EXCEPT ![q] = Idle]
Start(q, l, o, e, s) ==
  /\ At(q, "idle")
  /\ started < MaxRequests /\ started' = started + 1
  /\ req' = [req EXCEPT ![q] = [at |-> l, op |-> o, escrow |-> e, seen |-> s]]

Mishap == mishaps < MaxMishaps /\ mishaps' = mishaps + 1
NoMishap == UNCHANGED mishaps
Set(f, e, v) == [f EXCEPT ![e] = v]

-----------------------------------------------------------------------------
EscrowInit ==
  /\ keyStored = [e \in Escrow |-> FALSE]
  /\ ledger = [e \in Escrow |-> "none"]
  /\ status = [e \in Escrow |-> "none"]
  /\ pay = [e \in Escrow |-> "none"]
  /\ linked = [e \in Escrow |-> FALSE]
  /\ req = [q \in Request |-> Idle]
  /\ mishaps = 0
  /\ started = 0

\* createEscrowDeposit.  An escrow is drawn anew: none is created twice.
BeginDeposit(q, e) ==
  /\ ~keyStored[e] /\ \A r \in Request : req[r].escrow # e
  /\ Start(q, "account", "create", e, "none")
  /\ UNCHANGED <<keyStored, ledger, status, pay, linked, mishaps>>

\* Mutant: the account is saved with the escrow, in its transaction.
LateAccount(q) ==
  /\ At(q, "account")
  /\ Proceed(q, "fund") /\ NoMishap
  /\ UNCHANGED <<keyStored, ledger, status, pay, linked, started>>

\* createAccount, outside the transaction: a key pair, encrypted and saved.
CreateAccount(q) ==
  /\ At(q, "account")
  /\ \/ /\ keyStored' = Set(keyStored, req[q].escrow, TRUE)
        /\ Proceed(q, "fund") /\ NoMishap
     \/ Proceed(q, "failDeposit") /\ NoMishap /\ UNCHANGED keyStored
  /\ UNCHANGED <<ledger, status, pay, linked, started>>

\* The transaction that creates and funds the account on the ledger.
Fund(q) ==
  LET funded == ledger' = Set(ledger, req[q].escrow, "funded")
  IN  /\ At(q, "fund")
      /\ \/ funded /\ Proceed(q, "record") /\ NoMishap
         \/ Proceed(q, "failDeposit") /\ NoMishap /\ UNCHANGED ledger
         \/ funded /\ Proceed(q, "failDeposit") /\ Mishap
      /\ UNCHANGED <<keyStored, status, pay, linked, started>>

\* The rows of the escrow are committed and read again; either may fail.
RecordEscrow(q) ==
  LET active == status' = Set(status, req[q].escrow, "ACTIVE")
  IN  /\ At(q, "record")
      /\ \/ active /\ Proceed(q, "pay") /\ NoMishap
         \/ active /\ Proceed(q, "failDeposit") /\ Mishap
         \/ Mishap /\ Proceed(q, "failDeposit") /\ UNCHANGED status
      /\ UNCHANGED <<keyStored, ledger, pay, linked, started>>

\* The PENDING payment that refers to the escrow, and the notification.
SaveDeposit(q) ==
  LET e == req[q].escrow
      saved == pay' = Set(pay, e, "pending") /\ linked' = Set(linked, e, TRUE)
  IN  /\ At(q, "pay")
      /\ \/ saved /\ End(q) /\ NoMishap
         \/ saved /\ Proceed(q, "failDeposit") /\ Mishap
         \/ Mishap /\ Proceed(q, "failDeposit") /\ UNCHANGED <<pay, linked>>
      /\ UNCHANGED <<keyStored, ledger, status, started>>

\* The catch clause leaves a FAILED payment that refers to nothing.
FailDeposit(q) ==
  /\ At(q, "failDeposit")
  /\ End(q)
  /\ UNCHANGED <<keyStored, ledger, status, pay, linked, mishaps, started>>

-----------------------------------------------------------------------------
\* releaseEscrowDeposit and refundEscrowDeposit: the row must be ACTIVE.
BeginRelease(q, e) ==
  /\ status[e] = "ACTIVE"
  /\ Start(q, "load", "RELEASED", e, "none")
  /\ UNCHANGED <<keyStored, ledger, status, pay, linked, mishaps>>

BeginRefund(q, e) ==
  /\ status[e] = "ACTIVE"
  /\ Start(q, "load", "REFUNDED", e, "none")
  /\ UNCHANGED <<keyStored, ledger, status, pay, linked, mishaps>>

Receiver(op) == IF op = "RELEASED" THEN "destination" ELSE "source"

\* loadAccount: an account that was merged is not found.
LoadAccount(q) ==
  /\ At(q, "load")
  /\ IF ledger[req[q].escrow] = "funded" THEN Proceed(q, "submit") ELSE End(q)
  /\ UNCHANGED <<keyStored, ledger, status, pay, linked, mishaps, started>>

\* Mutant: an error of the submission is taken for a late reply.
HopefulSubmit(q) ==
  LET e == req[q].escrow
  IN  /\ At(q, "submit")
      /\ ledger' = IF ledger[e] = "funded"
                     THEN Set(ledger, e, Receiver(req[q].op)) ELSE ledger
      /\ Proceed(q, "commit") /\ NoMishap
      /\ UNCHANGED <<keyStored, status, pay, linked, started>>

\* Pay the balance and merge.  The account may be gone since it was loaded.
SubmitSettlement(q) ==
  LET e == req[q].escrow
      paid == ledger[e] = "funded" /\ ledger' = Set(ledger, e, Receiver(req[q].op))
  IN  /\ At(q, "submit")
      /\ \/ paid /\ Proceed(q, "commit") /\ NoMishap
         \/ End(q) /\ NoMishap /\ UNCHANGED ledger
         \/ paid /\ End(q) /\ Mishap
      /\ UNCHANGED <<keyStored, status, pay, linked, started>>

\* The row follows, or the transaction is rolled back; then it is read again.
CommitSettlement(q) ==
  LET settled == status' = Set(status, req[q].escrow, req[q].op)
  IN  /\ At(q, "commit")
      /\ \/ settled /\ NoMishap
            /\ req' = [req EXCEPT ![q].at = "sync", ![q].seen = req[q].op]
         \/ settled /\ End(q) /\ Mishap
         \/ Mishap /\ End(q) /\ UNCHANGED status
      /\ UNCHANGED <<keyStored, ledger, pay, linked, started>>

\* reconcileStellarPayments, at a payment of this flow.
Reconcile(q, e) ==
  /\ pay[e] # "none" /\ linked[e]
  /\ Start(q, "sync", "reconcile", e, status[e])
  /\ UNCHANGED <<keyStored, ledger, status, pay, linked, mishaps>>

\* The keys of the map are in lower case and the statuses of an escrow in upper
\* case: each of them falls through to PENDING.
PaymentOf(s) ==
  CASE s = "active" -> "pending"
    [] s = "released" -> "completed"
    [] s = "refunded" -> "refunded"
    [] s \in {"failed", "expired"} -> "failed"
    [] OTHER -> "pending"

\* syncEscrowPaymentFromState, with the status that was read before.
Sync(q) ==
  LET e == req[q].escrow
  IN  /\ At(q, "sync")
      /\ pay' = IF pay[e] # "none" /\ linked[e]
                  THEN Set(pay, e, PaymentOf(req[q].seen)) ELSE pay
      /\ End(q)
      /\ UNCHANGED <<keyStored, ledger, status, linked, mishaps, started>>

\* A gateway webhook about this payment; one with a transaction hash puts it in
\* the place of the reference.
Webhook(e, s, hash) ==
  /\ pay[e] # "none"
  /\ started < MaxRequests /\ started' = started + 1
  /\ pay' = Set(pay, e, s)
  /\ linked' = Set(linked, e, linked[e] /\ ~hash)
  /\ UNCHANGED <<keyStored, ledger, status, req, mishaps>>

CrashRequest(q) ==
  /\ ~At(q, "idle")
  /\ Mishap
  /\ End(q)
  /\ UNCHANGED <<keyStored, ledger, status, pay, linked, started>>

EscrowNext ==
  \/ \E q \in Request :
       \/ \E e \in Escrow :
            BeginDeposit(q, e) \/ BeginRelease(q, e) \/ BeginRefund(q, e) \/ Reconcile(q, e)
       \/ CreateAccount(q) \/ Fund(q) \/ RecordEscrow(q) \/ SaveDeposit(q) \/ FailDeposit(q)
       \/ LoadAccount(q) \/ SubmitSettlement(q) \/ CommitSettlement(q) \/ Sync(q)
       \/ CrashRequest(q)
  \/ \E e \in Escrow, s \in Payment \ {"none"}, hash \in BOOLEAN :
       Webhook(e, s, hash)

EscrowSpec == EscrowInit /\ [][EscrowNext]_escrowVars

-----------------------------------------------------------------------------
EscrowTypeOK ==
  /\ keyStored \in [Escrow -> BOOLEAN]
  /\ ledger \in [Escrow -> {"none", "funded", "destination", "source"}]
  /\ status \in [Escrow -> Status]
  /\ pay \in [Escrow -> Payment]
  /\ linked \in [Escrow -> BOOLEAN]
  /\ \A q \in Request : req[q].escrow \in Escrow \cup {"none"} /\ req[q].seen \in Status
  /\ mishaps \in 0..MaxMishaps /\ started \in 0..MaxRequests

\* Funds never sit in an account whose secret key is lost: whatever fails after
\* the funding was submitted, the key survives the rollback.
KeyOfFunds == \A e \in Escrow : ledger[e] = "funded" => keyStored[e]

\* What the escrow row says was paid, was paid, to the one it says: also when a
\* release and a refund run at once and both found the escrow ACTIVE.
RowIsTrue ==
  \A e \in Escrow :
    /\ status[e] = "ACTIVE" => ledger[e] # "none"
    /\ status[e] \in {"RELEASED", "REFUNDED"} => ledger[e] = Receiver(status[e])

\* Funds that moved are on the books, or a request is about to book them: each
\* escrow whose row lags behind the ledger cost a fault.
Booked(e) ==
  CASE ledger[e] = "none" -> status[e] = "none"
    [] ledger[e] = "funded" ->
         status[e] = "ACTIVE" \/ \E q \in Request : At(q, "record") /\ req[q].escrow = e
    [] OTHER ->
         \/ Receiver(status[e]) = ledger[e] /\ status[e] \in {"RELEASED", "REFUNDED"}
         \/ \E q \in Request : At(q, "commit") /\ req[q].escrow = e

DriftIsFault == Cardinality({e \in Escrow : ~Booked(e)}) <= mishaps

\* The books follow the ledger, and where they fell behind something failed.
BooksFollowLedger == RowIsTrue /\ DriftIsFault
=============================================================================
