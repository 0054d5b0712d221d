---------------------------- MODULE StellarPayment ----------------------------
(***************************************************************************)
(* Payments on the Stellar ledger from one account: sendPayment of         *)
(* StellarService, with its resubmission loop, and the rent payments of    *)
(* PaymentProcessingService with the rows PaymentService keeps of them.    *)
(*                                                                         *)
(* The ledger is external.  It applies a transaction once, and only if its *)
(* sequence number is the next one of the account; a transaction it was    *)
(* sent may be applied, or wait and be applied or dropped later, after the *)
(* sender has given up on the reply.  Sending a transaction that was       *)
(* applied answers with its result.                                        *)
(***************************************************************************)
EXTENDS Integers, FiniteSets

CONSTANTS
  Call,           \* the calls of sendPayment
  Rent,           \* the calls of processStellarRentPayment
  KeyOf,          \* the idempotency key of each call of sendPayment, or NoKey
  NoKey,
  MaxAttempts,    \* txSubmitMaxAttempts, and the attempts of the rent flow
  MaxFaults       \* bound: commits that fail, crashes, errors while polling

ASSUME StellarPaymentAssumption ==
  /\ MaxAttempts \in Nat \ {0} /\ MaxFaults \in Nat
  /\ Call \cap Rent = {}

VARIABLES
  seq,            \* the sequence number of the account on the ledger
  applied,        \* the transactions the ledger applied
  waiting,        \* those it was sent and has not applied
  at,             \* where each call is
  tx,             \* the transaction a call has built: its sequence number
  attempt,        \* the attempts a call has made
  row,            \* stellar_transactions or payments: the row of each call
  faults

vars == <<seq, applied, waiting, at, tx, attempt, row, faults>>

Caller == Call \cup Rent
Tx(c, n) == [by |-> c, seq |-> n]

Goto(c, l) == at' = [at EXCEPT ![c] = l]
Fault == faults < MaxFaults /\ faults' = faults + 1
NoFault == UNCHANGED faults

Same(c, d) == KeyOf[c] # NoKey /\ KeyOf[c] = KeyOf[d]

\* The row of c is written but its database transaction is open.
Inserted(c) == at[c] \in {"submit", "commitDone", "commitFailed"}

-----------------------------------------------------------------------------
Init ==
  /\ seq = 0
  /\ applied = {}
  /\ waiting = {}
  /\ at = [c \in Caller |-> "new"]
  /\ tx = [c \in Caller |-> 0]
  /\ attempt = [c \in Caller |-> 1]
  /\ row = [c \in Caller |-> "none"]
  /\ faults = 0

\* The ledger takes a transaction up, if its number is the next.
Take(t) ==
  /\ t.seq = seq + 1
  /\ seq' = t.seq
  /\ applied' = applied \cup {t}
  /\ waiting' = waiting \ {t}

\* A waiting transaction is taken up, or dropped.
Apply(t) ==
  /\ t \in waiting
  /\ \/ Take(t)
     \/ waiting' = waiting \ {t} /\ UNCHANGED <<seq, applied>>
  /\ UNCHANGED <<at, tx, attempt, row, faults>>

\* sendPayment: a committed row with this key is the answer.
Lookup(c) ==
  /\ c \in Call /\ at[c] = "new"
  /\ Goto(c, IF \E d \in Call : d # c /\ Same(c, d) /\ row[d] # "none"
               THEN "returned" ELSE "build")
  /\ UNCHANGED <<seq, applied, waiting, tx, attempt, row, faults>>

\* loadAccount, build and sign, the checks of the balance passed.
Build(c) ==
  /\ c \in Call /\ at[c] = "build"
  /\ tx' = [tx EXCEPT ![c] = seq + 1]
  /\ Goto(c, "insert")
  /\ UNCHANGED <<seq, applied, waiting, attempt, row, faults>>

\* Mutant: the idempotency key has no unique index.
UnindexedInsert(c) ==
  /\ c \in Call /\ at[c] = "insert"
  /\ Goto(c, "submit")
  /\ UNCHANGED <<seq, applied, waiting, tx, attempt, row, faults>>

\* The PENDING row, in the open transaction.  The unique index on the key makes
\* it wait for another open insert of the key, and fail after it committed.
Insert(c) ==
  /\ c \in Call /\ at[c] = "insert"
  /\ ~\E d \in Call : d # c /\ Same(c, d) /\ Inserted(d)
  /\ Goto(c, IF \E d \in Call : d # c /\ Same(c, d) /\ row[d] # "none"
               THEN "threw" ELSE "submit")
  /\ UNCHANGED <<seq, applied, waiting, tx, attempt, row, faults>>

\* Mutant: after a timeout the payment is built anew, like after a conflict.
Rebuild(c) == tx' = [tx EXCEPT ![c] = seq' + 1]

\* After a timeout the same transaction is sent again.
Resend(c) == UNCHANGED tx

Retry(c, giveUp) ==
  IF attempt[c] < MaxAttempts
    THEN attempt' = [attempt EXCEPT ![c] = @ + 1] /\ UNCHANGED at
    ELSE Goto(c, giveUp) /\ UNCHANGED attempt

\* submitTransactionWithRetry, one attempt: applied, refused for the sequence
\* number and rebuilt, timed out with the transaction applied or under way, or
\* refused by an operation.
Submit(c) ==
  LET t == Tx(c, tx[c])
      last == attempt[c] = MaxAttempts
      ledger == <<seq, applied, waiting>>
  IN  /\ c \in Call /\ at[c] = "submit"
      /\ \/ t \in applied /\ Goto(c, "commitDone") /\ UNCHANGED <<ledger, tx, attempt>>
         \/ Take(t) /\ Goto(c, "commitDone") /\ UNCHANGED <<tx, attempt>>
         \/ /\ t \notin applied /\ t.seq # seq + 1
            /\ Retry(c, "commitFailed")
            /\ tx' = IF last THEN tx ELSE [tx EXCEPT ![c] = seq + 1]
            /\ UNCHANGED ledger
         \/ /\ \/ Take(t)
               \/ waiting' = waiting \cup ({t} \ applied) /\ UNCHANGED <<seq, applied>>
            /\ Retry(c, "commitFailed")
            /\ IF last THEN UNCHANGED tx ELSE Resend(c)
         \/ t \notin applied /\ Goto(c, "commitFailed") /\ UNCHANGED <<ledger, tx, attempt>>
      /\ UNCHANGED <<row, faults>>

\* The row is saved with its status and the transaction committed; when that
\* fails, the row is rolled back.
Commit(c) ==
  /\ c \in Call /\ at[c] \in {"commitDone", "commitFailed"}
  /\ \/ row' = [row EXCEPT ![c] = IF at[c] = "commitDone" THEN "completed" ELSE "failed"]
        /\ NoFault
     \/ Fault /\ UNCHANGED row
  /\ Goto(c, "returned")
  /\ UNCHANGED <<seq, applied, waiting, tx, attempt>>

-----------------------------------------------------------------------------
\* processRentPayment: the account is loaded, the call built and simulated.
RentBuild(c) ==
  /\ c \in Rent /\ at[c] = "new"
  /\ \/ tx' = [tx EXCEPT ![c] = seq + 1] /\ Goto(c, "send")
     \/ Goto(c, "saveFailed") /\ UNCHANGED tx
  /\ UNCHANGED <<seq, applied, waiting, attempt, row, faults>>

\* sendTransaction: taken up for a ledger; refused, also for the sequence number
\* the very transaction took when an earlier attempt went through unnoticed; or
\* asked to try again, or an error, which a lost reply may be the cause of.
RentSend(c) ==
  LET t == Tx(c, tx[c])
      sent == waiting' = waiting \cup ({t} \ applied)
  IN  /\ c \in Rent /\ at[c] = "send"
      /\ \/ sent /\ Goto(c, "poll") /\ attempt' = [attempt EXCEPT ![c] = 1] /\ NoFault
         \/ /\ t \notin waiting
            /\ Goto(c, "saveFailed") /\ UNCHANGED <<waiting, attempt>> /\ NoFault
         \/ /\ Retry(c, "saveFailed")
            /\ \/ UNCHANGED waiting /\ NoFault
               \/ sent /\ Fault
      /\ UNCHANGED <<seq, applied, tx, row>>

\* Mutant: running out of polls is a failure like any other.
ImpatientPoll(c) ==
  /\ c \in Rent /\ at[c] = "poll"
  /\ Goto(c, IF Tx(c, tx[c]) \in applied THEN "saveDone" ELSE "saveFailed")
  /\ UNCHANGED <<seq, applied, waiting, tx, attempt, row, faults>>

\* pollTransactionStatus: found, not yet in a ledger or a transient error until
\* the deadline, dropped, or an error that is not transient.
RentPoll(c) ==
  LET t == Tx(c, tx[c])
  IN  /\ c \in Rent /\ at[c] = "poll"
      /\ \/ t \in applied /\ Goto(c, "saveDone") /\ NoFault
         \/ Goto(c, "savePending") /\ NoFault
         \/ t \notin applied \cup waiting /\ Goto(c, "saveFailed") /\ NoFault
         \/ Goto(c, "saveFailed") /\ Fault
      /\ UNCHANGED <<seq, applied, waiting, tx, attempt, row>>

\* The payment row: COMPLETED, PENDING with the hash, or FAILED.  When saving a
\* COMPLETED one or its notification fails, the catch clause adds a FAILED one.
RentSave(c) ==
  LET save(s) == row' = [row EXCEPT ![c] = IF @ = "completed" THEN @ ELSE s]
  IN  /\ c \in Rent
      /\ \/ at[c] = "saveDone" /\ save("completed") /\ Goto(c, "returned") /\ NoFault
         \/ /\ at[c] = "saveDone" /\ Fault /\ Goto(c, "saveFailed")
            /\ save("completed") \/ UNCHANGED row
         \/ at[c] = "savePending" /\ save("pending") /\ Goto(c, "returned") /\ NoFault
         \/ at[c] = "saveFailed" /\ save("failed") /\ Goto(c, "returned") /\ NoFault
         \/ /\ at[c] \in {"savePending", "saveFailed"} /\ Fault
            /\ Goto(c, "returned") /\ UNCHANGED row
      /\ UNCHANGED <<seq, applied, waiting, tx, attempt>>

\* A server dies with a call; what the database had not committed is gone.
Crash(c) ==
  /\ at[c] \notin {"new", "returned", "threw"}
  /\ Fault
  /\ Goto(c, "returned")
  /\ UNCHANGED <<seq, applied, waiting, tx, attempt, row>>

Next ==
  \/ \E c \in Caller :
       \/ Lookup(c) \/ Build(c) \/ Insert(c) \/ Submit(c) \/ Commit(c)
       \/ RentBuild(c) \/ RentSend(c) \/ RentPoll(c) \/ RentSave(c)
       \/ Crash(c)
  \/ \E t \in waiting : Apply(t)

Spec == Init /\ [][Next]_vars

-----------------------------------------------------------------------------
TypeOK ==
  /\ seq \in Nat
  /\ applied \in SUBSET [by: Caller, seq: Nat]
  /\ waiting \in SUBSET [by: Caller, seq: Nat]
  /\ tx \in [Caller -> Nat]
  /\ attempt \in [Caller -> 1..MaxAttempts]
  /\ row \in [Caller -> {"none", "pending", "completed", "failed"}]
  /\ faults \in 0..MaxFaults

Paid(S) == {t \in applied : t.by \in S}

\* One call pays once, through every timeout, late application and rebuilding:
\* a new transaction is only built when the number of the old one is taken.
OncePerCall == \A c \in Caller : Cardinality(Paid({c})) <= 1

\* Calls with one key pay once between them, unless a row was lost after its
\* transaction was applied.
OncePerKey ==
  \A c \in Call :
    KeyOf[c] # NoKey => Cardinality(Paid({d \in Call : Same(c, d)})) <= 1 + faults

\* The rows tell what the ledger did.  A COMPLETED row was paid; rent that was
\* paid, or that the ledger may yet take up, has a COMPLETED or a PENDING row when
\* its call is over, and each exception cost a fault.
CompletedIsPaid == \A c \in Caller : row[c] = "completed" => Paid({c}) # {}

RentIsKept ==
  Cardinality({c \in Rent : /\ at[c] = "returned"
                            /\ \E t \in applied \cup waiting : t.by = c
                            /\ row[c] \notin {"completed", "pending"}}) <= faults

RowsFollowLedger == CompletedIsPaid /\ RentIsKept
=============================================================================
