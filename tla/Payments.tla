------------------------------- MODULE Payments -------------------------------
(***************************************************************************)
(* PaymentService and PaymentGatewayService (backend/src/modules/payments) *)
(* for one user with one payment method and one recurring schedule: card   *)
(* charges under idempotency keys, refunds, gateway webhooks, retries of   *)
(* failed payments and scheduled payments.                                 *)
(*                                                                         *)
(* Every await on the gateway, the database or Redis is a step boundary,   *)
(* and requests interleave at each.  The gateway may capture a charge and  *)
(* lose the reply, a save or a notification may fail, and a server may die *)
(* with a request.  TypeORM's save writes every column of the entity it is *)
(* given: an entity read earlier brings its old values back.  The marker   *)
(* that @Idempotent keeps under a key is abstracted from module            *)
(* Idempotency.  @Locked is left out: its locks lapse after 5 s, a gateway *)
(* call takes up to 10 s, so they exclude no interleaving.                 *)
(***************************************************************************)
EXTENDS Integers, Sequences, FiniteSets

CONSTANTS
  CardRequest,      \* the requests in flight
  ClientKey,        \* the Idempotency-Key headers clients send
  NoHeader,         \* a request without one
  Amount,           \* what a payment charges
  Interval,         \* the days from one scheduled payment to the next
  MaxRetries,       \* maxRetries of a schedule
  MaxSlot,          \* bound: the last day a schedule may be due
  MaxRows,          \* bound: payment rows
  MaxCardFaults,    \* bound: lost replies, failed saves, crashes
  MaxEvents,        \* bound: webhooks
  MaxCardRequests   \* bound: requests in a behaviour

VARIABLES
  rows,             \* the payments table, by id
  captured,         \* what the gateway captured: the key of each charge
  refunded,         \* how often the gateway gave money back of each charge
  marker,           \* @Idempotent: free, running or done under each key
  schedule,         \* the row of the schedule
  hasMethod,        \* the payment method exists
  cardReq,          \* where each request is, and its locals
  cardFaults,       \* how many faults happened
  events,           \* how many webhooks arrived
  cardStarted       \* how many requests were started

gateway == <<captured, refunded>>
cardVars ==
  <<rows, gateway, marker, schedule, hasMethod, cardReq, cardFaults, events, cardStarted>>

Slot == 0..(MaxSlot + Interval + 1)
Key == ClientKey \cup {<<"slot", t>> : t \in Slot} \cup {<<"retry", i>> : i \in 1..MaxRows}

\* A request without a key is told from those with one, and the bounds are numbers.
ASSUME PaymentsAssumption ==
  /\ NoHeader \notin Key
  /\ IsFiniteSet(CardRequest)
  /\ {Amount, Interval, MaxRetries, MaxSlot, MaxRows, MaxCardFaults, MaxEvents, MaxCardRequests}
       \subseteq Nat

Row(s, k, c) == [status |-> s, key |-> k, charge |-> c, refundAmount |-> 0]
NoCopy == Row("none", NoHeader, 0)
CardIdle ==
  [at |-> "idle", job |-> "none", key |-> NoHeader, copy |-> NoCopy, id |-> 0, n |-> 0]

HasRow(k) == \E i \in DOMAIN rows : rows[i].key = k

\* A row that a refund's transaction has read FOR UPDATE.
RowLocked(i) ==
  \E q \in CardRequest : cardReq[q].at \in {"refund", "commit"} /\ cardReq[q].id = i

CardAt(q, l) == cardReq[q].at = l
CardGoto(q, l) == cardReq' = [cardReq EXCEPT ![q].at = l]
CardEnd(q) == cardReq' = [cardReq EXCEPT ![q] = CardIdle]
CardStart(q, l, j, k, x, i, m) ==
  /\ CardAt(q, "idle")
  /\ cardStarted < MaxCardRequests /\ cardStarted' = cardStarted + 1
  /\ cardReq' = [cardReq EXCEPT ![q] =
       [at |-> l, job |-> j, key |-> k, copy |-> x, id |-> i, n |-> m]]

CardFault == cardFaults < MaxCardFaults /\ cardFaults' = cardFaults + 1
NoCardFault == UNCHANGED cardFaults
Mark(k, m) == marker' = IF k = NoHeader THEN marker ELSE [marker EXCEPT ![k] = m]

-----------------------------------------------------------------------------
CardInit ==
  /\ rows = <<>>
  /\ captured = <<>>
  /\ refunded = <<>>
  /\ marker = [k \in Key |-> "free"]
  /\ schedule = [status |-> "active", slot |-> 0, retries |-> 0]
  /\ hasMethod = TRUE
  /\ cardReq = [q \in CardRequest |-> CardIdle]
  /\ cardFaults = 0
  /\ events = 0
  /\ cardStarted = 0

\* POST /payments, with or without an Idempotency-Key.
SubmitPayment(q, k) ==
  /\ CardStart(q, IF k = NoHeader THEN "lookup" ELSE "begin", "client", k, NoCopy, 0, 0)
  /\ UNCHANGED <<rows, gateway, marker, schedule, hasMethod, cardFaults, events>>

\* recordPayment returned, or threw, to whoever called it.
Return(q) == IF cardReq[q].job = "client" THEN CardEnd(q) ELSE CardGoto(q, "returned")
Throw(q) == IF cardReq[q].job = "schedule" THEN CardGoto(q, "threw") ELSE CardEnd(q)

\* @Idempotent: run under the key, hand out the stored result, or refuse.
Begin(q) ==
  LET k == cardReq[q].key
  IN  /\ CardAt(q, "begin")
      /\ \/ marker[k] = "free" /\ Mark(k, "running") /\ CardGoto(q, "lookup")
         \/ marker[k] = "running" /\ Throw(q) /\ UNCHANGED marker
         \/ marker[k] = "done" /\ Return(q) /\ UNCHANGED marker
      /\ UNCHANGED <<rows, gateway, schedule, hasMethod, cardFaults, events, cardStarted>>

\* Mutant: the key is left to the marker alone.
CarelessLookup(q) ==
  /\ CardAt(q, "lookup")
  /\ hasMethod
  /\ CardGoto(q, "charge")
  /\ UNCHANGED <<rows, gateway, marker, schedule, hasMethod, cardFaults, events, cardStarted>>

\* A row with this key answers the request, whatever its status.  Otherwise the
\* agreement must not be disputed and the method must be there.
LookupRow(q) ==
  LET known == cardReq[q].key # NoHeader /\ HasRow(cardReq[q].key)
  IN  /\ CardAt(q, "lookup")
      /\ \/ known /\ CardGoto(q, "complete")
         \/ ~known /\ hasMethod /\ CardGoto(q, "charge")
         \/ ~known /\ CardGoto(q, "release")
      /\ UNCHANGED <<rows, gateway, marker, schedule, hasMethod, cardFaults, events, cardStarted>>

\* chargePayment: one attempt, for an AxiosError is none of the errors that
\* RetryService is told to retry.  A charge may be captured and its reply lost.
Charge(q) ==
  LET capture == /\ captured' = Append(captured, cardReq[q].key)
                 /\ refunded' = Append(refunded, 0)
  IN  /\ CardAt(q, "charge")
      /\ Len(captured) < MaxRows
      /\ \/ /\ capture
            /\ cardReq' = [cardReq EXCEPT ![q].at = "save", ![q].n = Len(captured) + 1]
            /\ NoCardFault
         \/ CardGoto(q, "saveFailed") /\ NoCardFault /\ UNCHANGED gateway
         \/ /\ CardFault
            /\ \/ capture
               \/ UNCHANGED gateway
            /\ CardGoto(q, "release")
      /\ UNCHANGED <<rows, marker, schedule, hasMethod, events, cardStarted>>

\* The unique index on (userId, idempotencyKey).
CanInsert(k) == k # NoHeader => ~HasRow(k)

\* Mutant: the charge is not remembered on the row.
BareRow(k, c) == Row("completed", k, 0)

Completed(k, c) == Row("completed", k, c)

\* The COMPLETED row and the notification; either may fail.
SaveCompleted(q) ==
  LET k == cardReq[q].key
      insert == rows' = Append(rows, Completed(k, cardReq[q].n))
  IN  /\ CardAt(q, "save")
      /\ Len(rows) < MaxRows
      /\ \/ CanInsert(k) /\ insert /\ CardGoto(q, "complete") /\ NoCardFault
         \/ CanInsert(k) /\ insert /\ CardGoto(q, "release") /\ CardFault
         \/ CardGoto(q, "release") /\ CardFault /\ UNCHANGED rows
         \/ ~CanInsert(k) /\ CardGoto(q, "release") /\ NoCardFault /\ UNCHANGED rows
      /\ UNCHANGED <<gateway, marker, schedule, hasMethod, events, cardStarted>>

\* The FAILED row of a declined charge, under the same key; then throw.
SaveFailed(q) ==
  /\ CardAt(q, "saveFailed")
  /\ Len(rows) < MaxRows
  /\ \/ /\ CanInsert(cardReq[q].key)
        /\ rows' = Append(rows, Row("failed", cardReq[q].key, 0))
        /\ NoCardFault
     \/ CardFault /\ UNCHANGED rows
     \/ ~CanInsert(cardReq[q].key) /\ NoCardFault /\ UNCHANGED rows
  /\ CardGoto(q, "release")
  /\ UNCHANGED <<gateway, marker, schedule, hasMethod, events, cardStarted>>

\* @Idempotent: store the result, or give the key back and rethrow.
Complete(q) ==
  /\ CardAt(q, "complete")
  /\ Mark(cardReq[q].key, "done")
  /\ Return(q)
  /\ UNCHANGED <<rows, gateway, schedule, hasMethod, cardFaults, events, cardStarted>>

Release(q) ==
  /\ CardAt(q, "release")
  /\ Mark(cardReq[q].key, "free")
  /\ Throw(q)
  /\ UNCHANGED <<rows, gateway, schedule, hasMethod, cardFaults, events, cardStarted>>

-----------------------------------------------------------------------------
\* runPaymentSchedule and processDueSchedules: read an active schedule.
FindSchedule(q) ==
  /\ schedule.status = "active"
  /\ schedule.slot <= MaxSlot
  /\ CardStart(q, IF hasMethod THEN "begin" ELSE "noMethod", "schedule",
           <<"slot", schedule.slot>>, schedule, 0, 0)
  /\ UNCHANGED <<rows, gateway, marker, schedule, hasMethod, cardFaults, events>>

ScheduleWithoutMethod(q) ==
  /\ CardAt(q, "noMethod")
  /\ schedule' = [cardReq[q].copy EXCEPT !.status = "failed"]
  /\ CardEnd(q)
  /\ UNCHANGED <<rows, gateway, marker, hasMethod, cardFaults, events, cardStarted>>

\* The payment went through: on to the next period.  When the save or the
\* notification fails, the catch clause sees the schedule already moved.
AdvanceSchedule(q) ==
  LET next == [cardReq[q].copy EXCEPT !.retries = 0, !.slot = @ + Interval]
  IN  /\ CardAt(q, "returned") /\ cardReq[q].job = "schedule"
      /\ \/ schedule' = next /\ CardEnd(q) /\ NoCardFault
         \/ /\ CardFault
            /\ cardReq' = [cardReq EXCEPT ![q].at = "threw", ![q].copy = next]
            /\ \/ schedule' = next
               \/ UNCHANGED schedule
      /\ UNCHANGED <<rows, gateway, marker, hasMethod, events, cardStarted>>

\* Mutant: nobody counts the retries.
NeverGivesUp(old) == [old EXCEPT !.retries = @ + 1, !.slot = @ + 1]

\* Try again tomorrow, under another key, or give up.  (The count of a schedule
\* its owner revives is capped: only >= is asked of it.)
AfterFailure(old) ==
  IF old.retries + 1 >= MaxRetries
    THEN [old EXCEPT !.retries = MaxRetries, !.status = "failed"]
    ELSE [old EXCEPT !.retries = @ + 1, !.slot = @ + 1]

\* The catch clause; its save may fail.
DelaySchedule(q) ==
  /\ CardAt(q, "threw")
  /\ \/ schedule' = AfterFailure(cardReq[q].copy) /\ NoCardFault
     \/ UNCHANGED schedule /\ CardFault
  /\ CardEnd(q)
  /\ UNCHANGED <<rows, gateway, marker, hasMethod, events, cardStarted>>

\* PATCH /payments/schedules: read the row, then write it with what the user set.
ReadScheduleToEdit(q) ==
  /\ CardStart(q, "edit", "edit", NoHeader, schedule, 0, 0)
  /\ UNCHANGED <<rows, gateway, marker, schedule, hasMethod, cardFaults, events>>

EditSchedule(q) ==
  /\ CardAt(q, "edit")
  /\ \E s \in {"active", "canceled"}, t \in {cardReq[q].copy.slot, 0} :
       schedule' = [cardReq[q].copy EXCEPT !.status = s, !.slot = t]
  /\ CardEnd(q)
  /\ UNCHANGED <<rows, gateway, marker, hasMethod, cardFaults, events, cardStarted>>

\* DELETE /payment-methods: the rows of payments made with it keep it.
RemovePaymentMethod ==
  /\ hasMethod /\ rows = <<>>
  /\ hasMethod' = FALSE
  /\ UNCHANGED <<rows, gateway, marker, schedule, cardReq, cardFaults, events, cardStarted>>

-----------------------------------------------------------------------------
\* retryFailedPayments: a FAILED row, unless its retry left a row.
FindFailed(q, i) ==
  /\ rows[i].status = "failed"
  /\ CardStart(q, "checkRetry", "retry", <<"retry", i>>, rows[i], i, 0)
  /\ UNCHANGED <<rows, gateway, marker, schedule, hasMethod, cardFaults, events>>

CheckRetry(q) ==
  /\ CardAt(q, "checkRetry")
  /\ IF HasRow(cardReq[q].key) THEN CardEnd(q) ELSE CardGoto(q, "begin")
  /\ UNCHANGED <<rows, gateway, marker, schedule, hasMethod, cardFaults, events, cardStarted>>

\* The attempt is counted on the original, saved as it was read.
CountRetry(q) ==
  /\ CardAt(q, "returned") /\ cardReq[q].job = "retry"
  /\ ~RowLocked(cardReq[q].id)
  /\ rows' = [rows EXCEPT ![cardReq[q].id] = cardReq[q].copy]
  /\ CardEnd(q)
  /\ UNCHANGED <<gateway, marker, schedule, hasMethod, cardFaults, events, cardStarted>>

-----------------------------------------------------------------------------
\* Mutant: the row is read without its lock.
UnlockedRefund(q, i) ==
  /\ rows[i].status = "completed" /\ rows[i].charge # 0
  /\ \E a \in 1..(Amount - rows[i].refundAmount) :
       CardStart(q, "refund", "refund", NoHeader, rows[i], i, a)
  /\ UNCHANGED <<rows, gateway, marker, schedule, hasMethod, cardFaults, events>>

\* POST /payments/:id/refund: SELECT ... FOR UPDATE and the conditions.
BeginCardRefund(q, i) ==
  /\ ~RowLocked(i)
  /\ rows[i].status = "completed" /\ rows[i].charge # 0
  /\ \E a \in 1..(Amount - rows[i].refundAmount) :
       CardStart(q, "refund", "refund", NoHeader, rows[i], i, a)
  /\ UNCHANGED <<rows, gateway, marker, schedule, hasMethod, cardFaults, events>>

\* The gateway refunds, inside the transaction; its reply may be lost.
RefundAtGateway(q) ==
  LET give == refunded' = [refunded EXCEPT ![cardReq[q].copy.charge] = @ + 1]
  IN  /\ CardAt(q, "refund")
      /\ \/ give /\ CardGoto(q, "commit") /\ NoCardFault
         \/ CardEnd(q) /\ NoCardFault /\ UNCHANGED refunded
         \/ give /\ CardEnd(q) /\ CardFault
      /\ UNCHANGED <<rows, captured, marker, schedule, hasMethod, events, cardStarted>>

\* refundAmount is a decimal column: the driver returns a string, += appends the
\* digits of the amount to "0.00", and what is saved rounds to less than a unit.
\* The comparison with the amount is one of strings, "0..." >= "1...".
Concatenated(old, a) == old

CommitRefund(q) ==
  LET total == Concatenated(cardReq[q].copy.refundAmount, cardReq[q].n)
      row == [cardReq[q].copy EXCEPT !.refundAmount = total,
                !.status = IF total >= Amount THEN "refunded" ELSE "partial_refund"]
  IN  /\ CardAt(q, "commit")
      /\ \/ rows' = [rows EXCEPT ![cardReq[q].id] = row] /\ NoCardFault
         \/ CardFault /\ UNCHANGED rows
      /\ CardEnd(q)
      /\ UNCHANGED <<gateway, marker, schedule, hasMethod, events, cardStarted>>

\* POST /payments/webhooks/gateway: the gateway knows a payment by its charge.
ReadForWebhook(q, i) ==
  /\ events < MaxEvents
  /\ rows[i].charge # 0
  /\ CardStart(q, "webhook", "webhook", NoHeader, rows[i], i, 0)
  /\ events' = events + 1
  /\ UNCHANGED <<rows, gateway, marker, schedule, hasMethod, cardFaults>>

\* mapWebhookStatus of the events of a captured charge, in any order, at any time.
WebhookStatus(c) ==
  {"pending", "completed"} \cup (IF refunded[c] > 0 THEN {"refunded"} ELSE {})

SaveWebhook(q) ==
  /\ CardAt(q, "webhook")
  /\ ~RowLocked(cardReq[q].id)
  /\ \E s \in WebhookStatus(cardReq[q].copy.charge) :
       rows' = [rows EXCEPT ![cardReq[q].id] = [cardReq[q].copy EXCEPT !.status = s]]
  /\ CardEnd(q)
  /\ UNCHANGED <<gateway, marker, schedule, hasMethod, cardFaults, events, cardStarted>>

-----------------------------------------------------------------------------
\* A server dies with a request: its transaction is rolled back, its marker stays.
CardCrash(q) ==
  /\ ~CardAt(q, "idle")
  /\ CardFault
  /\ CardEnd(q)
  /\ UNCHANGED <<rows, gateway, marker, schedule, hasMethod, events, cardStarted>>

\* A day later: a result, or the marker of a dead request, is gone.
MarkerLapses(k) ==
  /\ \/ marker[k] = "done"
     \/ /\ marker[k] = "running"
        /\ ~\E q \in CardRequest : cardReq[q].key = k /\ cardReq[q].at \in
              {"lookup", "charge", "save", "saveFailed", "complete", "release"}
  /\ marker' = [marker EXCEPT ![k] = "free"]
  /\ UNCHANGED <<rows, gateway, schedule, hasMethod, cardReq, cardFaults, events, cardStarted>>

RecordPayment(q) ==
  \/ Begin(q) \/ LookupRow(q) \/ Charge(q) \/ SaveCompleted(q) \/ SaveFailed(q)
  \/ Complete(q) \/ Release(q)

CardNext ==
  \/ \E q \in CardRequest :
       \/ \E k \in ClientKey \cup {NoHeader} : SubmitPayment(q, k)
       \/ RecordPayment(q)
       \/ FindSchedule(q) \/ ScheduleWithoutMethod(q)
       \/ AdvanceSchedule(q) \/ DelaySchedule(q)
       \/ ReadScheduleToEdit(q) \/ EditSchedule(q)
       \/ \E i \in DOMAIN rows :
            FindFailed(q, i) \/ BeginCardRefund(q, i) \/ ReadForWebhook(q, i)
       \/ CheckRetry(q) \/ CountRetry(q)
       \/ RefundAtGateway(q) \/ CommitRefund(q) \/ SaveWebhook(q)
       \/ CardCrash(q)
  \/ RemovePaymentMethod
  \/ \E k \in Key : MarkerLapses(k)

CardSpec == CardInit /\ [][CardNext]_cardVars

-----------------------------------------------------------------------------
Copies == [status: {"pending", "completed", "failed", "refunded", "partial_refund", "none"},
           key: Key \cup {NoHeader}, charge: 0..MaxRows, refundAmount: 0..Amount]
Schedules == [status: {"active", "paused", "canceled", "failed"}, slot: Slot,
              retries: 0..MaxRetries]

CardTypeOK ==
  /\ rows \in Seq(Copies) /\ Len(rows) <= MaxRows
  /\ captured \in Seq(Key \cup {NoHeader}) /\ Len(captured) <= MaxRows
  /\ refunded \in Seq(Nat) /\ Len(refunded) = Len(captured)
  /\ marker \in [Key -> {"free", "running", "done"}]
  /\ schedule \in Schedules
  /\ hasMethod \in BOOLEAN
  /\ \A q \in CardRequest :
       /\ DOMAIN cardReq[q] = DOMAIN CardIdle
       /\ cardReq[q].key \in Key \cup {NoHeader}
       /\ cardReq[q].copy \in Copies \cup Schedules
       /\ cardReq[q].id \in 0..Len(rows) /\ cardReq[q].n \in 0..(Amount + MaxRows)
  /\ cardFaults \in 0..MaxCardFaults /\ events \in 0..MaxEvents
  /\ cardStarted \in 0..MaxCardRequests

\* A key whose payment left a row, COMPLETED or FAILED, is never charged again:
\* not by a repeated request, a schedule run twice from stale reads or moved back
\* by its owner, nor by a retry, even as markers lapse and servers die.
ChargeOncePerRow ==
  [][\A k \in Key :
       HasRow(k) /\ Len(captured') > Len(captured) => captured'[Len(captured')] # k]_cardVars

\* Money the gateway captured has its row, or is in the hands of a request about
\* to write one: each exception is a fault that was counted.
NoChargeLost ==
  Cardinality({c \in DOMAIN captured :
      /\ \A i \in DOMAIN rows : rows[i].charge # c
      /\ \A q \in CardRequest : ~(CardAt(q, "save") /\ cardReq[q].n = c)}) <= cardFaults

\* One payment is refunded once: to get it refunded again takes a webhook that
\* reports it completed anew, or a refund that failed after the gateway's part.
RefundOnce == \A c \in DOMAIN refunded : refunded[c] <= 1 + events + cardFaults
=============================================================================
