------------------------------ MODULE MoneyProofs ------------------------------
(***************************************************************************)
(* Proofs about the ways money moves outside the escrow contract.          *)
(*                                                                         *)
(* Card payments, for any requests, keys, lost replies, failed saves,      *)
(* webhooks and crashes: a key whose payment left a row is not charged     *)
(* again, what the gateway captured is recorded but for one charge a       *)
(* fault, and a charge is refunded once but for the webhooks and faults    *)
(* that reopened it.  The invariant says what a request's copy of a row    *)
(* still agrees with, and which requests keep others out: by a marker, by  *)
(* a charge nobody else holds, by the lock of a row.                       *)
(*                                                                         *)
(* Interest and rent, for any agreements, terms, tokens, rates and fees:   *)
(* no day earns twice, and the account that holds all of it holds for each *)
(* agreement what is its own.  The invariant compares what an agreement    *)
(* earned with the best of its terms over its whole periods, and follows   *)
(* the sums of the holdings.                                               *)
(***************************************************************************)
EXTENDS MCMoney, StellarProofs, SumProofs, SequenceTheorems

-----------------------------------------------------------------------------
(* What requests hold.                                                     *)
-----------------------------------------------------------------------------

\* Under the marker of their key; about to charge it, or to write its row.
Working == {"lookup", "charge", "save", "saveFailed", "complete", "release"}
Charging == {"charge", "save", "saveFailed"}

\* With the lock of a row.
Locking == {"refund", "commit"}

\* With the copy of a row.
Copying == {"retry", "refund", "webhook"}

CardReqs ==
  [at: Working \cup Locking \cup {"idle", "begin", "returned", "threw", "noMethod", "edit",
                                  "checkRetry", "webhook"},
   job: Copying \cup {"none", "client", "schedule", "edit"},
   key: Key \cup {NoHeader}, copy: Copies \cup Schedules,
   id: 0..MaxRows, n: 0..(Amount + MaxRows)]

CardTypes ==
  /\ rows \in Seq(Copies) /\ Len(rows) <= MaxRows
  /\ captured \in Seq(Key \cup {NoHeader}) /\ Len(captured) <= MaxRows
  /\ refunded \in Seq(Nat) /\ Len(refunded) = Len(captured)
  /\ marker \in [Key -> {"free", "running", "done"}]
  /\ schedule \in Schedules
  /\ hasMethod \in BOOLEAN
  /\ cardReq \in [CardRequest -> CardReqs]
  /\ cardFaults \in 0..MaxCardFaults /\ events \in 0..MaxEvents
  /\ cardStarted \in 0..MaxCardRequests

\* Which request is where, and what it has read of the schedule.
Placed(r) ==
  /\ r.at \in Working \cup {"begin"} => r.job \in {"client", "schedule", "retry"}
  /\ r.at = "begin" => r.key \in Key
  /\ r.at \in {"noMethod", "threw"} => r.job = "schedule"
  /\ r.at = "returned" => r.job \in {"schedule", "retry"}
  /\ r.at = "checkRetry" => r.job = "retry" /\ r.key \in Key
  /\ r.at = "edit" => r.job = "edit"
  /\ r.at \in Locking => r.job = "refund"
  /\ r.at = "webhook" => r.job = "webhook"
  /\ r.job \in {"schedule", "edit"} => r.copy \in Schedules
  /\ r.job = "schedule" =>
       r.copy.slot <= IF r.at = "threw" THEN MaxSlot + Interval ELSE MaxSlot
  /\ r.id # 0 => r.job \in Copying

\* The request is at work under a key.
HoldsKey(q) == cardReq[q].at \in Working /\ cardReq[q].key # NoHeader

\* A key has a marker while a request is at work under it, and one such request.
Reserved ==
  /\ \A q \in CardRequest : HoldsKey(q) => marker[cardReq[q].key] = "running"
  /\ \A q, r \in CardRequest : HoldsKey(q) /\ HoldsKey(r) /\ cardReq[q].key = cardReq[r].key => q = r

\* A key that is being charged has no row.
Unrecorded ==
  \A q \in CardRequest :
    cardReq[q].at \in Charging /\ cardReq[q].key # NoHeader => ~HasRow(cardReq[q].key)

\* A charge has one row at most, or one request about to write it; a row that
\* failed has none.
Charges ==
  /\ \A i \in DOMAIN rows : rows[i].charge <= Len(captured)
  /\ \A i \in DOMAIN rows : rows[i].status = "failed" => rows[i].charge = 0
  /\ \A i, j \in DOMAIN rows : rows[i].charge = rows[j].charge /\ rows[i].charge # 0 => i = j
  /\ \A q \in CardRequest : cardReq[q].at = "save" =>
       /\ cardReq[q].n \in DOMAIN captured
       /\ \A i \in DOMAIN rows : rows[i].charge # cardReq[q].n
  /\ \A q, r \in CardRequest :
       cardReq[q].at = "save" /\ cardReq[r].at = "save" /\ cardReq[q].n = cardReq[r].n => q = r

\* The copy of a row, however old, has its key and its charge; that of a locked
\* row has its status.
CopyTrue(r) ==
  r.job \in Copying =>
    /\ r.id \in DOMAIN rows /\ r.copy \in Copies
    /\ r.copy.key = rows[r.id].key /\ r.copy.charge = rows[r.id].charge
    /\ r.job = "retry" <=> r.copy.charge = 0
    /\ r.at \in Locking => rows[r.id].status = "completed"

Copied ==
  /\ \A q \in CardRequest : CopyTrue(cardReq[q])
  /\ \A q, r \in CardRequest :
       cardReq[q].at \in Locking /\ cardReq[r].at \in Locking /\ cardReq[q].id = cardReq[r].id
         => q = r

CardInv ==
  /\ CardTypes
  /\ \A q \in CardRequest : Placed(cardReq[q])
  /\ Reserved
  /\ Unrecorded
  /\ Charges
  /\ Copied

-----------------------------------------------------------------------------
(* Their types.                                                            *)

\* The initial state satisfies the invariant.
LEMMA CardInvInit == CardInit => CardInv
<1> SUFFICES ASSUME CardInit PROVE CardInv
  OBVIOUS
<1>1. CardIdle \in CardReqs /\ Placed(CardIdle)
  BY PaymentsAssumption DEF CardIdle, CardReqs, Placed, Working, Locking, Copying, NoCopy, Row, Copies
<1>2. CardTypes
  BY <1>1, PaymentsAssumption DEF CardInit, CardTypes, Schedules, Slot
<1>3. /\ \A q \in CardRequest : Placed(cardReq[q])
      /\ Reserved /\ Unrecorded /\ Charges /\ Copied
  BY <1>1 DEF CardInit, Reserved, HoldsKey, Unrecorded, Charges, Copied, CopyTrue, CardIdle, Working,
              Charging, Locking, Copying
<1> QED
  BY <1>2, <1>3 DEF CardInv

\* A request starts.
LEMMA CardStarts ==
  ASSUME CardTypes, NEW q \in CardRequest, NEW l, NEW j, NEW k, NEW x, NEW i, NEW m,
         [at |-> l, job |-> j, key |-> k, copy |-> x, id |-> i, n |-> m] \in CardReqs,
         CardStart(q, l, j, k, x, i, m)
  PROVE  /\ cardReq' \in [CardRequest -> CardReqs] /\ cardStarted' \in 0..MaxCardRequests
         /\ cardReq[q].at = "idle"
         /\ cardReq'[q] = [at |-> l, job |-> j, key |-> k, copy |-> x, id |-> i, n |-> m]
         /\ \A r \in CardRequest \ {q} : cardReq'[r] = cardReq[r]
BY PaymentsAssumption DEF CardTypes, CardStart, CardAt

\* A request ends.
LEMMA CardEnds ==
  ASSUME CardTypes, NEW q \in CardRequest, CardEnd(q)
  PROVE  /\ cardReq' \in [CardRequest -> CardReqs] /\ cardReq'[q] = CardIdle
         /\ \A r \in CardRequest \ {q} : cardReq'[r] = cardReq[r]
<1>1. CardIdle \in CardReqs
  BY PaymentsAssumption DEF CardIdle, CardReqs, Working, Locking, Copying, NoCopy, Row, Copies
<1> QED
  BY <1>1 DEF CardTypes, CardEnd

\* A request goes on to its next step.
LEMMA CardGoes ==
  ASSUME CardTypes, NEW q \in CardRequest, NEW l, CardGoto(q, l),
         l \in Working \cup Locking \cup {"begin", "returned", "threw"}
  PROVE  /\ cardReq' \in [CardRequest -> CardReqs]
         /\ cardReq'[q] = [cardReq[q] EXCEPT !.at = l]
         /\ cardReq'[q].at = l /\ cardReq'[q].job = cardReq[q].job
         /\ cardReq'[q].key = cardReq[q].key /\ cardReq'[q].copy = cardReq[q].copy
         /\ cardReq'[q].id = cardReq[q].id /\ cardReq'[q].n = cardReq[q].n
         /\ \A r \in CardRequest \ {q} : cardReq'[r] = cardReq[r]
BY DEF CardTypes, CardGoto, CardReqs

\* The schedule as it was read, retried or moved on, has the type of one.
LEMMA ScheduleTypes ==
  ASSUME NEW x \in Schedules
  PROVE  /\ [x EXCEPT !.status = "failed"] \in Schedules
         /\ \A s \in {"active", "canceled"}, t \in {x.slot, 0} :
              [x EXCEPT !.status = s, !.slot = t] \in Schedules
         /\ x.slot <= MaxSlot =>
              /\ [x EXCEPT !.retries = 0, !.slot = @ + Interval] \in Schedules
              /\ [x EXCEPT !.retries = 0, !.slot = @ + Interval].slot <= MaxSlot + Interval
         /\ x.slot <= MaxSlot + Interval => AfterFailure(x) \in Schedules
<1>1. [x EXCEPT !.status = "failed"] \in Schedules
  BY DEF Schedules
<1>2. ASSUME NEW s \in {"active", "canceled"}, NEW t \in {x.slot, 0}
      PROVE  [x EXCEPT !.status = s, !.slot = t] \in Schedules
  <2>1. t \in Slot
    BY PaymentsAssumption DEF Schedules, Slot
  <2> QED
    BY <2>1 DEF Schedules
<1>3. ASSUME x.slot <= MaxSlot
      PROVE  /\ [x EXCEPT !.retries = 0, !.slot = @ + Interval] \in Schedules
             /\ [x EXCEPT !.retries = 0, !.slot = @ + Interval].slot <= MaxSlot + Interval
  <2>1. x.slot + Interval \in Slot /\ 0 \in 0..MaxRetries /\ x.slot + Interval <= MaxSlot + Interval
    BY <1>3, PaymentsAssumption DEF Schedules, Slot
  <2> QED
    BY <2>1 DEF Schedules
<1>4. ASSUME x.slot <= MaxSlot + Interval
      PROVE  AfterFailure(x) \in Schedules
  <2>1. x.slot + 1 \in Slot
    BY <1>4, PaymentsAssumption DEF Schedules, Slot
  <2>2. CASE x.retries + 1 >= MaxRetries
    <3>1. MaxRetries \in 0..MaxRetries
      BY PaymentsAssumption
    <3> QED
      BY <2>2, <3>1 DEF Schedules, AfterFailure
  <2>3. CASE ~(x.retries + 1 >= MaxRetries)
    <3>1. x.retries + 1 \in 0..MaxRetries
      BY <2>3, PaymentsAssumption DEF Schedules
    <3> QED
      BY <2>1, <2>3, <3>1 DEF Schedules, AfterFailure
  <2> QED
    BY <2>2, <2>3
<1> QED
  BY <1>1, <1>2, <1>3, <1>4

\* A request that starts has a type and a place.
LEMMA StartTypes ==
  ASSUME CardInv, NEW q \in CardRequest,
         \/ \E k \in ClientKey \cup {NoHeader} : SubmitPayment(q, k)
         \/ FindSchedule(q) \/ ReadScheduleToEdit(q)
         \/ \E i \in DOMAIN rows : FindFailed(q, i) \/ BeginCardRefund(q, i) \/ ReadForWebhook(q, i)
  PROVE  /\ CardTypes' /\ Placed(cardReq'[q])
         /\ UNCHANGED <<rows, captured, refunded, marker, cardFaults>>
         /\ cardReq[q].at = "idle"
         /\ \A r \in CardRequest \ {q} : cardReq'[r] = cardReq[r]
<1>0. CardTypes
  BY DEF CardInv
<1>k. /\ ClientKey \subseteq Key /\ \A t \in Slot : <<"slot", t>> \in Key
      /\ \A i \in 1..MaxRows : <<"retry", i>> \in Key
  BY DEF Key
<1>c. NoCopy \in Copies /\ \A i \in DOMAIN rows : rows[i] \in Copies /\ i \in 1..MaxRows
  <2>1. NoCopy \in Copies
    BY PaymentsAssumption DEF NoCopy, Row, Copies
  <2>2. ASSUME NEW i \in DOMAIN rows
        PROVE  rows[i] \in Copies /\ i \in 1..MaxRows
    BY <1>0, PaymentsAssumption DEF CardTypes
  <2> QED
    BY <2>1, <2>2
<1>1. ASSUME NEW k \in ClientKey \cup {NoHeader}, SubmitPayment(q, k)
      PROVE  /\ CardTypes' /\ Placed(cardReq'[q]) /\ cardReq[q].at = "idle"
             /\ UNCHANGED <<rows, captured, refunded, marker, cardFaults>>
             /\ \A r \in CardRequest \ {q} : cardReq'[r] = cardReq[r]
  <2> DEFINE l == IF k = NoHeader THEN "lookup" ELSE "begin"
  <2> DEFINE s == [at |-> l, job |-> "client", key |-> k, copy |-> NoCopy, id |-> 0, n |-> 0]
  <2>1. CardStart(q, l, "client", k, NoCopy, 0, 0)
    BY <1>1 DEF SubmitPayment
  <2>2. s \in CardReqs /\ Placed(s)
    BY <1>k, <1>c, PaymentsAssumption DEF CardReqs, Placed, Working, Locking, Copying
  <2>3. /\ cardReq' \in [CardRequest -> CardReqs] /\ cardStarted' \in 0..MaxCardRequests
        /\ cardReq[q].at = "idle" /\ cardReq'[q] = s
        /\ \A r \in CardRequest \ {q} : cardReq'[r] = cardReq[r]
    BY <1>0, <2>1, <2>2, CardStarts
  <2> QED
    BY <1>0, <1>1, <2>2, <2>3 DEF SubmitPayment, CardTypes, gateway
<1>2. ASSUME FindSchedule(q)
      PROVE  /\ CardTypes' /\ Placed(cardReq'[q]) /\ cardReq[q].at = "idle"
             /\ UNCHANGED <<rows, captured, refunded, marker, cardFaults>>
             /\ \A r \in CardRequest \ {q} : cardReq'[r] = cardReq[r]
  <2> DEFINE l == IF hasMethod THEN "begin" ELSE "noMethod"
  <2> DEFINE k == <<"slot", schedule.slot>>
  <2> DEFINE s == [at |-> l, job |-> "schedule", key |-> k, copy |-> schedule, id |-> 0, n |-> 0]
  <2>1. CardStart(q, l, "schedule", k, schedule, 0, 0) /\ schedule.slot <= MaxSlot
    BY <1>2 DEF FindSchedule
  <2>2. s \in CardReqs /\ Placed(s)
    <3>1. schedule \in Schedules /\ k \in Key
      BY <1>0, <1>k DEF CardTypes, Schedules
    <3> QED
      BY <2>1, <3>1, PaymentsAssumption DEF CardReqs, Placed, Working, Locking, Copying
  <2>3. /\ cardReq' \in [CardRequest -> CardReqs] /\ cardStarted' \in 0..MaxCardRequests
        /\ cardReq[q].at = "idle" /\ cardReq'[q] = s
        /\ \A r \in CardRequest \ {q} : cardReq'[r] = cardReq[r]
    <3> HIDE DEF l, k
    <3> QED
      BY <1>0, <2>1, <2>2, CardStarts
  <2> QED
    BY <1>0, <1>2, <2>2, <2>3 DEF FindSchedule, CardTypes, gateway
<1>3. ASSUME ReadScheduleToEdit(q)
      PROVE  /\ CardTypes' /\ Placed(cardReq'[q]) /\ cardReq[q].at = "idle"
             /\ UNCHANGED <<rows, captured, refunded, marker, cardFaults>>
             /\ \A r \in CardRequest \ {q} : cardReq'[r] = cardReq[r]
  <2> DEFINE s == [at |-> "edit", job |-> "edit", key |-> NoHeader, copy |-> schedule,
                   id |-> 0, n |-> 0]
  <2>1. CardStart(q, "edit", "edit", NoHeader, schedule, 0, 0)
    BY <1>3 DEF ReadScheduleToEdit
  <2>2. s \in CardReqs /\ Placed(s)
    BY <1>0, PaymentsAssumption DEF CardTypes, CardReqs, Placed, Working, Locking, Copying
  <2>3. /\ cardReq' \in [CardRequest -> CardReqs] /\ cardStarted' \in 0..MaxCardRequests
        /\ cardReq[q].at = "idle" /\ cardReq'[q] = s
        /\ \A r \in CardRequest \ {q} : cardReq'[r] = cardReq[r]
    BY <1>0, <2>1, <2>2, CardStarts
  <2> QED
    BY <1>0, <1>3, <2>2, <2>3 DEF ReadScheduleToEdit, CardTypes, gateway
<1>4. ASSUME NEW i \in DOMAIN rows, FindFailed(q, i)
      PROVE  /\ CardTypes' /\ Placed(cardReq'[q]) /\ cardReq[q].at = "idle"
             /\ UNCHANGED <<rows, captured, refunded, marker, cardFaults>>
             /\ \A r \in CardRequest \ {q} : cardReq'[r] = cardReq[r]
  <2> DEFINE k == <<"retry", i>>
  <2> DEFINE s == [at |-> "checkRetry", job |-> "retry", key |-> k, copy |-> rows[i],
                   id |-> i, n |-> 0]
  <2>1. CardStart(q, "checkRetry", "retry", k, rows[i], i, 0)
    BY <1>4 DEF FindFailed
  <2>2. s \in CardReqs /\ Placed(s)
    <3>1. k \in Key /\ rows[i] \in Copies /\ i \in 1..MaxRows
      BY <1>c, <1>k
    <3> HIDE DEF k
    <3> QED
      BY <3>1, PaymentsAssumption DEF CardReqs, Placed, Working, Locking, Copying
  <2>3. /\ cardReq' \in [CardRequest -> CardReqs] /\ cardStarted' \in 0..MaxCardRequests
        /\ cardReq[q].at = "idle" /\ cardReq'[q] = s
        /\ \A r \in CardRequest \ {q} : cardReq'[r] = cardReq[r]
    <3> HIDE DEF k
    <3> QED
      BY <1>0, <2>1, <2>2, CardStarts
  <2> QED
    BY <1>0, <1>4, <2>2, <2>3 DEF FindFailed, CardTypes, gateway
<1>5. ASSUME NEW i \in DOMAIN rows, BeginCardRefund(q, i)
      PROVE  /\ CardTypes' /\ Placed(cardReq'[q]) /\ cardReq[q].at = "idle"
             /\ UNCHANGED <<rows, captured, refunded, marker, cardFaults>>
             /\ \A r \in CardRequest \ {q} : cardReq'[r] = cardReq[r]
  <2>1. PICK a \in 1..(Amount - rows[i].refundAmount) :
          CardStart(q, "refund", "refund", NoHeader, rows[i], i, a)
    BY <1>5 DEF BeginCardRefund
  <2> DEFINE s == [at |-> "refund", job |-> "refund", key |-> NoHeader, copy |-> rows[i],
                   id |-> i, n |-> a]
  <2>2. s \in CardReqs /\ Placed(s)
    <3>1. rows[i] \in Copies /\ i \in 1..MaxRows
      BY <1>c
    <3>2. a \in 0..(Amount + MaxRows)
      BY <3>1, PaymentsAssumption DEF Copies
    <3> QED
      BY <3>1, <3>2, PaymentsAssumption DEF CardReqs, Placed, Working, Locking, Copying
  <2>3. /\ cardReq' \in [CardRequest -> CardReqs] /\ cardStarted' \in 0..MaxCardRequests
        /\ cardReq[q].at = "idle" /\ cardReq'[q] = s
        /\ \A r \in CardRequest \ {q} : cardReq'[r] = cardReq[r]
    BY <1>0, <2>1, <2>2, CardStarts
  <2> QED
    BY <1>0, <1>5, <2>2, <2>3 DEF BeginCardRefund, CardTypes, gateway
<1>6. ASSUME NEW i \in DOMAIN rows, ReadForWebhook(q, i)
      PROVE  /\ CardTypes' /\ Placed(cardReq'[q]) /\ cardReq[q].at = "idle"
             /\ UNCHANGED <<rows, captured, refunded, marker, cardFaults>>
             /\ \A r \in CardRequest \ {q} : cardReq'[r] = cardReq[r]
  <2> DEFINE s == [at |-> "webhook", job |-> "webhook", key |-> NoHeader, copy |-> rows[i],
                   id |-> i, n |-> 0]
  <2>1. CardStart(q, "webhook", "webhook", NoHeader, rows[i], i, 0)
    BY <1>6 DEF ReadForWebhook
  <2>2. s \in CardReqs /\ Placed(s)
    BY <1>c, PaymentsAssumption DEF CardReqs, Placed, Working, Locking, Copying
  <2>3. /\ cardReq' \in [CardRequest -> CardReqs] /\ cardStarted' \in 0..MaxCardRequests
        /\ cardReq[q].at = "idle" /\ cardReq'[q] = s
        /\ \A r \in CardRequest \ {q} : cardReq'[r] = cardReq[r]
    BY <1>0, <2>1, <2>2, CardStarts
  <2>4. events' \in 0..MaxEvents
    BY <1>0, <1>6, PaymentsAssumption DEF ReadForWebhook, CardTypes
  <2> QED
    BY <1>0, <1>6, <2>2, <2>3, <2>4 DEF ReadForWebhook, CardTypes, gateway
<1> QED
  BY <1>1, <1>2, <1>3, <1>4, <1>5, <1>6

\* What a request brings back has a type: it ends, goes on, or has moved the
\* schedule on.
LEMMA EndTypes ==
  ASSUME CardTypes, NEW q \in CardRequest, CardEnd(q)
  PROVE  /\ cardReq' \in [CardRequest -> CardReqs] /\ Placed(cardReq'[q])
         /\ \A r \in CardRequest \ {q} : cardReq'[r] = cardReq[r]
BY CardEnds DEF CardIdle, Placed, Working, Locking, Copying

\* A request that stays at the same kind of work is still where its job may be.
LEMMA StaysPlaced ==
  ASSUME NEW r, NEW s, Placed(r), r.at # "threw",
         s.job = r.job /\ s.key = r.key /\ s.copy = r.copy /\ s.id = r.id,
         \/ s.at \in Working /\ r.job \in {"client", "schedule", "retry"}
         \/ s.at = "begin" /\ r.job = "retry" /\ r.key \in Key
         \/ s.at = "returned" /\ r.job \in {"schedule", "retry"}
  PROVE  Placed(s)
BY DEF Placed, Working, Locking, Copying

\* A call that returns or throws ends, or hands back to the schedule or retry job.
LEMMA ReturnTypes ==
  ASSUME CardTypes, NEW q \in CardRequest, Placed(cardReq[q]),
         cardReq[q].at \in Working \cup {"begin"}, Return(q) \/ Throw(q)
  PROVE  /\ cardReq' \in [CardRequest -> CardReqs] /\ Placed(cardReq'[q])
         /\ \A r \in CardRequest \ {q} : cardReq'[r] = cardReq[r]
         /\ \/ CardEnd(q)
            \/ CardGoto(q, "returned") /\ cardReq[q].job # "client"
            \/ CardGoto(q, "threw") /\ cardReq[q].job = "schedule"
<1>1. CASE CardEnd(q)
  BY <1>1, EndTypes
<1>2. CASE CardGoto(q, "returned") /\ cardReq[q].job # "client"
  <2>1. cardReq[q].job \in {"schedule", "retry"} /\ cardReq[q].at # "threw"
    BY <1>2 DEF Placed, Working
  <2>2. /\ cardReq' \in [CardRequest -> CardReqs] /\ cardReq'[q].at = "returned"
        /\ cardReq'[q].job = cardReq[q].job /\ cardReq'[q].key = cardReq[q].key
        /\ cardReq'[q].copy = cardReq[q].copy /\ cardReq'[q].id = cardReq[q].id
        /\ \A r \in CardRequest \ {q} : cardReq'[r] = cardReq[r]
    BY <1>2, CardGoes
  <2>3. Placed(cardReq'[q])
    BY <2>1, <2>2, StaysPlaced
  <2> QED
    BY <1>2, <2>2, <2>3
<1>3. CASE CardGoto(q, "threw") /\ cardReq[q].job = "schedule"
  <2>1. cardReq[q].copy \in Schedules /\ cardReq[q].copy.slot <= MaxSlot
    BY <1>3 DEF Placed, Working
  <2>2. cardReq[q].copy.slot <= MaxSlot + Interval
    BY <2>1, PaymentsAssumption DEF Schedules, Slot
  <2>3. /\ cardReq' \in [CardRequest -> CardReqs] /\ cardReq'[q].at = "threw"
        /\ cardReq'[q].job = cardReq[q].job /\ cardReq'[q].key = cardReq[q].key
        /\ cardReq'[q].copy = cardReq[q].copy /\ cardReq'[q].id = cardReq[q].id
        /\ \A r \in CardRequest \ {q} : cardReq'[r] = cardReq[r]
    BY <1>3, CardGoes
  <2>4. cardReq[q].id = 0
    BY <1>3 DEF Placed, Copying
  <2>5. Placed(cardReq'[q])
    BY <1>3, <2>1, <2>2, <2>3, <2>4 DEF Placed, Working, Locking, Copying
  <2> QED
    BY <1>3, <2>3, <2>5
<1> QED
  BY <1>1, <1>2, <1>3 DEF Return, Throw

\* recordPayment goes on under the same job, key and copy.
LEMMA WorkTypes ==
  ASSUME CardTypes, NEW q \in CardRequest, Placed(cardReq[q]),
         NEW l \in Working \cup {"begin"}, CardGoto(q, l),
         \/ cardReq[q].at \in Working \cup {"begin"} /\ l \in Working
         \/ cardReq[q].at = "checkRetry" /\ l = "begin"
  PROVE  /\ cardReq' \in [CardRequest -> CardReqs] /\ Placed(cardReq'[q])
         /\ \A r \in CardRequest \ {q} : cardReq'[r] = cardReq[r]
<1>1. /\ cardReq[q].at # "threw"
      /\ \/ l \in Working /\ cardReq[q].job \in {"client", "schedule", "retry"}
         \/ l = "begin" /\ cardReq[q].job = "retry" /\ cardReq[q].key \in Key
  BY DEF Placed, Working
<1>2. /\ cardReq' \in [CardRequest -> CardReqs] /\ cardReq'[q].at = l
      /\ cardReq'[q].job = cardReq[q].job /\ cardReq'[q].key = cardReq[q].key
      /\ cardReq'[q].copy = cardReq[q].copy /\ cardReq'[q].id = cardReq[q].id
      /\ \A r \in CardRequest \ {q} : cardReq'[r] = cardReq[r]
  BY CardGoes
<1>3. Placed(cardReq'[q])
  BY <1>1, <1>2, StaysPlaced
<1> QED
  BY <1>2, <1>3

\* One request moved, and is in place.
CardMoved(q) ==
  /\ cardReq' \in [CardRequest -> CardReqs] /\ Placed(cardReq'[q])
  /\ \A r \in CardRequest \ {q} : cardReq'[r] = cardReq[r]

\* A captured charge is written down with the key it was made under.
LEMMA CaptureTypes ==
  ASSUME CardTypes, Len(captured) < MaxRows, NEW k \in Key \cup {NoHeader},
         captured' = Append(captured, k), refunded' = Append(refunded, 0)
  PROVE  /\ captured' \in Seq(Key \cup {NoHeader}) /\ Len(captured') <= MaxRows
         /\ refunded' \in Seq(Nat) /\ Len(refunded') = Len(captured')
         /\ Len(captured') = Len(captured) + 1
         /\ \A c \in DOMAIN captured : captured'[c] = captured[c] /\ refunded'[c] = refunded[c]
         /\ captured'[Len(captured) + 1] = k /\ refunded'[Len(captured) + 1] = 0
BY PaymentsAssumption DEF CardTypes

\* A row is added.
LEMMA InsertTypes ==
  ASSUME CardTypes, Len(rows) < MaxRows, NEW x \in Copies, rows' = Append(rows, x)
  PROVE  /\ rows' \in Seq(Copies) /\ Len(rows') <= MaxRows
         /\ Len(rows') = Len(rows) + 1 /\ rows'[Len(rows) + 1] = x
         /\ DOMAIN rows' = DOMAIN rows \cup {Len(rows) + 1} /\ Len(rows) + 1 \notin DOMAIN rows
         /\ \A i \in DOMAIN rows : rows'[i] = rows[i]
<1>0. rows \in Seq(Copies) /\ MaxRows \in Nat
  BY PaymentsAssumption DEF CardTypes
<1>1. rows' \in Seq(Copies) /\ Len(rows') = Len(rows) + 1
  BY <1>0
<1>2. DOMAIN rows = 1..Len(rows) /\ DOMAIN rows' = 1..(Len(rows) + 1) /\ Len(rows) \in Nat
  BY <1>0, <1>1
<1>3. rows'[Len(rows) + 1] = x /\ \A i \in DOMAIN rows : rows'[i] = rows[i]
  BY <1>0, <1>2
<1>4. DOMAIN rows' = DOMAIN rows \cup {Len(rows) + 1} /\ Len(rows) + 1 \notin DOMAIN rows
  BY <1>2
<1>5. Len(rows') <= MaxRows
  BY <1>0, <1>1, <1>2
<1> QED
  BY <1>1, <1>3, <1>4, <1>5

\* A row is written over.
LEMMA UpdateTypes ==
  ASSUME CardTypes, NEW i \in DOMAIN rows, NEW x \in Copies, rows' = [rows EXCEPT ![i] = x]
  PROVE  /\ rows' \in Seq(Copies) /\ Len(rows') <= MaxRows
         /\ DOMAIN rows' = DOMAIN rows /\ rows'[i] = x
         /\ \A j \in DOMAIN rows \ {i} : rows'[j] = rows[j]
<1>1. rows \in Seq(Copies) /\ i \in 1..Len(rows) /\ DOMAIN rows = 1..Len(rows)
  BY DEF CardTypes
<1>2. /\ rows' \in Seq(Copies) /\ Len(rows') = Len(rows)
      /\ \A j \in 1..Len(rows) : rows'[j] = IF j = i THEN x ELSE rows[j]
  BY <1>1, ExceptSeq
<1> QED
  BY <1>1, <1>2 DEF CardTypes

\* One fault, or none.
LEMMA FaultTypes ==
  ASSUME CardTypes, CardFault \/ NoCardFault
  PROVE  cardFaults' \in 0..MaxCardFaults /\ cardFaults' \in {cardFaults, cardFaults + 1}
<1>0. cardFaults \in 0..MaxCardFaults /\ MaxCardFaults \in Nat
  <2>1. MaxCardFaults \in Nat
    BY PaymentsAssumption
  <2> QED
    BY <2>1 DEF CardTypes
<1>1. CASE CardFault
  BY <1>0, <1>1 DEF CardFault
<1>2. CASE NoCardFault
  BY <1>0, <1>2 DEF NoCardFault
<1> QED
  BY <1>1, <1>2

\* The steps of a charge keep the types.
LEMMA ChargeTypes ==
  ASSUME CardInv, NEW q \in CardRequest, Charge(q)
  PROVE  CardTypes' /\ CardMoved(q)
<1> DEFINE r == cardReq[q]
<1>0. CardTypes /\ Placed(r) /\ r \in CardReqs /\ r.at = "charge" /\ r.key \in Key \cup {NoHeader}
      /\ Len(captured) < MaxRows
  BY DEF CardInv, Charge, CardAt, CardTypes, CardReqs
<1>1. CardFault \/ NoCardFault
  BY DEF Charge
<1>2. /\ captured' \in Seq(Key \cup {NoHeader}) /\ Len(captured') <= MaxRows
      /\ refunded' \in Seq(Nat) /\ Len(refunded') = Len(captured')
  <2>1. CASE captured' = Append(captured, r.key) /\ refunded' = Append(refunded, 0)
    BY <1>0, <2>1, CaptureTypes
  <2>2. CASE UNCHANGED gateway
    BY <1>0, <2>2 DEF CardTypes, gateway
  <2> QED
    BY <2>1, <2>2 DEF Charge
<1>3. CardMoved(q)
  <2>1. CASE cardReq' = [cardReq EXCEPT ![q].at = "save", ![q].n = Len(captured) + 1]
    <3> DEFINE s == [r EXCEPT !.at = "save", !.n = Len(captured) + 1]
    <3>1. Len(captured) + 1 \in 0..(Amount + MaxRows)
      BY <1>0, PaymentsAssumption DEF CardTypes
    <3>2. s \in CardReqs
      BY <1>0, <3>1 DEF CardReqs, Working
    <3>3. /\ s.job = r.job /\ s.key = r.key /\ s.copy = r.copy /\ s.id = r.id
          /\ s.at \in Working /\ r.job \in {"client", "schedule", "retry"}
      BY <1>0 DEF CardReqs, Placed, Working
    <3>4. Placed(s)
      <4> HIDE DEF s, r
      <4> QED
        BY <1>0, <3>3, StaysPlaced
    <3>5. cardReq' = [cardReq EXCEPT ![q] = s]
      BY <1>0, <2>1 DEF CardTypes
    <3> QED
      BY <1>0, <3>2, <3>4, <3>5 DEF CardTypes, CardMoved
  <2>2. ASSUME NEW l \in {"saveFailed", "release"}, CardGoto(q, l) PROVE CardMoved(q)
    BY <1>0, <2>2, WorkTypes DEF Working, CardMoved
  <2> QED
    BY <2>1, <2>2 DEF Charge
<1> QED
  BY <1>0, <1>1, <1>2, <1>3, FaultTypes DEF Charge, CardTypes, CardMoved

\* The steps that write rows keep the types.
LEMMA SaveTypes ==
  ASSUME CardInv, NEW q \in CardRequest, SaveCompleted(q) \/ SaveFailed(q)
  PROVE  CardTypes' /\ CardMoved(q)
<1> DEFINE r == cardReq[q]
<1>0. CardTypes /\ Placed(r) /\ r \in CardReqs /\ r.at \in Working /\ r.key \in Key \cup {NoHeader}
      /\ Len(rows) < MaxRows
  BY DEF CardInv, SaveCompleted, SaveFailed, CardAt, CardTypes, CardReqs, Working
<1>1. CardFault \/ NoCardFault
  BY DEF SaveCompleted, SaveFailed
<1>2. CardMoved(q)
  <2>1. CardGoto(q, "complete") \/ CardGoto(q, "release")
    BY DEF SaveCompleted, SaveFailed
  <2> QED
    BY <1>0, <2>1, WorkTypes DEF Working, CardMoved
<1>3. rows' \in Seq(Copies) /\ Len(rows') <= MaxRows
  <2>1. CASE SaveCompleted(q) /\ rows' = Append(rows, Completed(r.key, r.n))
    <3>1. r.n \in 0..MaxRows
      <4>1. r.at = "save"
        BY <2>1 DEF SaveCompleted, CardAt
      <4>2. r.n \in DOMAIN captured
        BY <4>1 DEF CardInv, Charges
      <4>3. captured \in Seq(Key \cup {NoHeader}) /\ Len(captured) <= MaxRows
        BY <1>0, Zenon DEF CardTypes
      <4> QED
        BY <4>2, <4>3, PaymentsAssumption
    <3>2. Completed(r.key, r.n) \in Copies
      BY <1>0, <3>1, PaymentsAssumption DEF Completed, Row, Copies
    <3> QED
      BY <1>0, <2>1, <3>2, InsertTypes
  <2>2. CASE rows' = Append(rows, Row("failed", r.key, 0))
    <3>1. Row("failed", r.key, 0) \in Copies
      BY <1>0, PaymentsAssumption DEF Row, Copies
    <3> QED
      BY <1>0, <2>2, <3>1, InsertTypes
  <2>3. CASE UNCHANGED rows
    BY <1>0, <2>3 DEF CardTypes
  <2> QED
    BY <2>1, <2>2, <2>3 DEF SaveCompleted, SaveFailed
<1> QED
  BY <1>0, <1>1, <1>2, <1>3, FaultTypes DEF SaveCompleted, SaveFailed, CardTypes, CardMoved, gateway

\* The row a request writes back is its copy, but for the status, and keeps key
\* and charge.
Rewrites(q, x) ==
  /\ cardReq[q].id \in DOMAIN rows /\ x \in Copies
  /\ x.key = rows[cardReq[q].id].key /\ x.charge = rows[cardReq[q].id].charge
  /\ rows' = [rows EXCEPT ![cardReq[q].id] = x]

\* A save of a request's copy rewrites one row, and keeps its key and its charge.
LEMMA RewrittenTypes ==
  ASSUME CardTypes, NEW q, NEW x, Rewrites(q, x)
  PROVE  /\ rows' \in Seq(Copies) /\ Len(rows') <= MaxRows /\ DOMAIN rows' = DOMAIN rows
         /\ rows'[cardReq[q].id] = x
         /\ \A j \in DOMAIN rows \ {cardReq[q].id} : rows'[j] = rows[j]
         /\ \A j \in DOMAIN rows : rows'[j].key = rows[j].key /\ rows'[j].charge = rows[j].charge
<1>1. /\ rows' \in Seq(Copies) /\ Len(rows') <= MaxRows /\ DOMAIN rows' = DOMAIN rows
      /\ rows'[cardReq[q].id] = x
      /\ \A j \in DOMAIN rows \ {cardReq[q].id} : rows'[j] = rows[j]
  BY UpdateTypes DEF Rewrites
<1> QED
  BY <1>1 DEF Rewrites

\* The saves of the retry job, of a refund and of a webhook, and whose row they write.
LEMMA RewriteTypes ==
  ASSUME CardInv, NEW q \in CardRequest,
         CountRetry(q) \/ CommitRefund(q) \/ SaveWebhook(q)
  PROVE  /\ CardTypes' /\ CardMoved(q) /\ CardEnd(q)
         /\ cardReq[q].job \in Copying
         /\ \/ UNCHANGED rows /\ CommitRefund(q) /\ CardFault
            \/ /\ NoCardFault
               /\ \/ CountRetry(q) /\ Rewrites(q, cardReq[q].copy)
                  \/ CommitRefund(q) /\ \E t \in {"refunded", "partial_refund"} :
                       Rewrites(q, [cardReq[q].copy EXCEPT !.status = t])
                  \/ SaveWebhook(q) /\ \E t \in {"pending", "completed", "refunded"} :
                       Rewrites(q, [cardReq[q].copy EXCEPT !.status = t])
<1> DEFINE r == cardReq[q]
<1>0. CardTypes /\ Placed(r) /\ r \in CardReqs
  BY DEF CardInv, CardTypes
<1>1. r.job \in Copying
  BY <1>0 DEF CountRetry, CommitRefund, SaveWebhook, CardAt, Placed, Copying, Locking
<1>2. /\ r.id \in DOMAIN rows /\ r.copy \in Copies
      /\ r.copy.key = rows[r.id].key /\ r.copy.charge = rows[r.id].charge
  BY <1>1 DEF CardInv, Copied, CopyTrue
<1>3. CardEnd(q) /\ CardMoved(q)
  BY <1>0, EndTypes DEF CountRetry, CommitRefund, SaveWebhook, CardMoved
<1>4. CASE CountRetry(q)
  <2>1. Rewrites(q, r.copy)
    BY <1>2, <1>4 DEF CountRetry, Rewrites
  <2>2. CardTypes'
    BY <1>0, <1>3, <1>4, <2>1, RewrittenTypes
       DEF CountRetry, CardTypes, CardMoved, gateway
  <2> QED
    BY <1>1, <1>3, <1>4, <2>1, <2>2 DEF CountRetry, NoCardFault
<1>5. CASE CommitRefund(q)
  <2>1. CASE UNCHANGED rows /\ CardFault
    <3>1. CardTypes'
      BY <1>0, <1>3, <1>5, <2>1, FaultTypes DEF CommitRefund, CardTypes, CardMoved, gateway
    <3> QED
      BY <1>1, <1>3, <1>5, <2>1, <3>1
  <2>2. CASE ~(UNCHANGED rows /\ CardFault)
    <3> DEFINE total == Concatenated(r.copy.refundAmount, r.n)
    <3> DEFINE t == IF total >= Amount THEN "refunded" ELSE "partial_refund"
    <3>1. rows' = [rows EXCEPT ![r.id] = [r.copy EXCEPT !.refundAmount = total, !.status = t]]
          /\ NoCardFault
      BY <1>5, <2>2 DEF CommitRefund
    <3>2. t \in {"refunded", "partial_refund"}
      OBVIOUS
    <3>3. Rewrites(q, [r.copy EXCEPT !.status = t])
      <4>1. [r.copy EXCEPT !.refundAmount = total, !.status = t] = [r.copy EXCEPT !.status = t]
        <5>1. total = r.copy.refundAmount /\ r.copy \in Copies
          BY <1>2 DEF Concatenated
        <5> HIDE DEF t, total, r
        <5> QED
          BY <3>2, <5>1 DEF Copies
      <4>2. /\ [r.copy EXCEPT !.status = t] \in Copies
            /\ [r.copy EXCEPT !.status = t].key = r.copy.key
            /\ [r.copy EXCEPT !.status = t].charge = r.copy.charge
        <5>1. r.copy \in Copies
          BY <1>2
        <5> HIDE DEF t, r
        <5> QED
          BY <3>2, <5>1 DEF Copies
      <4> HIDE DEF t, total
      <4> QED
        BY <1>2, <3>1, <4>1, <4>2 DEF Rewrites
    <3>4. CardTypes'
      <4> HIDE DEF t, total
      <4> QED
        BY <1>0, <1>3, <1>5, <3>1, <3>3, RewrittenTypes
           DEF CommitRefund, NoCardFault, CardTypes, CardMoved, gateway
    <3> HIDE DEF t, total
    <3> QED
      BY <1>1, <1>3, <1>5, <3>1, <3>2, <3>3, <3>4
  <2> QED
    BY <2>1, <2>2
<1>6. CASE SaveWebhook(q)
  <2>1. PICK t \in WebhookStatus(r.copy.charge) : rows' = [rows EXCEPT ![r.id] = [r.copy EXCEPT !.status = t]]
    BY <1>6 DEF SaveWebhook
  <2>2. t \in {"pending", "completed", "refunded"}
    BY <2>1 DEF WebhookStatus
  <2>3. Rewrites(q, [r.copy EXCEPT !.status = t])
    <3>1. /\ [r.copy EXCEPT !.status = t] \in Copies
          /\ [r.copy EXCEPT !.status = t].key = r.copy.key
          /\ [r.copy EXCEPT !.status = t].charge = r.copy.charge
      BY <1>2, <2>2 DEF Copies
    <3> QED
      BY <1>2, <2>1, <3>1 DEF Rewrites
  <2>4. CardTypes'
    BY <1>0, <1>3, <1>6, <2>3, RewrittenTypes
       DEF SaveWebhook, CardTypes, CardMoved, gateway
  <2> QED
    BY <1>1, <1>3, <1>6, <2>2, <2>3, <2>4 DEF SaveWebhook, NoCardFault
<1> QED
  BY <1>4, <1>5, <1>6

\* The steps of @Idempotent and the lookup keep the types.
LEMMA KeyTypes ==
  ASSUME CardInv, NEW q \in CardRequest,
         Begin(q) \/ LookupRow(q) \/ Complete(q) \/ Release(q) \/ CheckRetry(q)
  PROVE  CardTypes' /\ CardMoved(q)
<1>0. CardTypes /\ Placed(cardReq[q]) /\ cardReq[q] \in CardReqs
      /\ cardReq[q].at \in Working \cup {"begin", "checkRetry"}
  BY DEF CardInv, CardTypes, Begin, LookupRow, Complete, Release, CheckRetry, CardAt, Working
<1>1. \A m \in {"free", "running", "done"} :
        Mark(cardReq[q].key, m) => marker' \in [Key -> {"free", "running", "done"}]
  BY <1>0 DEF CardTypes, CardReqs, Mark
<1>2. CASE Begin(q)
  <2>1. cardReq[q].at = "begin"
    BY <1>2 DEF Begin, CardAt
  <2>2. CardMoved(q)
    <3>1. CASE CardGoto(q, "lookup")
      BY <1>0, <2>1, <3>1, WorkTypes DEF Working, CardMoved
    <3>2. CASE Return(q) \/ Throw(q)
      BY <1>0, <2>1, <3>2, ReturnTypes DEF CardMoved
    <3> QED
      BY <1>2, <3>1, <3>2 DEF Begin
  <2>3. marker' \in [Key -> {"free", "running", "done"}]
    <3>1. marker' = marker \/ Mark(cardReq[q].key, "running")
      BY <1>2 DEF Begin
    <3> QED
      BY <1>0, <1>1, <3>1 DEF CardTypes
  <2> QED
    BY <1>0, <1>2, <2>2, <2>3 DEF Begin, CardTypes, CardMoved, gateway
<1>3. CASE LookupRow(q)
  <2>1. \E l \in Working : CardGoto(q, l)
    BY <1>3 DEF LookupRow, Working
  <2>2. cardReq[q].at \in Working
    BY <1>3 DEF LookupRow, CardAt, Working
  <2>3. CardMoved(q)
    BY <1>0, <2>1, <2>2, WorkTypes DEF CardMoved
  <2> QED
    BY <1>0, <1>3, <2>3 DEF LookupRow, CardTypes, CardMoved, gateway
<1>4. CASE Complete(q) \/ Release(q)
  <2>1. cardReq[q].at \in Working /\ (Return(q) \/ Throw(q))
    BY <1>4 DEF Complete, Release, CardAt, Working
  <2>2. CardMoved(q)
    BY <1>0, <2>1, ReturnTypes DEF CardMoved
  <2>3. marker' \in [Key -> {"free", "running", "done"}]
    BY <1>1, <1>4 DEF Complete, Release
  <2> QED
    BY <1>0, <1>4, <2>2, <2>3 DEF Complete, Release, CardTypes, CardMoved, gateway
<1>5. CASE CheckRetry(q)
  <2>1. CardEnd(q) \/ (CardGoto(q, "begin") /\ cardReq[q].at = "checkRetry")
    BY <1>5 DEF CheckRetry, CardAt
  <2>2. CardMoved(q)
    BY <1>0, <2>1, EndTypes, WorkTypes DEF CardMoved
  <2> QED
    BY <1>0, <1>5, <2>2 DEF CheckRetry, CardTypes, CardMoved, gateway
<1> QED
  BY <1>2, <1>3, <1>4, <1>5

\* The steps of the schedule keep the types, and end the request but for one.
LEMMA PlanTypes ==
  ASSUME CardInv, NEW q \in CardRequest,
         ScheduleWithoutMethod(q) \/ AdvanceSchedule(q) \/ DelaySchedule(q) \/ EditSchedule(q)
  PROVE  /\ CardTypes' /\ CardMoved(q)
         /\ UNCHANGED <<rows, captured, refunded, marker>>
         /\ cardReq'[q].at \in {"idle", "threw"} /\ cardReq'[q].job \notin Copying
<1> DEFINE r == cardReq[q]
<1>0. CardTypes /\ Placed(r) /\ r \in CardReqs
  BY DEF CardInv, CardTypes
<1>e. CardEnd(q) => CardMoved(q) /\ cardReq'[q].at = "idle" /\ cardReq'[q].job = "none"
  BY <1>0, CardEnds, EndTypes DEF CardMoved, CardIdle
<1>f. cardFaults' \in 0..MaxCardFaults
  <2>1. CardFault \/ NoCardFault
    BY DEF ScheduleWithoutMethod, AdvanceSchedule, DelaySchedule, EditSchedule, NoCardFault
  <2> QED
    BY <1>0, <2>1, FaultTypes
<1>1. CASE ScheduleWithoutMethod(q)
  <2>1. r.copy \in Schedules
    BY <1>0, <1>1 DEF ScheduleWithoutMethod, CardAt, Placed
  <2>2. schedule' \in Schedules /\ CardEnd(q)
    BY <1>1, <2>1, ScheduleTypes DEF ScheduleWithoutMethod
  <2> QED
    BY <1>0, <1>1, <1>e, <1>f, <2>2
       DEF ScheduleWithoutMethod, CardTypes, CardMoved, gateway, Copying
<1>2. CASE AdvanceSchedule(q)
  <2> DEFINE next == [r.copy EXCEPT !.retries = 0, !.slot = @ + Interval]
  <2>1. r.copy \in Schedules /\ r.copy.slot <= MaxSlot /\ r.job = "schedule" /\ r.at = "returned"
    BY <1>0, <1>2 DEF AdvanceSchedule, CardAt, Placed
  <2>2. next \in Schedules /\ next.slot <= MaxSlot + Interval
    BY <2>1, ScheduleTypes
  <2>3. schedule' \in Schedules
    BY <1>0, <1>2, <2>2 DEF AdvanceSchedule, CardTypes
  <2>4. CASE CardEnd(q)
    BY <1>0, <1>2, <1>e, <1>f, <2>3, <2>4
       DEF AdvanceSchedule, CardTypes, CardMoved, gateway, Copying
  <2>5. CASE cardReq' = [cardReq EXCEPT ![q].at = "threw", ![q].copy = next]
    <3> DEFINE s == [r EXCEPT !.at = "threw", !.copy = next]
    <3>1. s \in CardReqs /\ s.at = "threw" /\ s.job = "schedule" /\ s.copy = next /\ s.id = r.id
      <4> HIDE DEF next
      <4> QED
        BY <1>0, <2>1, <2>2 DEF CardReqs
    <3>2. r.id = 0
      BY <1>0, <2>1 DEF Placed, Copying
    <3>3. Placed(s)
      <4> HIDE DEF s, next
      <4> QED
        BY <2>2, <3>1, <3>2 DEF Placed, Working, Locking, Copying
    <3>4. cardReq' = [cardReq EXCEPT ![q] = s]
      <4> HIDE DEF next
      <4> QED
        BY <1>0, <2>5 DEF CardTypes
    <3>5. CardMoved(q) /\ cardReq'[q] = s
      <4> HIDE DEF s
      <4> QED
        BY <1>0, <3>1, <3>3, <3>4 DEF CardTypes, CardMoved
    <3> HIDE DEF s
    <3> QED
      BY <1>0, <1>2, <1>f, <2>3, <3>1, <3>5
         DEF AdvanceSchedule, CardTypes, CardMoved, gateway, Copying
  <2> QED
    BY <1>2, <2>4, <2>5 DEF AdvanceSchedule
<1>3. CASE DelaySchedule(q)
  <2>1. r.copy \in Schedules /\ r.copy.slot <= MaxSlot + Interval
    BY <1>0, <1>3 DEF DelaySchedule, CardAt, Placed
  <2>2. schedule' \in Schedules /\ CardEnd(q)
    BY <1>0, <1>3, <2>1, ScheduleTypes DEF DelaySchedule, CardTypes
  <2> QED
    BY <1>0, <1>3, <1>e, <1>f, <2>2 DEF DelaySchedule, CardTypes, CardMoved, gateway, Copying
<1>4. CASE EditSchedule(q)
  <2>1. r.copy \in Schedules
    BY <1>0, <1>4 DEF EditSchedule, CardAt, Placed
  <2>2. schedule' \in Schedules /\ CardEnd(q)
    BY <1>4, <2>1, ScheduleTypes DEF EditSchedule
  <2> QED
    BY <1>0, <1>4, <1>e, <1>f, <2>2 DEF EditSchedule, CardTypes, CardMoved, gateway, Copying
<1> QED
  BY <1>1, <1>2, <1>3, <1>4

-----------------------------------------------------------------------------
(* What one step leaves as it was.                                         *)

\* A request's next state s takes nothing that its state r did not have.
TakesNoKey(s, r) ==
  /\ s.at \in Working /\ s.key # NoHeader => r.at \in Working /\ s.key = r.key
  /\ s.at \in Charging /\ s.key # NoHeader => r.at \in Charging
TakesNoCharge(s, r) == s.at = "save" => r.at = "save" /\ s.n = r.n
TakesNoRow(s, r) ==
  /\ s.at \in Locking => r.at \in Locking
  /\ s.job \in Copying => s.job = r.job /\ s.id = r.id /\ s.copy = r.copy

\* A marker only changes when nobody is at work under its key.
LEMMA ReservedStays ==
  ASSUME Reserved, NEW q \in CardRequest, CardMoved(q), TakesNoKey(cardReq'[q], cardReq[q]),
         \A p \in CardRequest :
           HoldsKey(p)' => marker'[cardReq[p].key] = marker[cardReq[p].key]
  PROVE  Reserved'
<1>1. \A p \in CardRequest : HoldsKey(p)' => HoldsKey(p) /\ cardReq'[p].key = cardReq[p].key
  BY DEF CardMoved, TakesNoKey, HoldsKey
<1>2. \A p \in CardRequest : HoldsKey(p)' => marker'[cardReq'[p].key] = "running"
  BY <1>1 DEF Reserved
<1> QED
  BY <1>1, <1>2 DEF Reserved

\* No row appears under a key that is being charged.
LEMMA UnrecordedStays ==
  ASSUME Unrecorded, NEW q \in CardRequest, CardMoved(q), TakesNoKey(cardReq'[q], cardReq[q]),
         \A p \in CardRequest, k \in Key \cup {NoHeader} :
           cardReq'[p].at \in Charging /\ cardReq'[p].key = k /\ k # NoHeader /\ ~HasRow(k)
             => ~HasRow(k)'
  PROVE  Unrecorded'
<1>1. ASSUME NEW p \in CardRequest, cardReq'[p].at \in Charging, NEW k, cardReq'[p].key = k,
             k # NoHeader
      PROVE  ~HasRow(k)'
  <2>1. cardReq[p].at \in Charging /\ cardReq[p].key = k /\ k \in Key \cup {NoHeader}
    BY <1>1 DEF CardMoved, TakesNoKey, Working, Charging, CardReqs
  <2>2. ~HasRow(k)
    BY <1>1, <2>1 DEF Unrecorded
  <2> QED
    BY <1>1, <2>1, <2>2
<1> QED
  BY <1>1 DEF Unrecorded, HasRow

\* Rows keep their keys and charges, whatever else is written into them.
RowsKept ==
  /\ DOMAIN rows' = DOMAIN rows
  /\ \A i \in DOMAIN rows : rows'[i].key = rows[i].key /\ rows'[i].charge = rows[i].charge
  /\ \A i \in DOMAIN rows : rows'[i].status = "failed" => rows[i].charge = 0

\* Rows that keep their keys are found by the same keys.
LEMMA SameKeys ==
  ASSUME RowsKept, NEW k
  PROVE  HasRow(k)' <=> HasRow(k)
BY DEF RowsKept, HasRow

\* Who holds a charge does not change when nobody takes a key or a charge.
LEMMA ChargesStay ==
  ASSUME Charges, NEW q \in CardRequest, CardMoved(q), TakesNoCharge(cardReq'[q], cardReq[q]),
         RowsKept, captured' = captured
  PROVE  Charges'
BY DEF Charges, CardMoved, TakesNoCharge, RowsKept

\* Copies stay true, and locks exclusive, when no row is written or taken.
LEMMA CopiedStays ==
  ASSUME CardTypes, Copied, NEW q \in CardRequest, CardMoved(q), TakesNoRow(cardReq'[q], cardReq[q]),
         \A r \in CardRequest : Placed(cardReq[r]), rows' = rows
  PROVE  Copied'
<1>1. \A p \in CardRequest : CopyTrue(cardReq[p])'
  BY DEF Copied, CopyTrue, CardMoved, TakesNoRow
<1>2. \A p \in CardRequest : cardReq'[p].at \in Locking =>
        cardReq[p].at \in Locking /\ cardReq'[p].id = cardReq[p].id
  BY DEF CardMoved, TakesNoRow, Placed, Copying, Locking
<1> QED
  BY <1>1, <1>2 DEF Copied

\* A request that goes on with what it has, and leaves rows, charges and markers
\* alone, keeps the invariant.
LEMMA CardPasses ==
  ASSUME CardInv, CardTypes', NEW q \in CardRequest, CardMoved(q),
         UNCHANGED <<rows, captured, marker>>,
         TakesNoKey(cardReq'[q], cardReq[q]), TakesNoCharge(cardReq'[q], cardReq[q]),
         TakesNoRow(cardReq'[q], cardReq[q])
  PROVE  CardInv'
<1>0. RowsKept
  BY DEF RowsKept, CardInv, Charges
<1>1. Reserved'
  BY ReservedStays DEF CardInv
<1>2. Unrecorded'
  BY <1>0, SameKeys, UnrecordedStays DEF CardInv
<1>3. Charges'
  BY <1>0, ChargesStay DEF CardInv
<1>4. Copied'
  BY CopiedStays DEF CardInv
<1> QED
  BY <1>1, <1>2, <1>3, <1>4 DEF CardInv, CardMoved

\* A request that takes the copy of a row, or its lock, keeps the invariant.
LEMMA CardCopies ==
  ASSUME CardInv, CardTypes', NEW q \in CardRequest, CardMoved(q),
         UNCHANGED <<rows, captured, marker>>,
         TakesNoKey(cardReq'[q], cardReq[q]), TakesNoCharge(cardReq'[q], cardReq[q]),
         CopyTrue(cardReq[q])',
         cardReq'[q].at \in Locking => ~RowLocked(cardReq'[q].id)
  PROVE  CardInv'
<1>0. RowsKept
  BY DEF RowsKept, CardInv, Charges
<1>1. Reserved'
  BY ReservedStays DEF CardInv
<1>2. Unrecorded'
  BY <1>0, SameKeys, UnrecordedStays DEF CardInv
<1>3. Charges'
  BY <1>0, ChargesStay DEF CardInv
<1>4. Copied'
  <2>1. \A p \in CardRequest : CopyTrue(cardReq[p])'
    BY DEF CardInv, Copied, CopyTrue, CardMoved
  <2>2. cardReq'[q].at \in Locking =>
          \A p \in CardRequest \ {q} : cardReq[p].at \in Locking => cardReq[p].id # cardReq'[q].id
    BY DEF RowLocked, Locking
  <2>3. \A p, r \in CardRequest :
          (cardReq[p].at \in Locking /\ cardReq[r].at \in Locking /\ cardReq[p].id = cardReq[r].id
            => p = r)'
    BY <2>2 DEF CardInv, Copied, CardMoved
  <2> QED
    BY <2>1, <2>3 DEF Copied
<1> QED
  BY <1>1, <1>2, <1>3, <1>4 DEF CardInv, CardMoved

\* The steps that start a request keep the invariant.
LEMMA StartStep ==
  ASSUME CardInv, NEW q \in CardRequest,
         \/ \E k \in ClientKey \cup {NoHeader} : SubmitPayment(q, k)
         \/ FindSchedule(q) \/ ReadScheduleToEdit(q)
         \/ \E i \in DOMAIN rows : FindFailed(q, i) \/ BeginCardRefund(q, i) \/ ReadForWebhook(q, i)
  PROVE  CardInv'
<1>0. /\ CardTypes' /\ CardMoved(q) /\ UNCHANGED <<rows, captured, marker>>
      /\ CardTypes /\ cardReq[q].at = "idle"
  BY StartTypes DEF CardMoved, CardTypes, CardInv
<1>1. ASSUME NEW k \in ClientKey \cup {NoHeader}, SubmitPayment(q, k)
      PROVE  CardInv'
  <2>1. /\ cardReq'[q].at = IF k = NoHeader THEN "lookup" ELSE "begin"
        /\ cardReq'[q].key = k /\ cardReq'[q].job = "client"
    BY <1>0, <1>1 DEF SubmitPayment, CardStart, CardTypes
  <2>2. /\ TakesNoKey(cardReq'[q], cardReq[q]) /\ TakesNoCharge(cardReq'[q], cardReq[q])
        /\ TakesNoRow(cardReq'[q], cardReq[q])
    BY <2>1 DEF TakesNoKey, TakesNoCharge, TakesNoRow, Working, Charging, Locking, Copying
  <2> QED
    BY <1>0, <2>2, CardPasses
<1>2. ASSUME FindSchedule(q) \/ ReadScheduleToEdit(q)
      PROVE  CardInv'
  <2>1. /\ cardReq'[q].at \in {"begin", "noMethod", "edit"}
        /\ cardReq'[q].job \in {"schedule", "edit"}
    BY <1>0, <1>2 DEF FindSchedule, ReadScheduleToEdit, CardStart, CardTypes
  <2>2. /\ TakesNoKey(cardReq'[q], cardReq[q]) /\ TakesNoCharge(cardReq'[q], cardReq[q])
        /\ TakesNoRow(cardReq'[q], cardReq[q])
    BY <2>1 DEF TakesNoKey, TakesNoCharge, TakesNoRow, Working, Charging, Locking, Copying
  <2> QED
    BY <1>0, <2>2, CardPasses
<1>3. ASSUME NEW i \in DOMAIN rows, FindFailed(q, i) \/ BeginCardRefund(q, i) \/ ReadForWebhook(q, i)
      PROVE  CardInv'
  <2>0. rows[i] \in Copies
    BY <1>0 DEF CardTypes
  <2>1. /\ cardReq'[q].at \in {"checkRetry", "refund", "webhook"}
        /\ cardReq'[q].id = i /\ cardReq'[q].copy = rows[i]
        /\ cardReq'[q].job \in Copying
    BY <1>0, <1>3 DEF FindFailed, BeginCardRefund, ReadForWebhook, CardStart, CardTypes, Copying
  <2>2. cardReq'[q].job = "retry" <=> rows[i].charge = 0
    BY <1>0, <1>3 DEF FindFailed, BeginCardRefund, ReadForWebhook, CardStart, CardTypes, CardInv, Charges
  <2>3. cardReq'[q].at \in Locking => rows[i].status = "completed" /\ ~RowLocked(i)
    BY <1>0, <1>3 DEF FindFailed, BeginCardRefund, ReadForWebhook, CardStart, CardTypes, Locking
  <2>4. CopyTrue(cardReq[q])'
    BY <1>0, <2>0, <2>1, <2>2, <2>3 DEF CopyTrue
  <2>5. TakesNoKey(cardReq'[q], cardReq[q]) /\ TakesNoCharge(cardReq'[q], cardReq[q])
    BY <2>1 DEF TakesNoKey, TakesNoCharge, Working, Charging
  <2>6. cardReq'[q].at \in Locking => ~RowLocked(cardReq'[q].id)
    BY <2>1, <2>3
  <2> QED
    BY <1>0, <2>4, <2>5, <2>6, CardCopies
<1> QED
  BY <1>1, <1>2, <1>3

\* Ending, going on, and going back take nothing.
LEMMA EndTakes ==
  ASSUME CardTypes, NEW q \in CardRequest, CardEnd(q)
  PROVE  /\ TakesNoKey(cardReq'[q], cardReq[q]) /\ TakesNoCharge(cardReq'[q], cardReq[q])
         /\ TakesNoRow(cardReq'[q], cardReq[q])
BY CardEnds DEF TakesNoKey, TakesNoCharge, TakesNoRow, CardIdle, Working, Charging, Locking, Copying

\* A step within a flow takes no key, no charge and no row.
LEMMA GoTakes ==
  ASSUME CardTypes, NEW q \in CardRequest, NEW l, CardGoto(q, l),
         l \in {"complete", "release", "begin", "returned", "threw"},
         l \in Working => cardReq[q].at \in Working
  PROVE  /\ TakesNoKey(cardReq'[q], cardReq[q]) /\ TakesNoCharge(cardReq'[q], cardReq[q])
         /\ TakesNoRow(cardReq'[q], cardReq[q])
<1>1. cardReq'[q].at = l /\ cardReq'[q].job = cardReq[q].job /\ cardReq'[q].key = cardReq[q].key
      /\ cardReq'[q].copy = cardReq[q].copy /\ cardReq'[q].id = cardReq[q].id
  BY CardGoes DEF Working
<1> QED
  BY <1>1 DEF TakesNoKey, TakesNoCharge, TakesNoRow, Working, Charging, Locking, Copying

-----------------------------------------------------------------------------
(* Step by step.                                                           *)

\* The marker of a key is free before a request works under it: nobody else does.
LEMMA BeginStep ==
  ASSUME CardInv, NEW q \in CardRequest, Begin(q)
  PROVE  CardInv'
<1> DEFINE k == cardReq[q].key
<1>0. /\ CardTypes /\ CardTypes' /\ CardMoved(q) /\ UNCHANGED <<rows, captured>>
      /\ cardReq[q].at = "begin" /\ k \in Key /\ k # NoHeader
  BY KeyTypes, PaymentsAssumption DEF Begin, CardAt, CardInv, Placed, gateway
<1>1. CASE UNCHANGED marker /\ (Return(q) \/ Throw(q))
  <2>1. CardEnd(q) \/ \E l \in {"returned", "threw"} : CardGoto(q, l)
    BY <1>1 DEF Return, Throw
  <2>2. /\ TakesNoKey(cardReq'[q], cardReq[q]) /\ TakesNoCharge(cardReq'[q], cardReq[q])
        /\ TakesNoRow(cardReq'[q], cardReq[q])
    BY <1>0, <2>1, EndTakes, GoTakes DEF Working
  <2> QED
    BY <1>0, <1>1, <2>2, CardPasses
<1>2. CASE marker[k] = "free" /\ Mark(k, "running") /\ CardGoto(q, "lookup")
  <2>1. /\ cardReq'[q].at = "lookup" /\ cardReq'[q].job = cardReq[q].job /\ cardReq'[q].key = k
        /\ cardReq'[q].copy = cardReq[q].copy /\ cardReq'[q].id = cardReq[q].id
    BY <1>0, <1>2, CardGoes DEF Working
  <2>2. /\ marker'[k] = "running" /\ \A j \in Key \ {k} : marker'[j] = marker[j]
    BY <1>0, <1>2 DEF Mark, CardTypes
  <2>3. \A p \in CardRequest : HoldsKey(p) => cardReq[p].key # k /\ cardReq[p].key \in Key
    BY <1>0, <1>2 DEF CardInv, Reserved, HoldsKey, CardTypes, CardReqs
  <2>4. Reserved'
    <3>1. \A p \in CardRequest \ {q} : HoldsKey(p)' <=> HoldsKey(p)
      BY <1>0 DEF CardMoved, HoldsKey
    <3>2. \A p \in CardRequest : HoldsKey(p)' => marker'[cardReq'[p].key] = "running"
      BY <1>0, <2>1, <2>2, <2>3, <3>1 DEF CardMoved, CardInv, Reserved
    <3>3. \A p, r \in CardRequest :
            HoldsKey(p)' /\ HoldsKey(r)' /\ cardReq'[p].key = cardReq'[r].key => p = r
      BY <1>0, <2>1, <2>3, <3>1 DEF CardMoved, CardInv, Reserved
    <3> QED
      BY <3>2, <3>3 DEF Reserved
  <2>5. RowsKept
    BY <1>0 DEF RowsKept, CardInv, Charges
  <2>6. Unrecorded'
    BY <1>0, <2>1, <2>5, SameKeys DEF CardInv, Unrecorded, CardMoved, Charging, HasRow
  <2>7. Charges'
    BY <1>0, <2>1, <2>5, ChargesStay DEF CardInv, TakesNoCharge
  <2>8. Copied'
    <3>1. TakesNoRow(cardReq'[q], cardReq[q])
      BY <2>1 DEF TakesNoRow, Locking
    <3> QED
      BY <1>0, <3>1, CopiedStays DEF CardInv
  <2> QED
    BY <1>0, <2>4, <2>6, <2>7, <2>8 DEF CardInv, CardMoved
<1> QED
  BY <1>1, <1>2 DEF Begin

\* A key that has no row is charged, under its marker.
LEMMA LookupStep ==
  ASSUME CardInv, NEW q \in CardRequest, LookupRow(q)
  PROVE  CardInv'
<1>0. /\ CardTypes /\ CardTypes' /\ CardMoved(q) /\ UNCHANGED <<rows, captured, marker>>
      /\ cardReq[q].at = "lookup"
  BY KeyTypes DEF LookupRow, CardAt, CardInv, gateway
<1>1. ASSUME NEW l \in {"complete", "release"}, CardGoto(q, l)
      PROVE  CardInv'
  BY <1>0, <1>1, GoTakes, CardPasses DEF Working
<1>2. CASE CardGoto(q, "charge") /\ ~(cardReq[q].key # NoHeader /\ HasRow(cardReq[q].key))
  <2>1. /\ cardReq'[q].at = "charge" /\ cardReq'[q].job = cardReq[q].job
        /\ cardReq'[q].key = cardReq[q].key
        /\ cardReq'[q].copy = cardReq[q].copy /\ cardReq'[q].id = cardReq[q].id
    BY <1>0, <1>2, CardGoes DEF Working
  <2>2. Reserved'
    <3>1. \A p \in CardRequest : (HoldsKey(p)' <=> HoldsKey(p)) /\ cardReq'[p].key = cardReq[p].key
      BY <1>0, <2>1 DEF CardMoved, HoldsKey, Working
    <3> QED
      BY <1>0, <3>1 DEF CardInv, Reserved
  <2>3. Unrecorded'
    BY <1>0, <1>2, <2>1 DEF CardInv, Unrecorded, CardMoved, HasRow
  <2>4. RowsKept
    BY <1>0 DEF RowsKept, CardInv, Charges
  <2>5. Charges'
    BY <1>0, <2>1, <2>4, ChargesStay DEF CardInv, TakesNoCharge
  <2>6. Copied'
    <3>1. TakesNoRow(cardReq'[q], cardReq[q])
      BY <2>1 DEF TakesNoRow, Locking
    <3> QED
      BY <1>0, <3>1, CopiedStays DEF CardInv
  <2> QED
    BY <1>0, <2>2, <2>3, <2>5, <2>6 DEF CardInv, CardMoved
<1> QED
  BY <1>1, <1>2 DEF LookupRow

\* A captured charge is new, and its request's.
LEMMA ChargeStep ==
  ASSUME CardInv, NEW q \in CardRequest, Charge(q)
  PROVE  CardInv'
<1> DEFINE n == Len(captured) + 1
<1>0. /\ CardTypes /\ CardTypes' /\ CardMoved(q) /\ UNCHANGED <<rows, marker>>
      /\ cardReq[q].at = "charge" /\ Len(captured) < MaxRows /\ Len(captured) \in Nat
      /\ cardReq[q].key \in Key \cup {NoHeader}
  <2>1. CardTypes /\ CardTypes' /\ CardMoved(q)
    BY ChargeTypes DEF CardInv
  <2>2. /\ UNCHANGED <<rows, marker>> /\ cardReq[q].at = "charge" /\ Len(captured) < MaxRows
    BY DEF Charge, CardAt
  <2> QED
    BY <2>1, <2>2 DEF CardTypes, CardReqs
<1>c. captured \in Seq(Key \cup {NoHeader}) /\ DOMAIN captured = 1..Len(captured)
  BY <1>0 DEF CardTypes
<1>1. /\ cardReq'[q].at \in {"save", "saveFailed", "release"}
      /\ cardReq'[q].job = cardReq[q].job /\ cardReq'[q].key = cardReq[q].key
      /\ cardReq'[q].copy = cardReq[q].copy /\ cardReq'[q].id = cardReq[q].id
      /\ \/ captured' = captured /\ cardReq'[q].at # "save"
         \/ /\ DOMAIN captured' = 1..n /\ Len(captured') = n
            /\ cardReq'[q].at = "save" => cardReq'[q].n = n
  <2>1. captured' = captured \/ captured' = Append(captured, cardReq[q].key)
    BY DEF Charge, gateway
  <2>2. captured' = captured \/ (DOMAIN captured' = 1..n /\ Len(captured') = n)
    BY <1>0, <1>c, <2>1
  <2>3. \/ captured' = Append(captured, cardReq[q].key) /\
             cardReq' = [cardReq EXCEPT ![q].at = "save", ![q].n = Len(captured) + 1]
        \/ CardGoto(q, "saveFailed") \/ CardGoto(q, "release")
    BY DEF Charge
  <2>4. ASSUME NEW l \in {"saveFailed", "release"}, CardGoto(q, l)
        PROVE  /\ cardReq'[q].at = l
               /\ cardReq'[q].job = cardReq[q].job /\ cardReq'[q].key = cardReq[q].key
               /\ cardReq'[q].copy = cardReq[q].copy /\ cardReq'[q].id = cardReq[q].id
    BY <1>0, <2>4, CardGoes DEF Working
  <2>5. CASE /\ captured' = Append(captured, cardReq[q].key)
             /\ cardReq' = [cardReq EXCEPT ![q].at = "save", ![q].n = Len(captured) + 1]
    <3>1. cardReq[q] \in CardReqs /\ cardReq \in [CardRequest -> CardReqs]
      BY <1>0 DEF CardTypes
    <3>2. /\ cardReq'[q].at = "save" /\ cardReq'[q].n = Len(captured) + 1
          /\ cardReq'[q].job = cardReq[q].job /\ cardReq'[q].key = cardReq[q].key
          /\ cardReq'[q].copy = cardReq[q].copy /\ cardReq'[q].id = cardReq[q].id
      BY <2>5, <3>1 DEF CardReqs
    <3>3. DOMAIN captured' = 1..n /\ Len(captured') = n
      BY <1>0, <1>c, <2>5
    <3> QED
      BY <3>2, <3>3
  <2> QED
    BY <2>2, <2>3, <2>4, <2>5
<1>2. \/ captured' = captured /\ cardReq'[q].at # "save"
      \/ DOMAIN captured' = 1..n /\ Len(captured') = n
  BY <1>1
<1>3. Reserved' /\ Unrecorded'
  <2>1. TakesNoKey(cardReq'[q], cardReq[q])
    BY <1>0, <1>1 DEF TakesNoKey, Working, Charging
  <2> QED
    BY <1>0, <2>1, ReservedStays, UnrecordedStays DEF CardInv, HasRow
<1>4. Charges'
  <2>0. \A i \in DOMAIN rows : rows[i].charge \in Nat /\ rows[i].charge <= Len(captured)
    <3>1. ASSUME NEW i \in DOMAIN rows PROVE rows[i].charge \in Nat
      <4>1. rows[i] \in Copies
        BY <1>0 DEF CardTypes
      <4>2. 0..MaxRows \subseteq Nat
        BY PaymentsAssumption
      <4> QED
        BY <4>1, <4>2 DEF Copies
    <3> QED
      BY <3>1 DEF CardInv, Charges
  <2>1. \A i \in DOMAIN rows : rows[i].charge <= Len(captured') /\ rows[i].charge # n
    BY <1>0, <1>2, <2>0
  <2>2. \A p \in CardRequest \ {q} : cardReq[p].at = "save" =>
          /\ cardReq[p].n \in DOMAIN captured' /\ cardReq[p].n # n
          /\ \A i \in DOMAIN rows : rows[i].charge # cardReq[p].n
    <3>1. \A p \in CardRequest : cardReq[p].at = "save" =>
            /\ cardReq[p].n \in DOMAIN captured
            /\ \A i \in DOMAIN rows : rows[i].charge # cardReq[p].n
      BY DEF CardInv, Charges
    <3>2. DOMAIN captured \subseteq DOMAIN captured' /\ n \notin DOMAIN captured
      BY <1>0, <1>c, <1>2
    <3> QED
      BY <3>1, <3>2
  <2>3. cardReq'[q].at = "save" => n \in DOMAIN captured' /\ cardReq'[q].n = n
    BY <1>0, <1>1, <1>2
  <2>4. \A p \in CardRequest : cardReq'[p].at = "save" =>
          /\ cardReq'[p].n \in DOMAIN captured'
          /\ \A i \in DOMAIN rows' : rows'[i].charge # cardReq'[p].n
    <3> HIDE DEF n
    <3> QED
      BY <1>0, <2>1, <2>2, <2>3 DEF CardMoved
  <2>5. \A p, r \in CardRequest :
          cardReq'[p].at = "save" /\ cardReq'[r].at = "save" /\ cardReq'[p].n = cardReq'[r].n
            => p = r
    <3> HIDE DEF n
    <3> QED
      BY <1>0, <2>2, <2>3 DEF CardMoved, CardInv, Charges
  <2> QED
    BY <1>0, <2>1, <2>4, <2>5 DEF CardInv, Charges
<1>5. Copied'
  <2>1. TakesNoRow(cardReq'[q], cardReq[q])
    BY <1>1 DEF TakesNoRow, Locking
  <2> QED
    BY <1>0, <2>1, CopiedStays DEF CardInv
<1> QED
  BY <1>0, <1>3, <1>4, <1>5 DEF CardInv, CardMoved

\* The row of a charge is the first under its key and the only one of its charge.
LEMMA SaveStep ==
  ASSUME CardInv, NEW q \in CardRequest, SaveCompleted(q) \/ SaveFailed(q)
  PROVE  CardInv'
<1> DEFINE k == cardReq[q].key
<1>0. /\ CardTypes /\ CardTypes' /\ CardMoved(q) /\ UNCHANGED <<captured, marker>>
      /\ cardReq[q].at \in {"save", "saveFailed"} /\ Len(rows) < MaxRows
      /\ k \in Key \cup {NoHeader}
  <2>1. CardTypes /\ CardTypes' /\ CardMoved(q)
    BY SaveTypes DEF CardInv
  <2>2. UNCHANGED <<captured, marker>> /\ cardReq[q].at \in {"save", "saveFailed"} /\ Len(rows) < MaxRows
    BY DEF SaveCompleted, SaveFailed, CardAt, gateway
  <2> QED
    BY <2>1, <2>2 DEF CardTypes, CardReqs
<1>1. PICK l \in {"complete", "release"} : CardGoto(q, l)
  BY DEF SaveCompleted, SaveFailed
<1>2. /\ TakesNoKey(cardReq'[q], cardReq[q]) /\ TakesNoCharge(cardReq'[q], cardReq[q])
      /\ TakesNoRow(cardReq'[q], cardReq[q])
  BY <1>0, <1>1, GoTakes DEF Working
<1>3. CASE UNCHANGED rows
  BY <1>0, <1>2, <1>3, CardPasses
<1>4. ASSUME NEW t \in {"completed", "failed"}, NEW c \in Nat, rows' = Append(rows, Row(t, k, c)),
             t = "failed" => c = 0,
             c # 0 => cardReq[q].at = "save" /\ c = cardReq[q].n
      PROVE  CardInv'
  <2> DEFINE x == Row(t, k, c)
  <2> DEFINE i == Len(rows) + 1
  <2>x. x.key = k /\ x.charge = c /\ x.status = t
    BY DEF Row
  <2>0. /\ DOMAIN rows' = DOMAIN rows \cup {i} /\ i \notin DOMAIN rows /\ rows'[i] = x
        /\ \A j \in DOMAIN rows : rows'[j] = rows[j]
    <3>1. rows \in Seq(Copies) /\ DOMAIN rows = 1..Len(rows) /\ Len(rows) \in Nat
      BY <1>0 DEF CardTypes
    <3>2. rows' \in Seq(Copies)
      BY <1>0 DEF CardTypes
    <3>3. Len(rows') = i /\ DOMAIN rows' = 1..i
      BY <1>4, <3>1, <3>2
    <3>4. rows'[i] = x /\ \A j \in DOMAIN rows : rows'[j] = rows[j]
      <4> HIDE DEF x
      <4> QED
        BY <1>4, <3>1 DEF x
    <3> QED
      BY <3>1, <3>3, <3>4
  <2>n. c # 0 => /\ c \in DOMAIN captured /\ \A j \in DOMAIN rows : rows[j].charge # c
                 /\ \A p \in CardRequest \ {q} : cardReq[p].at = "save" => cardReq[p].n # c
    BY <1>4 DEF CardInv, Charges
  <2>l. cardReq'[q].at = l
    BY <1>0, <1>1, CardGoes DEF Working
  <2> HIDE DEF x, i
  <2>1. Reserved'
    BY <1>0, <1>2, ReservedStays DEF CardInv
  <2>2. Unrecorded'
    <3>1. ASSUME NEW p \in CardRequest, NEW j \in Key \cup {NoHeader},
                 cardReq'[p].at \in Charging, cardReq'[p].key = j, j # NoHeader, ~HasRow(j)
          PROVE  ~HasRow(j)'
      <4>1. p # q
        BY <2>l, <3>1 DEF Charging
      <4>2. cardReq[p].at \in Charging /\ cardReq[p].key = j
        BY <1>0, <3>1, <4>1 DEF CardMoved
      <4>3. j # k
        BY <1>0, <3>1, <4>1, <4>2 DEF CardInv, Reserved, HoldsKey, Charging, Working
      <4> QED
        BY <2>0, <2>x, <3>1, <4>3 DEF HasRow
    <3> QED
      BY <1>0, <1>2, <3>1, UnrecordedStays DEF CardInv
  <2>3. Charges'
    <3>1. /\ \A j \in DOMAIN rows' : rows'[j].charge <= Len(captured')
          /\ \A j \in DOMAIN rows' : rows'[j].status = "failed" => rows'[j].charge = 0
      <4>1. c <= Len(captured)
        BY <1>0, <2>n DEF CardTypes
      <4> QED
        BY <1>0, <1>4, <2>0, <2>x, <4>1 DEF CardInv, Charges
    <3>2. \A j, m \in DOMAIN rows' :
            rows'[j].charge = rows'[m].charge /\ rows'[j].charge # 0 => j = m
      BY <2>0, <2>x, <2>n DEF CardInv, Charges
    <3>3. \A p \in CardRequest : cardReq'[p].at = "save" =>
            p # q /\ cardReq[p].at = "save" /\ cardReq'[p].n = cardReq[p].n
      BY <1>0, <2>l DEF CardMoved
    <3>4. \A p \in CardRequest : cardReq'[p].at = "save" =>
            /\ cardReq'[p].n \in DOMAIN captured'
            /\ \A j \in DOMAIN rows' : rows'[j].charge # cardReq'[p].n
      <4>1. \A p \in CardRequest : cardReq[p].at = "save" => cardReq[p].n # 0
        BY <1>0 DEF CardInv, Charges, CardTypes
      <4>2. ASSUME NEW p \in CardRequest, cardReq'[p].at = "save", NEW j \in DOMAIN rows'
            PROVE  rows'[j].charge # cardReq'[p].n
        <5>1. p # q /\ cardReq[p].at = "save" /\ cardReq'[p].n = cardReq[p].n
          BY <3>3, <4>2
        <5>2. c # cardReq[p].n
          BY <2>n, <4>1, <5>1
        <5>3. \A m \in DOMAIN rows : rows[m].charge # cardReq[p].n
          BY <5>1 DEF CardInv, Charges
        <5> QED
          BY <2>0, <2>x, <4>2, <5>1, <5>2, <5>3
      <4> QED
        BY <1>0, <3>3, <4>2 DEF CardInv, Charges
    <3>5. \A p, r \in CardRequest :
            cardReq'[p].at = "save" /\ cardReq'[r].at = "save" /\ cardReq'[p].n = cardReq'[r].n
              => p = r
      BY <3>3 DEF CardInv, Charges
    <3> QED
      BY <3>1, <3>2, <3>4, <3>5 DEF Charges
  <2>4. Copied'
    <3>1. \A p \in CardRequest : cardReq'[p].job \in Copying =>
            /\ cardReq'[p].job = cardReq[p].job /\ cardReq'[p].id = cardReq[p].id
            /\ cardReq'[p].copy = cardReq[p].copy
            /\ cardReq'[p].at \in Locking => cardReq[p].at \in Locking
      BY <1>0, <1>2 DEF CardMoved, TakesNoRow
    <3>2. \A p \in CardRequest : CopyTrue(cardReq[p])'
      BY <2>0, <3>1 DEF CardInv, Copied, CopyTrue
    <3>3. \A p \in CardRequest : cardReq'[p].at \in Locking =>
            cardReq[p].at \in Locking /\ cardReq'[p].id = cardReq[p].id
      BY <1>0, <2>l DEF CardMoved, Locking
    <3>4. \A p, r \in CardRequest :
            cardReq'[p].at \in Locking /\ cardReq'[r].at \in Locking
              /\ cardReq'[p].id = cardReq'[r].id => p = r
      BY <3>3 DEF CardInv, Copied
    <3> QED
      BY <3>2, <3>4 DEF Copied
  <2> QED
    BY <1>0, <2>1, <2>2, <2>3, <2>4 DEF CardInv, CardMoved
<1>5. CASE SaveCompleted(q) /\ rows' = Append(rows, Completed(k, cardReq[q].n))
  <2>1. cardReq[q].at = "save" /\ cardReq[q].n \in DOMAIN captured
    BY <1>5 DEF SaveCompleted, CardAt, CardInv, Charges
  <2>2. cardReq[q].n \in Nat
    BY <1>0, <2>1 DEF CardTypes
  <2> QED
    BY <1>4, <1>5, <2>1, <2>2 DEF Completed
<1>6. CASE rows' = Append(rows, Row("failed", k, 0))
  BY <1>4, <1>6
<1> QED
  BY <1>3, <1>5, <1>6 DEF SaveCompleted, SaveFailed

\* Only the copies of the row that is written back were made stale, and nobody
\* has it locked.
LEMMA RewriteStep ==
  ASSUME CardInv, NEW q \in CardRequest,
         CountRetry(q) \/ CommitRefund(q) \/ SaveWebhook(q)
  PROVE  CardInv'
<1>0. /\ CardTypes /\ CardTypes' /\ CardMoved(q) /\ CardEnd(q) /\ cardReq[q].job \in Copying
      /\ UNCHANGED <<captured, marker>>
  BY RewriteTypes DEF CardInv, CountRetry, CommitRefund, SaveWebhook, gateway
<1>1. /\ TakesNoKey(cardReq'[q], cardReq[q]) /\ TakesNoCharge(cardReq'[q], cardReq[q])
      /\ TakesNoRow(cardReq'[q], cardReq[q])
  BY <1>0, EndTakes
<1>2. CASE UNCHANGED rows
  BY <1>0, <1>1, <1>2, CardPasses
<1>3. ASSUME NEW x, Rewrites(q, x), x.status = "failed" => x.charge = 0
      PROVE  CardInv'
  <2>1. /\ DOMAIN rows' = DOMAIN rows /\ rows'[cardReq[q].id] = x
        /\ \A j \in DOMAIN rows \ {cardReq[q].id} : rows'[j] = rows[j]
        /\ \A j \in DOMAIN rows : rows'[j].key = rows[j].key /\ rows'[j].charge = rows[j].charge
    BY <1>0, <1>3, RewrittenTypes
  <2>2. RowsKept
    BY <1>3, <2>1 DEF RowsKept, CardInv, Charges
  <2>3. Reserved'
    BY <1>0, <1>1, ReservedStays DEF CardInv
  <2>4. Unrecorded'
    BY <1>0, <1>1, <2>2, SameKeys, UnrecordedStays DEF CardInv
  <2>5. Charges'
    BY <1>0, <1>1, <2>2, ChargesStay DEF CardInv
  <2>6. \A p \in CardRequest \ {q} : cardReq[p].at \in Locking => cardReq[p].id # cardReq[q].id
    <3>1. CASE CommitRefund(q)
      BY <3>1 DEF CommitRefund, CardAt, CardInv, Copied, Locking
    <3>2. CASE CountRetry(q) \/ SaveWebhook(q)
      BY <3>2 DEF CountRetry, SaveWebhook, RowLocked, Locking
    <3> QED
      BY <3>1, <3>2
  <2>7. cardReq'[q].at = "idle" /\ cardReq'[q].job = "none"
    BY <1>0, CardEnds DEF CardIdle
  <2>8. Copied'
    <3>1. ASSUME NEW p \in CardRequest
          PROVE  CopyTrue(cardReq[p])'
      <4>1. CASE p = q
        BY <2>7, <4>1 DEF CopyTrue, Copying
      <4>2. CASE p # q
        <5>1. cardReq'[p] = cardReq[p] /\ CopyTrue(cardReq[p])
          BY <1>0, <4>2 DEF CardMoved, CardInv, Copied
        <5> QED
          BY <2>1, <2>6, <4>2, <5>1 DEF CopyTrue
      <4> QED
        BY <4>1, <4>2
    <3>2. \A p, r \in CardRequest :
            cardReq'[p].at \in Locking /\ cardReq'[r].at \in Locking
              /\ cardReq'[p].id = cardReq'[r].id => p = r
      BY <1>0, <2>7 DEF CardMoved, CardInv, Copied, Locking
    <3> QED
      BY <3>1, <3>2 DEF Copied
  <2> QED
    BY <1>0, <2>3, <2>4, <2>5, <2>8 DEF CardInv, CardMoved
<1>4. CASE CountRetry(q) /\ Rewrites(q, cardReq[q].copy)
  <2>1. cardReq[q].job = "retry"
    BY <1>4 DEF CountRetry
  <2>2. cardReq[q].copy.charge = 0
    BY <1>0, <2>1 DEF CardInv, Copied, CopyTrue
  <2> QED
    BY <1>3, <1>4, <2>2
<1>5. ASSUME NEW t \in {"pending", "completed", "refunded", "partial_refund"},
             Rewrites(q, [cardReq[q].copy EXCEPT !.status = t])
      PROVE  CardInv'
  <2>1. cardReq[q].copy \in Copies
    BY <1>0 DEF CardInv, Copied, CopyTrue
  <2>2. [cardReq[q].copy EXCEPT !.status = t].status # "failed"
    BY <2>1 DEF Copies
  <2> QED
    BY <1>3, <1>5, <2>2
<1> QED
  BY <1>2, <1>4, <1>5, RewriteTypes

\* The key a request gives back is nobody else's.
LEMMA GiveBackStep ==
  ASSUME CardInv, NEW q \in CardRequest, Complete(q) \/ Release(q)
  PROVE  CardInv'
<1> DEFINE k == cardReq[q].key
<1>0. /\ CardTypes /\ CardTypes' /\ CardMoved(q) /\ UNCHANGED <<rows, captured>>
      /\ cardReq[q].at \in Working /\ (Return(q) \/ Throw(q))
  BY KeyTypes DEF CardInv, Complete, Release, CardAt, Working, gateway
<1>1. CardEnd(q) \/ \E l \in {"returned", "threw"} : CardGoto(q, l)
  BY <1>0 DEF Return, Throw
<1>2. /\ TakesNoKey(cardReq'[q], cardReq[q]) /\ TakesNoCharge(cardReq'[q], cardReq[q])
      /\ TakesNoRow(cardReq'[q], cardReq[q]) /\ cardReq'[q].at \notin Working
  <2>0. Placed(cardReq[q])
    BY DEF CardInv
  <2>1. CASE CardEnd(q)
    <3>1. cardReq'[q] = CardIdle
      BY <1>0, <2>1, CardEnds
    <3>2. cardReq'[q].at \notin Working
      BY <3>1 DEF Working, CardIdle
    <3> QED
      BY <1>0, <2>0, <2>1, <3>2, EndTakes
  <2>2. ASSUME NEW l \in {"returned", "threw"}, CardGoto(q, l)
        PROVE  /\ TakesNoKey(cardReq'[q], cardReq[q]) /\ TakesNoCharge(cardReq'[q], cardReq[q])
               /\ TakesNoRow(cardReq'[q], cardReq[q]) /\ cardReq'[q].at \notin Working
    <3>1. /\ cardReq'[q].at = l /\ cardReq'[q].job = cardReq[q].job
          /\ cardReq'[q].key = cardReq[q].key /\ cardReq'[q].copy = cardReq[q].copy
          /\ cardReq'[q].id = cardReq[q].id /\ cardReq'[q].n = cardReq[q].n
      BY <1>0, <2>2, CardGoes
    <3> QED
      BY <3>1 DEF TakesNoKey, TakesNoCharge, TakesNoRow, Working, Charging, Locking
  <2> QED
    BY <1>1, <2>1, <2>2
<1>3. \A p \in CardRequest : HoldsKey(p)' => marker'[cardReq[p].key] = marker[cardReq[p].key]
  <2>1. ASSUME NEW p \in CardRequest, HoldsKey(p)'
        PROVE  marker'[cardReq[p].key] = marker[cardReq[p].key]
    <3>1. p # q /\ HoldsKey(p) /\ cardReq[p].key # NoHeader
      BY <1>0, <1>2, <2>1 DEF CardMoved, HoldsKey
    <3>2. k # cardReq[p].key
      BY <1>0, <3>1 DEF CardInv, Reserved, HoldsKey
    <3>3. Mark(k, "done") \/ Mark(k, "free")
      BY DEF Complete, Release
    <3>4. k \in Key \cup {NoHeader} /\ cardReq[p].key \in Key \cup {NoHeader}
      BY <1>0 DEF CardTypes, CardReqs
    <3> QED
      BY <1>0, <3>1, <3>2, <3>3, <3>4 DEF Mark, CardTypes
  <2> QED
    BY <2>1
<1>4. Reserved'
  BY <1>0, <1>2, <1>3, ReservedStays DEF CardInv
<1>5. RowsKept
  BY <1>0 DEF RowsKept, CardInv, Charges
<1>6. Unrecorded'
  BY <1>0, <1>2, <1>5, SameKeys, UnrecordedStays DEF CardInv
<1>7. Charges' /\ Copied'
  BY <1>0, <1>2, <1>5, ChargesStay, CopiedStays DEF CardInv
<1> QED
  BY <1>0, <1>4, <1>6, <1>7 DEF CardInv, CardMoved

\* The gateway refunds a charge of a row that is locked.
LEMMA RefundStep ==
  ASSUME CardInv, NEW q \in CardRequest, RefundAtGateway(q)
  PROVE  CardInv' /\ CardMoved(q)
<1> DEFINE c == cardReq[q].copy.charge
<1>0. /\ CardTypes /\ Placed(cardReq[q]) /\ cardReq[q].at = "refund" /\ cardReq[q].job = "refund"
      /\ UNCHANGED <<rows, captured, marker>> /\ (CardFault \/ NoCardFault)
  BY DEF CardInv, RefundAtGateway, CardAt, Placed, Locking
<1>1. CardMoved(q)
  <2>1. CASE CardEnd(q)
    BY <1>0, <2>1, EndTypes DEF CardMoved
  <2>2. CASE CardGoto(q, "commit")
    <3>1. /\ cardReq' \in [CardRequest -> CardReqs] /\ cardReq'[q].at = "commit"
          /\ cardReq'[q].job = cardReq[q].job /\ cardReq'[q].key = cardReq[q].key
          /\ cardReq'[q].copy = cardReq[q].copy /\ cardReq'[q].id = cardReq[q].id
          /\ \A r \in CardRequest \ {q} : cardReq'[r] = cardReq[r]
      BY <1>0, <2>2, CardGoes DEF Locking
    <3>2. Placed(cardReq'[q])
      BY <1>0, <3>1 DEF Placed, Working, Locking, Copying
    <3> QED
      BY <3>1, <3>2 DEF CardMoved
  <2> QED
    BY <2>1, <2>2 DEF RefundAtGateway
<1>2. CardTypes'
  <2>1. refunded' \in Seq(Nat) /\ Len(refunded') = Len(captured)
    <3>1. CASE UNCHANGED refunded
      BY <1>0, <3>1 DEF CardTypes
    <3>2. CASE refunded' = [refunded EXCEPT ![c] = @ + 1]
      <4>0. refunded \in Seq(Nat) /\ Len(refunded) = Len(captured)
        BY <1>0 DEF CardTypes
      <4>1. c \in 1..Len(refunded)
        <5>1. /\ cardReq[q].id \in DOMAIN rows /\ c = rows[cardReq[q].id].charge /\ c # 0
          BY <1>0 DEF CardInv, Copied, CopyTrue, Copying
        <5>2. rows[cardReq[q].id] \in Copies
          BY <1>0, <5>1 DEF CardTypes
        <5>3. c \in 0..MaxRows /\ c <= Len(captured)
          BY <5>1, <5>2 DEF Copies, CardInv, Charges
        <5> QED
          BY <4>0, <5>1, <5>3, PaymentsAssumption
      <4>2. refunded[c] + 1 \in Nat
        BY <4>0, <4>1
      <4> HIDE DEF c
      <4> QED
        BY <3>2, <4>0, <4>1, <4>2, ExceptSeq
    <3> QED
      BY <3>1, <3>2 DEF RefundAtGateway
  <2> QED
    BY <1>0, <1>1, <2>1, FaultTypes DEF RefundAtGateway, CardTypes, CardMoved
<1>3. /\ TakesNoKey(cardReq'[q], cardReq[q]) /\ TakesNoCharge(cardReq'[q], cardReq[q])
      /\ TakesNoRow(cardReq'[q], cardReq[q])
  <2>1. CASE CardEnd(q)
    BY <1>0, <2>1, EndTakes
  <2>2. CASE CardGoto(q, "commit")
    <3>1. /\ cardReq'[q].at = "commit"
          /\ cardReq'[q].job = cardReq[q].job /\ cardReq'[q].key = cardReq[q].key
          /\ cardReq'[q].copy = cardReq[q].copy /\ cardReq'[q].id = cardReq[q].id
      BY <1>0, <2>2, CardGoes DEF Locking
    <3> QED
      BY <1>0, <3>1 DEF TakesNoKey, TakesNoCharge, TakesNoRow, Working, Charging, Locking
  <2> QED
    BY <2>1, <2>2 DEF RefundAtGateway
<1> QED
  BY <1>0, <1>1, <1>2, <1>3, CardPasses

\* Every step keeps the invariant.
LEMMA CardInvStep == CardInv /\ [CardNext]_cardVars => CardInv'
<1> SUFFICES ASSUME CardInv, [CardNext]_cardVars
             PROVE  CardInv'
  OBVIOUS
<1>0. CardTypes /\ \A q \in CardRequest : Placed(cardReq[q])
  BY DEF CardInv
<1>1. ASSUME NEW q \in CardRequest, \/ ScheduleWithoutMethod(q) \/ AdvanceSchedule(q)
                                      \/ DelaySchedule(q) \/ EditSchedule(q)
      PROVE  CardInv'
  <2>1. /\ CardTypes' /\ CardMoved(q) /\ UNCHANGED <<rows, captured, marker>>
        /\ cardReq'[q].at \in {"idle", "threw"} /\ cardReq'[q].job \notin Copying
    BY <1>1, PlanTypes
  <2>2. /\ TakesNoKey(cardReq'[q], cardReq[q]) /\ TakesNoCharge(cardReq'[q], cardReq[q])
        /\ TakesNoRow(cardReq'[q], cardReq[q])
    BY <2>1 DEF TakesNoKey, TakesNoCharge, TakesNoRow, Working, Charging, Locking
  <2> QED
    BY <2>1, <2>2, CardPasses
<1>2. ASSUME NEW q \in CardRequest, CheckRetry(q)
      PROVE  CardInv'
  <2>1. CardTypes' /\ CardMoved(q) /\ UNCHANGED <<rows, captured, marker>>
    BY <1>2, KeyTypes DEF CheckRetry, gateway
  <2>2. CardEnd(q) \/ CardGoto(q, "begin")
    BY <1>2 DEF CheckRetry
  <2>3. /\ TakesNoKey(cardReq'[q], cardReq[q]) /\ TakesNoCharge(cardReq'[q], cardReq[q])
        /\ TakesNoRow(cardReq'[q], cardReq[q])
    BY <1>0, <2>2, EndTakes, GoTakes DEF Working
  <2> QED
    BY <2>1, <2>3, CardPasses
<1>3. ASSUME NEW q \in CardRequest, CardCrash(q)
      PROVE  CardInv'
  <2>1. CardEnd(q) /\ UNCHANGED <<rows, captured, refunded, marker, schedule, hasMethod, events>>
        /\ UNCHANGED cardStarted /\ (CardFault \/ NoCardFault)
    BY <1>3 DEF CardCrash, gateway
  <2>2. CardMoved(q)
    BY <1>0, <2>1, EndTypes DEF CardMoved
  <2>3. CardTypes'
    BY <1>0, <2>1, <2>2, FaultTypes DEF CardTypes, CardMoved
  <2>4. /\ TakesNoKey(cardReq'[q], cardReq[q]) /\ TakesNoCharge(cardReq'[q], cardReq[q])
        /\ TakesNoRow(cardReq'[q], cardReq[q])
    BY <1>0, <2>1, EndTakes
  <2> QED
    BY <2>1, <2>2, <2>3, <2>4, CardPasses
<1>4. ASSUME NEW k \in Key, MarkerLapses(k)
      PROVE  CardInv'
  <2>1. /\ UNCHANGED <<rows, captured, refunded, schedule, hasMethod, cardReq, cardFaults>>
        /\ UNCHANGED <<events, cardStarted>> /\ marker' = [marker EXCEPT ![k] = "free"]
    BY <1>4 DEF MarkerLapses, gateway
  <2>2. CardTypes'
    BY <1>0, <2>1 DEF CardTypes
  <2>3. \A p \in CardRequest : HoldsKey(p) => cardReq[p].key # k /\ cardReq[p].key \in Key
    BY <1>0, <1>4 DEF MarkerLapses, CardInv, Reserved, HoldsKey, Working, CardTypes, CardReqs
  <2>4. Reserved'
    BY <1>0, <2>1, <2>3 DEF CardInv, Reserved, HoldsKey, CardTypes
  <2> QED
    BY <2>1, <2>2, <2>4 DEF CardInv, Unrecorded, HasRow, Charges, Copied, CopyTrue
<1>5. CASE RemovePaymentMethod
  BY <1>5 DEF RemovePaymentMethod, gateway, CardInv, CardTypes, Reserved, HoldsKey, Unrecorded, HasRow,
              Charges, Copied, CopyTrue
<1>6. CASE UNCHANGED cardVars
  BY <1>6 DEF cardVars, gateway, CardInv, CardTypes, Reserved, HoldsKey, Unrecorded, HasRow,
              Charges, Copied, CopyTrue
<1> QED
  BY <1>1, <1>2, <1>3, <1>4, <1>5, <1>6, StartStep, BeginStep, LookupStep, ChargeStep, SaveStep,
     GiveBackStep, RewriteStep, RefundStep DEF CardNext, RecordPayment

-----------------------------------------------------------------------------
(* What that shows.                                                        *)

\* The gateway is asked for a charge under a key that has no row yet.
THEOREM ChargeOncePerRowAlways == CardSpec => ChargeOncePerRow
<1>1. CardSpec => []CardInv
  BY CardInvInit, CardInvStep, PTL DEF CardSpec
<1>2. CardInv /\ [CardNext]_cardVars =>
        [\A k \in Key :
           HasRow(k) /\ Len(captured') > Len(captured) => captured'[Len(captured')] # k]_cardVars
  <2> SUFFICES ASSUME CardInv, CardNext, NEW k \in Key, HasRow(k), Len(captured') > Len(captured)
               PROVE  captured'[Len(captured')] # k
    OBVIOUS
  <2>0. CardTypes /\ captured \in Seq(Key \cup {NoHeader}) /\ Len(captured) \in Nat
    BY DEF CardInv, CardTypes
  <2>1. PICK q \in CardRequest : Charge(q)
    <3>1. captured' # captured
      BY <2>0
    <3> QED
      BY <3>1 DEF CardNext, RecordPayment, SubmitPayment, Begin, LookupRow, SaveCompleted, SaveFailed,
           Complete, Release, FindSchedule, ScheduleWithoutMethod, AdvanceSchedule, DelaySchedule,
           ReadScheduleToEdit, EditSchedule, FindFailed, BeginCardRefund, ReadForWebhook, CheckRetry,
           CountRetry, RefundAtGateway, CommitRefund, SaveWebhook, CardCrash, RemovePaymentMethod,
           MarkerLapses, gateway
  <2>2. /\ cardReq[q].at = "charge" /\ cardReq[q].key \in Key \cup {NoHeader}
        /\ captured' = captured \/ captured' = Append(captured, cardReq[q].key)
    BY <2>0, <2>1 DEF Charge, CardAt, gateway, CardTypes, CardReqs
  <2>3. captured'[Len(captured')] = cardReq[q].key
    BY <2>0, <2>2
  <2>4. cardReq[q].key # k
    BY <2>2, PaymentsAssumption DEF CardInv, Unrecorded, Charging
  <2> QED
    BY <2>3, <2>4
<1> QED
  BY <1>1, <1>2, PTL DEF CardSpec, ChargeOncePerRow

-----------------------------------------------------------------------------
(* Charges without a row.                                                  *)
-----------------------------------------------------------------------------

\* The charges that have no row, and no request about to write one.
Lost ==
  {c \in DOMAIN captured :
      /\ \A i \in DOMAIN rows : rows[i].charge # c
      /\ \A q \in CardRequest : ~(CardAt(q, "save") /\ cardReq[q].n = c)}

FewLost == IsFiniteSet(Lost) /\ Cardinality(Lost) <= cardFaults

\* Rows keep their charges; new ones may join them.
ChargesKept ==
  /\ DOMAIN rows \subseteq DOMAIN rows'
  /\ \A i \in DOMAIN rows : rows'[i].charge = rows[i].charge

\* A request that writes no row loses its own charge at most.
LEMMA LosesOne ==
  ASSUME NEW q \in CardRequest, CardMoved(q), ChargesKept, captured' = captured
  PROVE  /\ Lost' \subseteq Lost \cup {cardReq[q].n}
         /\ cardReq[q].at # "save" => Lost' \subseteq Lost
BY DEF Lost, CardMoved, ChargesKept, CardAt

\* Every step but those of the gateway and of the row of a charge loses nothing;
\* those lose one charge, by a fault.
LEMMA LostStep ==
  ASSUME CardInv, [CardNext]_cardVars
  PROVE  \/ Lost' \subseteq Lost /\ cardFaults' >= cardFaults
         \/ \E x : Lost' \subseteq Lost \cup {x} /\ cardFaults' = cardFaults + 1
<1> DEFINE Kept == Lost' \subseteq Lost /\ cardFaults' >= cardFaults
           Gone == \E x : Lost' \subseteq Lost \cup {x} /\ cardFaults' = cardFaults + 1
<1>0. CardTypes /\ cardFaults \in Nat /\ \A q \in CardRequest : Placed(cardReq[q])
  BY PaymentsAssumption DEF CardInv, CardTypes
<1>1. ASSUME NEW q \in CardRequest, CardMoved(q), ChargesKept, captured' = captured,
             cardReq[q].at # "save", cardFaults' \in {cardFaults, cardFaults + 1}
      PROVE  Kept
  BY <1>0, <1>1, LosesOne
<1>2. ASSUME UNCHANGED rows
      PROVE  ChargesKept
  BY <1>2 DEF ChargesKept
<1>3. ASSUME NEW q \in CardRequest,
             \/ \E k \in ClientKey \cup {NoHeader} : SubmitPayment(q, k)
             \/ FindSchedule(q) \/ ReadScheduleToEdit(q)
             \/ \E i \in DOMAIN rows : FindFailed(q, i) \/ BeginCardRefund(q, i) \/ ReadForWebhook(q, i)
      PROVE  Kept
  <2>1. /\ CardMoved(q) /\ UNCHANGED <<rows, captured, cardFaults>> /\ cardReq[q].at = "idle"
    BY <1>3, StartTypes DEF CardMoved, CardInv, CardTypes
  <2> QED
    BY <1>1, <1>2, <2>1
<1>4. ASSUME NEW q \in CardRequest,
             Begin(q) \/ LookupRow(q) \/ Complete(q) \/ Release(q) \/ CheckRetry(q)
      PROVE  Kept
  <2>1. CardMoved(q)
    BY <1>4, KeyTypes
  <2>2. UNCHANGED <<rows, captured, cardFaults>> /\ cardReq[q].at # "save"
    BY <1>4 DEF Begin, LookupRow, Complete, Release, CheckRetry, CardAt, gateway
  <2> QED
    BY <1>1, <1>2, <2>1, <2>2
<1>5. ASSUME NEW q \in CardRequest,
             ScheduleWithoutMethod(q) \/ AdvanceSchedule(q) \/ DelaySchedule(q) \/ EditSchedule(q)
      PROVE  Kept
  <2>1. CardMoved(q) /\ UNCHANGED <<rows, captured>>
    BY <1>5, PlanTypes
  <2>2. cardReq[q].at # "save" /\ (CardFault \/ UNCHANGED cardFaults)
    BY <1>5 DEF ScheduleWithoutMethod, AdvanceSchedule, DelaySchedule, EditSchedule, CardAt, NoCardFault
  <2> QED
    BY <1>1, <1>2, <2>1, <2>2 DEF CardFault
<1>6. ASSUME NEW q \in CardRequest, CountRetry(q) \/ CommitRefund(q) \/ SaveWebhook(q)
      PROVE  Kept
  <2>1. CardMoved(q) /\ (UNCHANGED rows \/ \E x : Rewrites(q, x)) /\ (CardFault \/ NoCardFault)
    BY <1>6, RewriteTypes
  <2>2. ChargesKept
    BY <1>0, <1>2, <2>1, RewrittenTypes DEF ChargesKept
  <2>3. captured' = captured /\ cardReq[q].at # "save"
    BY <1>6 DEF CountRetry, CommitRefund, SaveWebhook, CardAt, gateway
  <2>4. cardFaults' \in {cardFaults, cardFaults + 1}
    BY <1>0, <2>1, FaultTypes
  <2> QED
    BY <1>1, <2>1, <2>2, <2>3, <2>4
<1>7. ASSUME NEW q \in CardRequest, RefundAtGateway(q)
      PROVE  Kept
  <2>1. CardMoved(q)
    BY <1>7, RefundStep
  <2>2. UNCHANGED <<rows, captured>> /\ cardReq[q].at # "save" /\ (CardFault \/ NoCardFault)
    BY <1>7 DEF RefundAtGateway, CardAt
  <2>3. cardFaults' \in {cardFaults, cardFaults + 1}
    BY <1>0, <2>2, FaultTypes
  <2> QED
    BY <1>1, <1>2, <2>1, <2>2, <2>3
<1>8. ASSUME NEW q \in CardRequest, CardCrash(q)
      PROVE  Gone
  <2>1. CardMoved(q)
    BY <1>0, <1>8, EndTypes DEF CardCrash, CardMoved
  <2>2. UNCHANGED <<rows, captured>> /\ cardFaults' = cardFaults + 1
    BY <1>8 DEF CardCrash, CardFault, gateway
  <2> QED
    BY <1>2, <2>1, <2>2, LosesOne
<1>9. ASSUME NEW q \in CardRequest, SaveFailed(q)
      PROVE  Kept
  <2>1. CardMoved(q) /\ CardTypes'
    BY <1>9, SaveTypes
  <2>2. /\ captured' = captured /\ cardReq[q].at # "save" /\ (CardFault \/ NoCardFault)
        /\ UNCHANGED rows \/ \E x : rows' = Append(rows, x)
    BY <1>9 DEF SaveFailed, CardAt, gateway
  <2>3. ChargesKept
    <3>1. rows \in Seq(Copies) /\ Len(rows) \in Nat
      BY <1>0 DEF CardTypes
    <3>2. ASSUME NEW x, rows' = Append(rows, x)
          PROVE  ChargesKept
      BY <3>1, <3>2 DEF ChargesKept
    <3> QED
      BY <1>2, <2>2, <3>2
  <2>4. cardFaults' \in {cardFaults, cardFaults + 1}
    BY <1>0, <2>2, FaultTypes
  <2> QED
    BY <1>1, <2>1, <2>2, <2>3, <2>4
<1>10. ASSUME NEW q \in CardRequest, SaveCompleted(q)
       PROVE  Kept \/ Gone
  <2> DEFINE x == Completed(cardReq[q].key, cardReq[q].n)
  <2>1. CardMoved(q) /\ CardTypes'
    BY <1>10, SaveTypes
  <2>2. /\ captured' = captured /\ cardReq[q].at = "save" /\ (CardFault \/ NoCardFault)
        /\ CanInsert(cardReq[q].key)
    BY <1>10 DEF SaveCompleted, CardAt, gateway, CanInsert, CardInv, Unrecorded, Charging
  <2>3. CASE rows' = Append(rows, x)
    <3>1. rows \in Seq(Copies) /\ Len(rows) \in Nat
      BY <1>0 DEF CardTypes
    <3>2. /\ ChargesKept /\ Len(rows) + 1 \in DOMAIN rows'
          /\ rows'[Len(rows) + 1].charge = cardReq[q].n
      BY <2>3, <3>1 DEF ChargesKept, Completed, Row
    <3>3. Lost' \subseteq Lost
      BY <2>1, <2>2, <3>2 DEF Lost, CardMoved, ChargesKept, CardAt
    <3>4. cardFaults' \in {cardFaults, cardFaults + 1}
      BY <1>0, <2>2, FaultTypes
    <3> QED
      BY <1>0, <3>3, <3>4
  <2>4. CASE UNCHANGED rows /\ CardFault
    BY <1>2, <2>1, <2>2, <2>4, LosesOne DEF CardFault
  <2> QED
    BY <1>10, <2>2, <2>3, <2>4 DEF SaveCompleted
<1>11. ASSUME NEW q \in CardRequest, Charge(q)
       PROVE  Kept \/ Gone
  <2>1. CardMoved(q) /\ CardTypes'
    BY <1>11, ChargeTypes
  <2>2. /\ rows' = rows /\ cardReq[q].at = "charge" /\ Len(captured) \in Nat
        /\ captured \in Seq(Key \cup {NoHeader})
    BY <1>0, <1>11 DEF Charge, CardAt, CardTypes
  <2>3. CASE captured' = captured
    <3>1. CardFault \/ NoCardFault
      BY <1>11 DEF Charge
    <3>2. cardFaults' \in {cardFaults, cardFaults + 1}
      BY <1>0, <3>1, FaultTypes
    <3> QED
      BY <1>1, <1>2, <2>1, <2>2, <2>3, <3>2
  <2>4. CASE captured' = Append(captured, cardReq[q].key)
    <3>1. DOMAIN captured' = DOMAIN captured \cup {Len(captured) + 1}
      BY <2>2, <2>4
    <3>2. Lost' \subseteq Lost \cup {Len(captured) + 1}
      BY <2>1, <2>2, <3>1 DEF Lost, CardMoved, CardAt
    <3>3. CASE CardFault
      BY <3>2, <3>3 DEF CardFault
    <3>4. CASE /\ NoCardFault
               /\ cardReq' = [cardReq EXCEPT ![q].at = "save", ![q].n = Len(captured) + 1]
      <4>1. cardReq'[q].at = "save" /\ cardReq'[q].n = Len(captured) + 1
        BY <1>0, <3>4 DEF CardTypes, CardReqs
      <4>2. Lost' \subseteq Lost
        BY <3>2, <4>1 DEF Lost, CardAt
      <4> QED
        BY <1>0, <3>4, <4>2 DEF NoCardFault
    <3>5. CASE NoCardFault /\ UNCHANGED gateway
      BY <1>0, <1>2, <1>1, <2>1, <2>2, <3>5 DEF NoCardFault, gateway
    <3> QED
      BY <1>11, <3>3, <3>4, <3>5 DEF Charge
  <2> QED
    BY <1>11, <2>3, <2>4 DEF Charge, gateway
<1>12. ASSUME (\E k \in Key : MarkerLapses(k)) \/ RemovePaymentMethod \/ UNCHANGED cardVars
       PROVE  Kept
  <2>1. UNCHANGED <<rows, captured, cardReq, cardFaults>>
    BY <1>12 DEF MarkerLapses, RemovePaymentMethod, cardVars, gateway
  <2> QED
    BY <1>0, <2>1 DEF Lost, CardAt
<1> HIDE DEF Kept, Gone
<1>13. ASSUME NEW q \in CardRequest,
              \/ \E k \in ClientKey \cup {NoHeader} : SubmitPayment(q, k)
              \/ RecordPayment(q)
              \/ FindSchedule(q) \/ ScheduleWithoutMethod(q)
              \/ AdvanceSchedule(q) \/ DelaySchedule(q)
              \/ ReadScheduleToEdit(q) \/ EditSchedule(q)
              \/ \E i \in DOMAIN rows :
                   FindFailed(q, i) \/ BeginCardRefund(q, i) \/ ReadForWebhook(q, i)
              \/ CheckRetry(q) \/ CountRetry(q)
              \/ RefundAtGateway(q) \/ CommitRefund(q) \/ SaveWebhook(q)
              \/ CardCrash(q)
       PROVE  Kept \/ Gone
  BY <1>3, <1>4, <1>5, <1>6, <1>7, <1>8, <1>9, <1>10, <1>11, <1>13 DEF RecordPayment
<1>14. Kept \/ Gone
  BY <1>12, <1>13 DEF CardNext
<1> QED
  BY <1>14 DEF Kept, Gone

\* What is lost are as many charges as there were faults, at most.
THEOREM NoChargeLostAlways == CardSpec => []NoChargeLost
<1>1. CardInit => FewLost
  <2> SUFFICES ASSUME CardInit
               PROVE  FewLost
    OBVIOUS
  <2>1. Lost = {}
    BY DEF CardInit, Lost
  <2> QED
    BY <2>1, FS_EmptySet DEF CardInit, FewLost
<1>2. CardInv /\ FewLost /\ [CardNext]_cardVars => FewLost'
  <2> SUFFICES ASSUME CardInv, FewLost, [CardNext]_cardVars
               PROVE  FewLost'
    OBVIOUS
  <2>0. cardFaults \in Nat /\ cardFaults' \in Nat
    BY CardInvStep, PaymentsAssumption DEF CardInv, CardTypes
  <2>1. CASE Lost' \subseteq Lost /\ cardFaults' >= cardFaults
    <3>1. IsFiniteSet(Lost') /\ Cardinality(Lost') <= Cardinality(Lost)
          /\ Cardinality(Lost) \in Nat /\ Cardinality(Lost') \in Nat
      BY <2>1, FS_Subset, FS_CardinalityType DEF FewLost
    <3> QED
      BY <2>0, <2>1, <3>1 DEF FewLost
  <2>2. ASSUME NEW x, Lost' \subseteq Lost \cup {x}, cardFaults' = cardFaults + 1
        PROVE  FewLost'
    <3>1. IsFiniteSet(Lost) /\ Cardinality(Lost) \in Nat
      BY FS_CardinalityType DEF FewLost
    <3>2. /\ IsFiniteSet(Lost \cup {x})
          /\ Cardinality(Lost \cup {x}) =
               IF x \in Lost THEN Cardinality(Lost) ELSE Cardinality(Lost) + 1
      BY <3>1, FS_AddElement, Zenon
    <3>3. IsFiniteSet(Lost') /\ Cardinality(Lost') <= Cardinality(Lost \cup {x})
          /\ Cardinality(Lost') \in Nat
      BY <2>2, <3>2, FS_Subset, FS_CardinalityType
    <3> QED
      BY <2>0, <2>2, <3>1, <3>2, <3>3 DEF FewLost
  <2> QED
    BY <2>1, <2>2, LostStep
<1>3. FewLost => NoChargeLost
  BY DEF FewLost, Lost, NoChargeLost
<1>4. CardInv /\ [CardNext]_cardVars => CardInv'
  BY CardInvStep
<1> QED
  BY <1>1, <1>2, <1>3, <1>4, CardInvInit, PTL DEF CardSpec

-----------------------------------------------------------------------------
(* How often a charge is refunded.                                         *)
-----------------------------------------------------------------------------

\* The charge can be refunded: its row is completed, and no refund is about to
\* change that.
Refundable(c) ==
  \E i \in DOMAIN rows :
    /\ rows[i].charge = c /\ rows[i].status = "completed"
    /\ \A q \in CardRequest : ~(cardReq[q].at = "commit" /\ cardReq[q].id = i)

\* The webhooks that may complete its payment anew.
Reopeners(c) == {q \in CardRequest : cardReq[q].at = "webhook" /\ cardReq[q].copy.charge = c}

\* The refunds it had, and those it may have without another webhook or fault.
Tally(c) == refunded[c] + (IF Refundable(c) THEN 1 ELSE 0) + Cardinality(Reopeners(c))

Tallied ==
  \A c \in DOMAIN captured :
    /\ Tally(c) <= 1 + events + cardFaults
    /\ refunded[c] # 0 => \E i \in DOMAIN rows : rows[i].charge = c

\* The webhooks under way are finitely many.
LEMMA FewReopeners ==
  ASSUME NEW c
  PROVE  IsFiniteSet(Reopeners(c)) /\ Cardinality(Reopeners(c)) \in Nat
BY PaymentsAssumption, FS_Subset, FS_CardinalityType DEF Reopeners

\* The ways a step may change what a charge is refunded: not at all, by a fault
\* that reopens it, by a refund that uses its turn up or by one that failed
\* after the gateway's part, by a webhook that arrives or is saved, or because
\* its row appears.
TallyMoves(c) ==
  \/ /\ refunded'[c] = refunded[c] /\ (Refundable(c)' => Refundable(c))
     /\ Reopeners(c)' \subseteq Reopeners(c)
  \/ /\ refunded'[c] = refunded[c] /\ cardFaults' = cardFaults + 1
     /\ Reopeners(c)' \subseteq Reopeners(c)
  \/ /\ refunded'[c] = refunded[c] + 1 /\ Refundable(c) /\ ~Refundable(c)'
     /\ Reopeners(c)' \subseteq Reopeners(c)
  \/ /\ refunded'[c] = refunded[c] + 1 /\ (Refundable(c)' => Refundable(c))
     /\ cardFaults' = cardFaults + 1
     /\ Reopeners(c)' \subseteq Reopeners(c)
  \/ /\ refunded'[c] = refunded[c] /\ (Refundable(c)' => Refundable(c))
     /\ events' = events + 1
     /\ \E q : Reopeners(c)' \subseteq Reopeners(c) \cup {q}
  \/ /\ refunded'[c] = refunded[c]
     /\ \E q \in Reopeners(c) : Reopeners(c)' \subseteq Reopeners(c) \ {q}
  \/ refunded'[c] = 0 /\ Reopeners(c)' = {}

\* The tally of a charge grows with the webhooks and faults, and not otherwise.
LEMMA TallyStep ==
  ASSUME NEW c, refunded[c] \in Nat, events \in Nat, cardFaults \in Nat,
         Tally(c) <= 1 + events + cardFaults,
         events' \in {events, events + 1}, cardFaults' \in {cardFaults, cardFaults + 1},
         TallyMoves(c)
  PROVE  Tally(c)' <= 1 + events' + cardFaults'
<1> DEFINE n == Cardinality(Reopeners(c))
           m == Cardinality(Reopeners(c)')
           a == IF Refundable(c) THEN 1 ELSE 0
           b == IF Refundable(c)' THEN 1 ELSE 0
<1>1. n \in Nat /\ m \in Nat /\ a \in {0, 1} /\ b \in {0, 1}
      /\ IsFiniteSet(Reopeners(c)) /\ IsFiniteSet(Reopeners(c)')
  <2>1. IsFiniteSet(Reopeners(c)') /\ m \in Nat
    BY PaymentsAssumption, FS_Subset, FS_CardinalityType DEF Reopeners
  <2> QED
    BY <2>1, FewReopeners
<1>2. Tally(c) = refunded[c] + a + n /\ Tally(c)' = refunded'[c] + b + m
  BY DEF Tally
<1>3. Reopeners(c)' \subseteq Reopeners(c) => m <= n
  BY <1>1, FS_Subset
<1>4. (\E q : Reopeners(c)' \subseteq Reopeners(c) \cup {q}) => m <= n + 1
  <2> SUFFICES ASSUME NEW q, Reopeners(c)' \subseteq Reopeners(c) \cup {q}
               PROVE  m <= n + 1
    OBVIOUS
  <2>1. /\ IsFiniteSet(Reopeners(c) \cup {q})
        /\ Cardinality(Reopeners(c) \cup {q}) = IF q \in Reopeners(c) THEN n ELSE n + 1
    BY <1>1, FS_AddElement, Zenon
  <2>2. m <= Cardinality(Reopeners(c) \cup {q})
    BY <2>1, FS_Subset
  <2> QED
    BY <1>1, <2>1, <2>2
<1>5. (\E q \in Reopeners(c) : Reopeners(c)' \subseteq Reopeners(c) \ {q}) => m <= n - 1
  <2> SUFFICES ASSUME NEW q \in Reopeners(c), Reopeners(c)' \subseteq Reopeners(c) \ {q}
               PROVE  m <= n - 1
    OBVIOUS
  <2>1. /\ IsFiniteSet(Reopeners(c) \ {q})
        /\ Cardinality(Reopeners(c) \ {q}) = IF q \in Reopeners(c) THEN n - 1 ELSE n
    BY <1>1, FS_RemoveElement, Zenon
  <2>2. m <= Cardinality(Reopeners(c) \ {q})
    BY <2>1, FS_Subset
  <2> QED
    BY <1>1, <2>1, <2>2
<1>6. Reopeners(c)' = {} => m = 0
  BY FS_EmptySet
<1>7. (Refundable(c)' => Refundable(c)) => b <= a
  OBVIOUS
<1>8. Refundable(c) /\ ~Refundable(c)' => a = 1 /\ b = 0
  OBVIOUS
<1> HIDE DEF n, m, a, b
<1> QED
  BY <1>1, <1>2, <1>3, <1>4, <1>5, <1>6, <1>7, <1>8 DEF TallyMoves

\* Charges move one by one; a new charge has no refund, no row and no webhook.
LEMMA TalliesStay ==
  ASSUME CardInv, Tallied, ChargesKept,
         events' \in {events, events + 1}, cardFaults' \in {cardFaults, cardFaults + 1},
         \A c \in DOMAIN captured' :
           \/ /\ c \in DOMAIN captured /\ TallyMoves(c)
              /\ refunded'[c] # 0 =>
                   refunded[c] # 0 \/ \E i \in DOMAIN rows : rows[i].charge = c
           \/ refunded'[c] = 0 /\ ~Refundable(c)' /\ Reopeners(c)' = {}
  PROVE  Tallied'
<1>0. /\ events \in Nat /\ cardFaults \in Nat /\ DOMAIN captured = DOMAIN refunded
      /\ \A c \in DOMAIN captured : refunded[c] \in Nat
  <2>1. CardTypes
    BY DEF CardInv
  <2>2. /\ captured \in Seq(Key \cup {NoHeader}) /\ refunded \in Seq(Nat)
        /\ Len(refunded) = Len(captured)
        /\ cardFaults \in 0..MaxCardFaults /\ events \in 0..MaxEvents
    BY <2>1, Zenon DEF CardTypes
  <2>3. DOMAIN captured = DOMAIN refunded /\ \A c \in DOMAIN captured : refunded[c] \in Nat
    BY <2>2
  <2>4. events \in Nat /\ cardFaults \in Nat
    BY <2>2, PaymentsAssumption
  <2> QED
    BY <2>3, <2>4
<1>1. ASSUME NEW c \in DOMAIN captured', c \in DOMAIN captured, TallyMoves(c)
      PROVE  Tally(c)' <= 1 + events' + cardFaults'
  <2>1. refunded[c] \in Nat /\ Tally(c) <= 1 + events + cardFaults
    BY <1>0, <1>1 DEF Tallied
  <2> QED
    BY <1>0, <1>1, <2>1, TallyStep
<1>2. ASSUME NEW c \in DOMAIN captured', refunded'[c] = 0, ~Refundable(c)', Reopeners(c)' = {}
      PROVE  Tally(c)' <= 1 + events' + cardFaults'
  <2>1. Cardinality(Reopeners(c)') = 0
    BY <1>2, FS_EmptySet
  <2>2. Tally(c)' = 0
    BY <1>2, <2>1 DEF Tally
  <2> QED
    BY <1>0, <2>2
<1>3. ASSUME NEW c \in DOMAIN captured, \E i \in DOMAIN rows : rows[i].charge = c
      PROVE  \E i \in DOMAIN rows' : rows'[i].charge = c
  BY <1>3 DEF ChargesKept
<1>4. \A c \in DOMAIN captured' : refunded'[c] # 0 => \E i \in DOMAIN rows' : rows'[i].charge = c
  BY <1>3 DEF Tallied
<1> QED
  BY <1>1, <1>2, <1>4 DEF Tallied

\* A request that touches neither rows nor the gateway's books.
LEMMA QuietTally ==
  ASSUME CardInv, Tallied, NEW q \in CardRequest, CardMoved(q),
         UNCHANGED <<rows, captured, refunded>>,
         cardReq[q].at # "commit", cardReq'[q].at # "webhook",
         events' = events, cardFaults' \in {cardFaults, cardFaults + 1}
  PROVE  Tallied'
<1>1. \A c : Reopeners(c)' \subseteq Reopeners(c)
  BY DEF Reopeners, CardMoved
<1>2. \A c : Refundable(c)' => Refundable(c)
  BY DEF Refundable, CardMoved
<1>3. \A c \in DOMAIN captured : TallyMoves(c)
  BY <1>1, <1>2 DEF TallyMoves
<1>4. ChargesKept
  BY DEF ChargesKept
<1> QED
  BY <1>3, <1>4, TalliesStay

\* A row that is added completes the payment of its charge at most.
LEMMA AddTally ==
  ASSUME CardInv, Tallied, NEW q \in CardRequest, SaveCompleted(q) \/ SaveFailed(q)
  PROVE  Tallied'
<1>0. /\ CardTypes /\ CardMoved(q) /\ UNCHANGED <<captured, refunded, events>>
      /\ cardReq[q].at \in {"save", "saveFailed"}
  BY SaveTypes DEF CardInv, SaveCompleted, SaveFailed, CardAt, gateway
<1>1. cardReq'[q].at \notin {"webhook", "commit"} /\ cardFaults' \in {cardFaults, cardFaults + 1}
  <2>1. CardGoto(q, "complete") \/ CardGoto(q, "release")
    BY DEF SaveCompleted, SaveFailed
  <2>2. ASSUME NEW l \in {"complete", "release"}, CardGoto(q, l)
        PROVE  cardReq'[q].at \notin {"webhook", "commit"}
    BY <1>0, <2>2, CardGoes DEF Working
  <2>3. CardFault \/ NoCardFault
    BY DEF SaveCompleted, SaveFailed
  <2> QED
    BY <1>0, <2>1, <2>2, <2>3, FaultTypes
<1>2. CASE UNCHANGED rows
  BY <1>0, <1>1, <1>2, QuietTally
<1>3. ASSUME NEW n, cardReq[q].at = "save" => n = cardReq[q].n, cardReq[q].at # "save" => n = 0,
             NEW x, rows' = Append(rows, x), x.charge = n
      PROVE  Tallied'
  <2>1. rows \in Seq(Copies) /\ Len(rows) \in Nat
    BY <1>0 DEF CardTypes
  <2>2. ChargesKept
    BY <1>3, <2>1 DEF ChargesKept
  <2>6. /\ DOMAIN rows' = DOMAIN rows \cup {Len(rows) + 1}
        /\ \A i \in DOMAIN rows : rows'[i] = rows[i]
        /\ rows'[Len(rows) + 1].charge = n
    <3>1. \A i \in DOMAIN rows : rows'[i] = rows[i]
      BY <1>3, <2>1
    <3>2. rows'[Len(rows) + 1] = x
      BY <1>3, <2>1
    <3>3. DOMAIN rows' = DOMAIN rows \cup {Len(rows) + 1}
      BY <1>3, <2>1
    <3> QED
      BY <1>3, <3>1, <3>2, <3>3
  <2>3. \A c : Reopeners(c)' \subseteq Reopeners(c)
    BY <1>0, <1>1 DEF Reopeners, CardMoved
  <2>4. ASSUME NEW c \in DOMAIN captured, c # n
        PROVE  TallyMoves(c)
    <3>1. Refundable(c)' => Refundable(c)
      BY <1>0, <1>1, <2>4, <2>6 DEF Refundable, CardMoved
    <3> QED
      BY <1>0, <2>3, <3>1 DEF TallyMoves
  <2>5. ASSUME NEW c \in DOMAIN captured, c = n
        PROVE  TallyMoves(c)
    <3>1. cardReq[q].at = "save" /\ c = cardReq[q].n
      BY <1>0, <1>3, <2>5 DEF CardTypes
    <3>2. \A i \in DOMAIN rows : rows[i].charge # c
      BY <3>1 DEF CardInv, Charges
    <3>3. refunded[c] = 0
      BY <3>2 DEF Tallied
    <3>4. Reopeners(c) = {}
      BY <3>2 DEF Reopeners, CardInv, Copied, CopyTrue, Placed, Copying
    <3> QED
      BY <1>0, <2>3, <3>3, <3>4 DEF TallyMoves
  <2> QED
    BY <1>0, <1>1, <2>2, <2>4, <2>5, TalliesStay
<1>4. \/ UNCHANGED rows
      \/ cardReq[q].at = "save" /\ rows' = Append(rows, Completed(cardReq[q].key, cardReq[q].n))
      \/ cardReq[q].at = "saveFailed" /\ rows' = Append(rows, Row("failed", cardReq[q].key, 0))
  BY DEF SaveCompleted, SaveFailed, CardAt
<1>5. /\ Completed(cardReq[q].key, cardReq[q].n).charge = cardReq[q].n
      /\ Row("failed", cardReq[q].key, 0).charge = 0
  BY DEF Completed, Row
<1> QED
  BY <1>2, <1>3, <1>4, <1>5

\* A charge that was just captured has no row, so nothing refunds it yet.
LEMMA CaptureTally ==
  ASSUME CardInv, Tallied, NEW q \in CardRequest, Charge(q)
  PROVE  Tallied'
<1>0. /\ CardTypes /\ CardMoved(q) /\ UNCHANGED <<rows, events>> /\ cardReq[q].at = "charge"
      /\ captured \in Seq(Key \cup {NoHeader}) /\ refunded \in Seq(Nat)
      /\ Len(captured) \in Nat /\ Len(refunded) = Len(captured)
      /\ \A p \in CardRequest : Placed(cardReq[p])
  <2>1. CardMoved(q) /\ CardTypes /\ \A p \in CardRequest : Placed(cardReq[p])
    BY ChargeTypes DEF CardInv
  <2>2. UNCHANGED <<rows, events>> /\ cardReq[q].at = "charge"
    BY DEF Charge, CardAt
  <2> QED
    BY <2>1, <2>2 DEF CardTypes
<1>1. cardReq'[q].at \in {"save", "saveFailed", "release"}
  <2>1. ASSUME NEW l \in {"saveFailed", "release"}, CardGoto(q, l)
        PROVE  cardReq'[q].at \in {"save", "saveFailed", "release"}
    BY <1>0, <2>1, CardGoes DEF Working
  <2>2. CASE cardReq' = [cardReq EXCEPT ![q].at = "save", ![q].n = Len(captured) + 1]
    BY <1>0, <2>2 DEF CardTypes, CardReqs
  <2>3. \/ CardGoto(q, "saveFailed") \/ CardGoto(q, "release")
        \/ cardReq' = [cardReq EXCEPT ![q].at = "save", ![q].n = Len(captured) + 1]
    BY DEF Charge
  <2> QED
    BY <2>1, <2>2, <2>3
<1>2. cardFaults' \in {cardFaults, cardFaults + 1}
  <2>1. CardFault \/ NoCardFault
    BY DEF Charge
  <2> QED
    BY <1>0, <2>1, FaultTypes
<1>3. CASE UNCHANGED <<captured, refunded>>
  BY <1>0, <1>1, <1>2, <1>3, QuietTally
<1>4. CASE captured' = Append(captured, cardReq[q].key) /\ refunded' = Append(refunded, 0)
  <2>1. DOMAIN captured' = DOMAIN captured \cup {Len(captured) + 1}
    BY <1>0, <1>4
  <2>2. refunded'[Len(captured) + 1] = 0
    BY <1>0, <1>4
  <2>3. \A c \in DOMAIN captured : refunded'[c] = refunded[c]
    BY <1>0, <1>4
  <2>4. \A c : Reopeners(c)' \subseteq Reopeners(c) /\ (Refundable(c)' => Refundable(c))
    BY <1>0, <1>1 DEF Reopeners, Refundable, CardMoved
  <2>5. \A c \in DOMAIN captured : TallyMoves(c)
    BY <2>3, <2>4 DEF TallyMoves
  <2>6. \A i \in DOMAIN rows : rows[i].charge # Len(captured) + 1
    <3> SUFFICES ASSUME NEW i \in DOMAIN rows
                 PROVE  rows[i].charge # Len(captured) + 1
      OBVIOUS
    <3>1. rows[i] \in Copies
      BY <1>0 DEF CardTypes
    <3>2. rows[i].charge \in Nat
      BY <3>1, PaymentsAssumption DEF Copies
    <3>3. rows[i].charge <= Len(captured)
      BY DEF CardInv, Charges
    <3> QED
      BY <1>0, <3>2, <3>3
  <2>7. ASSUME NEW c, c = Len(captured) + 1
        PROVE  refunded'[c] = 0 /\ ~Refundable(c)' /\ Reopeners(c)' = {}
    <3>1. \A i \in DOMAIN rows : rows[i].charge # c
      BY <2>6, <2>7
    <3>2. ~Refundable(c)
      BY <3>1 DEF Refundable
    <3>3. Reopeners(c) = {}
      BY <1>0, <3>1 DEF Reopeners, CardInv, Copied, CopyTrue, Placed, Copying
    <3> QED
      BY <2>2, <2>4, <2>7, <3>2, <3>3
  <2>8. ChargesKept
    BY <1>0 DEF ChargesKept
  <2>9. \A c \in DOMAIN captured' :
          \/ c \in DOMAIN captured /\ TallyMoves(c) /\ refunded'[c] = refunded[c]
          \/ refunded'[c] = 0 /\ ~Refundable(c)' /\ Reopeners(c)' = {}
    BY <2>1, <2>3, <2>5, <2>7
  <2> QED
    BY <1>0, <1>2, <2>8, <2>9, TalliesStay
<1> QED
  BY <1>3, <1>4 DEF Charge, gateway

\* A row that is written again: a retry that was counted has no charge, a refund
\* that is committed used its turn up, a webhook completes a payment anew at most.
LEMMA RewriteTally ==
  ASSUME CardInv, Tallied, NEW q \in CardRequest,
         CountRetry(q) \/ CommitRefund(q) \/ SaveWebhook(q)
  PROVE  Tallied'
<1>0. /\ CardTypes /\ CardMoved(q) /\ CardEnd(q) /\ UNCHANGED <<captured, refunded, events>>
      /\ CardFault \/ NoCardFault
      /\ cardReq[q].job \in Copying
      /\ \A p \in CardRequest : Placed(cardReq[p])
  BY RewriteTypes DEF CardInv, CountRetry, CommitRefund, SaveWebhook, gateway
<1>1. cardReq'[q].at = "idle" /\ cardFaults' \in {cardFaults, cardFaults + 1}
  BY <1>0, CardEnds, FaultTypes DEF CardIdle
<1>2. \A c : Reopeners(c)' \subseteq Reopeners(c)
  BY <1>0, <1>1 DEF Reopeners, CardMoved
<1>3. CASE UNCHANGED rows /\ CardFault
  <2>1. \A c \in DOMAIN captured : TallyMoves(c)
    BY <1>0, <1>2, <1>3 DEF TallyMoves, CardFault
  <2>2. ChargesKept
    BY <1>3 DEF ChargesKept
  <2> QED
    BY <1>0, <1>1, <2>1, <2>2, TalliesStay
<1>4. ASSUME NEW x, Rewrites(q, x),
             \/ cardReq[q].at # "webhook" /\ cardReq[q].at # "commit" /\ x.charge = 0
             \/ cardReq[q].at = "commit" /\ x.status # "completed"
             \/ cardReq[q].at = "webhook" /\ x.charge = cardReq[q].copy.charge
      PROVE  Tallied'
  <2> DEFINE i == cardReq[q].id
  <2>1. /\ DOMAIN rows' = DOMAIN rows /\ i \in DOMAIN rows /\ rows'[i] = x
        /\ \A j \in DOMAIN rows \ {i} : rows'[j] = rows[j]
        /\ \A j \in DOMAIN rows : rows'[j].charge = rows[j].charge
        /\ x.charge = rows[i].charge
    BY <1>0, <1>4, RewrittenTypes DEF Rewrites
  <2>2. ChargesKept
    BY <2>1 DEF ChargesKept
  <2>3. \A c \in DOMAIN captured : c # 0
    BY <1>0 DEF CardTypes
  <2> HIDE DEF i
  <2>4. CASE cardReq[q].at # "webhook" /\ cardReq[q].at # "commit" /\ x.charge = 0
    <3>1. \A c \in DOMAIN captured : Refundable(c)' => Refundable(c)
      BY <1>0, <1>1, <2>1, <2>3, <2>4 DEF Refundable, CardMoved
    <3>2. \A c \in DOMAIN captured : TallyMoves(c)
      BY <1>0, <1>2, <3>1 DEF TallyMoves
    <3> QED
      BY <1>0, <1>1, <2>2, <3>2, TalliesStay
  <2>5. CASE cardReq[q].at = "commit" /\ x.status # "completed"
    <3>1. ASSUME NEW c \in DOMAIN captured, Refundable(c)'
          PROVE  Refundable(c)
      <4>1. PICK j \in DOMAIN rows' :
              /\ rows'[j].charge = c /\ rows'[j].status = "completed"
              /\ \A p \in CardRequest : ~(cardReq'[p].at = "commit" /\ cardReq'[p].id = j)
        BY <3>1 DEF Refundable
      <4>2. j \in DOMAIN rows /\ j # i /\ rows'[j] = rows[j]
        BY <2>1, <2>5, <4>1
      <4>3. \A p \in CardRequest : ~(cardReq[p].at = "commit" /\ cardReq[p].id = j)
        BY <1>0, <4>1, <4>2 DEF CardMoved, i
      <4> QED
        BY <4>1, <4>2, <4>3 DEF Refundable
    <3>2. \A c \in DOMAIN captured : TallyMoves(c)
      BY <1>0, <1>2, <3>1 DEF TallyMoves
    <3> QED
      BY <1>0, <1>1, <2>2, <3>2, TalliesStay
  <2>6. CASE cardReq[q].at = "webhook" /\ x.charge = cardReq[q].copy.charge
    <3>1. ASSUME NEW c \in DOMAIN captured, c # x.charge
          PROVE  TallyMoves(c)
      <4>1. Refundable(c)' => Refundable(c)
        BY <1>0, <1>1, <2>1, <2>6, <3>1 DEF Refundable, CardMoved
      <4> QED
        BY <1>0, <1>2, <4>1 DEF TallyMoves
    <3>2. ASSUME NEW c \in DOMAIN captured, c = x.charge
          PROVE  TallyMoves(c)
      <4>1. q \in Reopeners(c) /\ Reopeners(c)' \subseteq Reopeners(c) \ {q}
        BY <1>1, <1>2, <2>6, <3>2 DEF Reopeners
      <4> QED
        BY <1>0, <4>1 DEF TallyMoves
    <3> QED
      BY <1>0, <1>1, <2>2, <3>1, <3>2, TalliesStay
  <2> QED
    BY <1>4, <2>4, <2>5, <2>6
<1>5. CASE CountRetry(q) /\ Rewrites(q, cardReq[q].copy)
  <2>1. cardReq[q].job = "retry" /\ cardReq[q].at = "returned"
    BY <1>5 DEF CountRetry, CardAt
  <2>2. cardReq[q].copy.charge = 0
    BY <1>0, <2>1 DEF CardInv, Copied, CopyTrue
  <2> QED
    BY <1>4, <1>5, <2>1, <2>2
<1>6. ASSUME CommitRefund(q), NEW t \in {"refunded", "partial_refund"},
             Rewrites(q, [cardReq[q].copy EXCEPT !.status = t])
      PROVE  Tallied'
  <2>1. cardReq[q].at = "commit" /\ cardReq[q].copy \in Copies
    BY <1>0, <1>6 DEF CommitRefund, CardAt, CardInv, Copied, CopyTrue
  <2>2. [cardReq[q].copy EXCEPT !.status = t].status # "completed"
    BY <2>1 DEF Copies
  <2> QED
    BY <1>4, <1>6, <2>1, <2>2
<1>7. ASSUME SaveWebhook(q), NEW t \in {"pending", "completed", "refunded"},
             Rewrites(q, [cardReq[q].copy EXCEPT !.status = t])
      PROVE  Tallied'
  <2>1. cardReq[q].at = "webhook" /\ cardReq[q].copy \in Copies
    BY <1>0, <1>7 DEF SaveWebhook, CardAt, CardInv, Copied, CopyTrue
  <2>2. [cardReq[q].copy EXCEPT !.status = t].charge = cardReq[q].copy.charge
    BY <2>1 DEF Copies
  <2> QED
    BY <1>4, <1>7, <2>1, <2>2
<1> QED
  BY <1>3, <1>5, <1>6, <1>7, RewriteTypes

\* The gateway gives money back for a row that is locked, and so can be refunded.
LEMMA RefundTally ==
  ASSUME CardInv, Tallied, NEW q \in CardRequest, RefundAtGateway(q)
  PROVE  Tallied'
<1> DEFINE g == cardReq[q].copy.charge
           i == cardReq[q].id
<1>0. /\ CardTypes /\ CardMoved(q) /\ UNCHANGED <<rows, captured, events>>
      /\ cardReq[q].at = "refund" /\ cardReq[q].job = "refund"
      /\ refunded \in Seq(Nat)
  <2>1. CardMoved(q) /\ CardTypes /\ Placed(cardReq[q])
    BY RefundStep DEF CardInv
  <2>2. UNCHANGED <<rows, captured, events>> /\ cardReq[q].at = "refund"
    BY DEF RefundAtGateway, CardAt
  <2> QED
    BY <2>1, <2>2 DEF CardTypes, Placed, Locking
<1>1. cardFaults' \in {cardFaults, cardFaults + 1}
  <2>1. CardFault \/ NoCardFault
    BY DEF RefundAtGateway
  <2> QED
    BY <1>0, <2>1, FaultTypes
<1>2. /\ i \in DOMAIN rows /\ rows[i].charge = g /\ rows[i].status = "completed"
  BY <1>0 DEF CardInv, Copied, CopyTrue, Copying, Locking
<1>3. \A p \in CardRequest : ~(cardReq[p].at = "commit" /\ cardReq[p].id = i)
  BY <1>0 DEF CardInv, Copied, Locking
<1>4. ChargesKept
  BY <1>0 DEF ChargesKept
<1>5. Refundable(g)
  BY <1>2, <1>3 DEF Refundable
<1>6. ASSUME NEW l \in {"commit", "idle"}, cardReq'[q].at = l, l # "idle" => cardReq'[q].id = i
      PROVE  \A c : Reopeners(c)' \subseteq Reopeners(c) /\ (Refundable(c)' => Refundable(c))
  BY <1>0, <1>6 DEF Reopeners, Refundable, CardMoved
<1> HIDE DEF g, i
<1>7. CASE CardEnd(q) /\ UNCHANGED refunded
  <2>1. cardReq'[q].at = "idle"
    BY <1>0, <1>7, CardEnds DEF CardIdle
  <2> QED
    BY <1>0, <1>1, <1>7, <2>1, QuietTally
<1>8. CASE refunded' = [refunded EXCEPT ![g] = @ + 1] /\ CardGoto(q, "commit")
  <2>1. cardReq'[q].at = "commit" /\ cardReq'[q].id = i
    BY <1>0, <1>8, CardGoes DEF Locking, i
  <2>2. \A c : Reopeners(c)' \subseteq Reopeners(c) /\ (Refundable(c)' => Refundable(c))
    BY <1>6, <2>1
  <2>3. ASSUME NEW c, c = g, Refundable(c)'
        PROVE  FALSE
    <3>1. PICK j \in DOMAIN rows :
            /\ rows[j].charge = g
            /\ \A p \in CardRequest : ~(cardReq'[p].at = "commit" /\ cardReq'[p].id = j)
      BY <1>0, <2>3 DEF Refundable
    <3>2. j # i
      BY <2>1, <3>1
    <3>3. g # 0
      BY <1>0 DEF CardInv, Copied, CopyTrue, Copying, g
    <3> QED
      BY <1>2, <3>1, <3>2, <3>3 DEF CardInv, Charges
  <2>4. \A c \in DOMAIN captured :
          /\ c = g => refunded'[c] = refunded[c] + 1
          /\ c # g => refunded'[c] = refunded[c]
    BY <1>0, <1>8 DEF CardTypes
  <2>5. ASSUME NEW c \in DOMAIN captured
        PROVE  TallyMoves(c) /\ (refunded'[c] # 0 =>
                 refunded[c] # 0 \/ \E k \in DOMAIN rows : rows[k].charge = c)
    <3>1. CASE c = g
      BY <1>2, <1>5, <2>2, <2>3, <2>4, <3>1 DEF TallyMoves
    <3>2. CASE c # g
      BY <2>2, <2>4, <3>2 DEF TallyMoves
    <3> QED
      BY <3>1, <3>2
  <2> QED
    BY <1>0, <1>1, <1>4, <2>5, TalliesStay
<1>9. CASE refunded' = [refunded EXCEPT ![g] = @ + 1] /\ CardEnd(q) /\ CardFault
  <2>1. cardReq'[q].at = "idle"
    BY <1>0, <1>9, CardEnds DEF CardIdle
  <2>2. \A c : Reopeners(c)' \subseteq Reopeners(c) /\ (Refundable(c)' => Refundable(c))
    BY <1>6, <2>1
  <2>4. \A c \in DOMAIN captured :
          /\ c = g => refunded'[c] = refunded[c] + 1
          /\ c # g => refunded'[c] = refunded[c]
    BY <1>0, <1>9 DEF CardTypes
  <2>5. ASSUME NEW c \in DOMAIN captured
        PROVE  TallyMoves(c) /\ (refunded'[c] # 0 =>
                 refunded[c] # 0 \/ \E k \in DOMAIN rows : rows[k].charge = c)
    <3>1. CASE c = g
      BY <1>2, <1>9, <2>2, <2>4, <3>1 DEF TallyMoves, CardFault
    <3>2. CASE c # g
      BY <2>2, <2>4, <3>2 DEF TallyMoves
    <3> QED
      BY <3>1, <3>2
  <2> QED
    BY <1>0, <1>1, <1>4, <2>5, TalliesStay
<1> QED
  BY <1>7, <1>8, <1>9 DEF RefundAtGateway, g

\* Every step keeps the tallies.
LEMMA TalliedStep ==
  ASSUME CardInv, Tallied, [CardNext]_cardVars
  PROVE  Tallied'
<1>0. CardTypes /\ \A q \in CardRequest : Placed(cardReq[q])
  BY DEF CardInv
<1>1. ASSUME NEW q \in CardRequest,
             \/ \E k \in ClientKey \cup {NoHeader} : SubmitPayment(q, k)
             \/ FindSchedule(q) \/ ReadScheduleToEdit(q)
             \/ \E i \in DOMAIN rows : FindFailed(q, i) \/ BeginCardRefund(q, i) \/ ReadForWebhook(q, i)
      PROVE  Tallied'
  <2>1. /\ CardMoved(q) /\ UNCHANGED <<rows, captured, refunded, cardFaults>> /\ cardReq[q].at = "idle"
    BY <1>1, StartTypes DEF CardMoved, CardInv, CardTypes
  <2>2. \A c : Refundable(c)' => Refundable(c)
    BY <2>1 DEF Refundable, CardMoved
  <2>3. \A c : Reopeners(c)' \subseteq Reopeners(c) \cup {q}
    BY <2>1 DEF Reopeners, CardMoved
  <2>4. CASE events' = events + 1
    <3>1. \A c \in DOMAIN captured : TallyMoves(c)
      BY <2>1, <2>2, <2>3, <2>4 DEF TallyMoves
    <3>2. ChargesKept
      BY <2>1 DEF ChargesKept
    <3> QED
      BY <2>1, <2>4, <3>1, <3>2, TalliesStay
  <2>5. CASE events' = events /\ cardReq'[q].at # "webhook"
    BY <2>1, <2>5, QuietTally
  <2>6. \/ events' = events + 1
        \/ events' = events /\ cardReq'[q].at # "webhook"
    BY <1>0, <1>1 DEF SubmitPayment, FindSchedule, ReadScheduleToEdit, FindFailed, BeginCardRefund,
                      ReadForWebhook, CardStart, CardTypes
  <2> QED
    BY <2>4, <2>5, <2>6
<1>2. ASSUME NEW q \in CardRequest,
             Begin(q) \/ LookupRow(q) \/ Complete(q) \/ Release(q) \/ CheckRetry(q)
      PROVE  Tallied'
  <2>1. CardMoved(q)
    BY <1>2, KeyTypes
  <2>2. /\ UNCHANGED <<rows, captured, refunded, cardFaults, events>> /\ cardReq[q].at # "commit"
        /\ \/ CardEnd(q)
           \/ \E l \in {"lookup", "complete", "charge", "release", "begin", "returned", "threw"} :
                CardGoto(q, l)
    BY <1>2 DEF Begin, LookupRow, Complete, Release, CheckRetry, CardAt, gateway, Return, Throw
  <2>3. cardReq'[q].at # "webhook"
    <3>1. CASE CardEnd(q)
      BY <1>0, <3>1, CardEnds DEF CardIdle
    <3>2. ASSUME NEW l \in {"lookup", "complete", "charge", "release", "begin", "returned", "threw"},
                 CardGoto(q, l)
          PROVE  cardReq'[q].at # "webhook"
      BY <1>0, <3>2, CardGoes DEF Working
    <3> QED
      BY <2>2, <3>1, <3>2
  <2> QED
    BY <2>1, <2>2, <2>3, QuietTally
<1>3. ASSUME NEW q \in CardRequest,
             ScheduleWithoutMethod(q) \/ AdvanceSchedule(q) \/ DelaySchedule(q) \/ EditSchedule(q)
      PROVE  Tallied'
  <2>1. /\ CardMoved(q) /\ UNCHANGED <<rows, captured, refunded>>
        /\ cardReq'[q].at \in {"idle", "threw"}
    BY <1>3, PlanTypes
  <2>2. /\ cardReq[q].at # "commit" /\ (CardFault \/ UNCHANGED cardFaults) /\ UNCHANGED events
    BY <1>3 DEF ScheduleWithoutMethod, AdvanceSchedule, DelaySchedule, EditSchedule, CardAt, NoCardFault
  <2> QED
    BY <2>1, <2>2, QuietTally DEF CardFault
<1>4. ASSUME NEW q \in CardRequest, CardCrash(q)
      PROVE  Tallied'
  <2>1. CardMoved(q) /\ cardReq'[q].at = "idle"
    BY <1>0, <1>4, EndTypes, CardEnds DEF CardCrash, CardMoved, CardIdle
  <2>2. UNCHANGED <<rows, captured, refunded, events>> /\ cardFaults' = cardFaults + 1
    BY <1>4 DEF CardCrash, CardFault, gateway
  <2>3. \A c : Reopeners(c)' \subseteq Reopeners(c)
    BY <2>1 DEF Reopeners, CardMoved
  <2>4. \A c \in DOMAIN captured : TallyMoves(c)
    BY <2>2, <2>3 DEF TallyMoves
  <2>5. ChargesKept
    BY <2>2 DEF ChargesKept
  <2> QED
    BY <2>2, <2>4, <2>5, TalliesStay
<1>5. ASSUME (\E k \in Key : MarkerLapses(k)) \/ RemovePaymentMethod \/ UNCHANGED cardVars
      PROVE  Tallied'
  <2>1. UNCHANGED <<rows, captured, refunded, cardReq, cardFaults, events>>
    BY <1>5 DEF MarkerLapses, RemovePaymentMethod, cardVars, gateway
  <2> QED
    BY <2>1 DEF Tallied, Tally, Refundable, Reopeners
<1>6. ASSUME NEW q \in CardRequest,
             \/ \E k \in ClientKey \cup {NoHeader} : SubmitPayment(q, k)
             \/ RecordPayment(q)
             \/ FindSchedule(q) \/ ScheduleWithoutMethod(q)
             \/ AdvanceSchedule(q) \/ DelaySchedule(q)
             \/ ReadScheduleToEdit(q) \/ EditSchedule(q)
             \/ \E i \in DOMAIN rows :
                  FindFailed(q, i) \/ BeginCardRefund(q, i) \/ ReadForWebhook(q, i)
             \/ CheckRetry(q) \/ CountRetry(q)
             \/ RefundAtGateway(q) \/ CommitRefund(q) \/ SaveWebhook(q)
             \/ CardCrash(q)
      PROVE  Tallied'
  BY <1>1, <1>2, <1>3, <1>4, <1>6, AddTally, CaptureTally, RewriteTally, RefundTally DEF RecordPayment
<1> QED
  BY <1>5, <1>6 DEF CardNext

\* A charge is refunded once, and once more for a webhook or a fault at most.
THEOREM RefundOnceAlways == CardSpec => []RefundOnce
<1>1. CardInit => Tallied
  BY DEF CardInit, Tallied
<1>2. CardInv /\ Tallied /\ [CardNext]_cardVars => CardInv' /\ Tallied'
  BY TalliedStep, CardInvStep
<1>3. CardInv /\ Tallied => RefundOnce
  <2> SUFFICES ASSUME CardInv, Tallied, NEW c \in DOMAIN refunded
               PROVE  refunded[c] <= 1 + events + cardFaults
    BY DEF RefundOnce
  <2>1. /\ c \in DOMAIN captured /\ refunded[c] \in Nat /\ events \in Nat /\ cardFaults \in Nat
    BY PaymentsAssumption DEF CardInv, CardTypes
  <2>2. Tally(c) <= 1 + events + cardFaults
    BY <2>1 DEF Tallied
  <2>3. Cardinality(Reopeners(c)) \in Nat
    BY FewReopeners
  <2> QED
    BY <2>1, <2>2, <2>3 DEF Tally
<1> QED
  BY <1>1, <1>2, <1>3, CardInvInit, PTL DEF CardSpec

-----------------------------------------------------------------------------
(* What compounding yields.                                                *)
-----------------------------------------------------------------------------

\* The terms of a deposit, and what one period makes of a balance.
InterestTerm ==
  [rate: Nat, frequency: {"daily", "weekly", "monthly", "quarterly", "annually"},
   recipient: {"tenant", "landlord", "split"}]
Gain(b, t) == (b * t.rate) \div (PerYear[t.frequency] * 10000)

\* The recursion over all periods, or over the first n.
IsGrowth(g, b, t, S) == g = [k \in S |-> IF k = 0 THEN b ELSE g[k - 1] + Gain(g[k - 1], t)]

\* Compounded is the function its recursive definition chooses.
LEMMA CompoundedDef ==
  ASSUME NEW b, NEW t, NEW n
  PROVE  Compounded(b, t, n) = (CHOOSE g : IsGrowth(g, b, t, Nat))[n]
BY DEF Compounded, IsGrowth, Gain

\* A balance gains an integer, and not less than a smaller one at a lower rate.
LEMMA GainType ==
  ASSUME NEW b \in Int, NEW t \in InterestTerm
  PROVE  Gain(b, t) \in Int /\ (b >= 0 => Gain(b, t) >= 0)
<1>1. b * t.rate \in Int /\ (b >= 0 => b * t.rate >= 0)
  BY DEF InterestTerm
<1>2. PerYear[t.frequency] \in {365, 52, 12, 4, 1}
  BY DEF PerYear, InterestTerm
<1> DEFINE n == b * t.rate
           y == PerYear[t.frequency]
<1> HIDE DEF n, y
<1> QED
  BY <1>1, <1>2 DEF Gain, n, y

\* A greater balance at a greater rate gains no less.
LEMMA GainGrows ==
  ASSUME NEW b \in Nat, NEW c \in Nat, b <= c, NEW t \in InterestTerm, NEW u \in InterestTerm,
         t.frequency = u.frequency, t.rate <= u.rate
  PROVE  Gain(b, t) <= Gain(c, u)
<1> DEFINE n == b * t.rate
           m == c * u.rate
           y == PerYear[t.frequency]
<1>1. n \in Nat /\ m \in Nat /\ n <= m
  <2>1. t.rate \in Nat /\ u.rate \in Nat
    BY DEF InterestTerm
  <2>2. b * t.rate <= c * t.rate /\ c * t.rate <= c * u.rate
    BY <2>1
  <2> QED
    BY <2>1, <2>2
<1>2. y \in {365, 52, 12, 4, 1} /\ PerYear[u.frequency] = y
  BY DEF PerYear, InterestTerm
<1>3. Gain(b, t) = n \div (y * 10000) /\ Gain(c, u) = m \div (y * 10000)
  BY <1>2 DEF Gain
<1> HIDE DEF n, m, y
<1>4. n \div (y * 10000) <= m \div (y * 10000)
  BY <1>1, <1>2
<1> QED
  BY <1>3, <1>4

\* Two solutions agree where both are defined.
LEMMA GrowthUnique ==
  ASSUME NEW b, NEW t, NEW S, NEW T, NEW g, IsGrowth(g, b, t, S), NEW h, IsGrowth(h, b, t, T),
         \A n \in S : n \in Nat /\ \A k \in 0..n : k \in S,
         \A n \in T : n \in Nat /\ \A k \in 0..n : k \in T
  PROVE  \A n \in S \cap T : g[n] = h[n]
<1> DEFINE Good == {n \in Nat : n \in S \cap T => g[n] = h[n]}
<1>1. 0 \in Good
  BY DEF IsGrowth
<1>2. ASSUME NEW n \in Nat, n \in Good
      PROVE  n + 1 \in Good
  <2> SUFFICES ASSUME n + 1 \in S \cap T
               PROVE  g[n + 1] = h[n + 1]
    OBVIOUS
  <2>1. n \in S \cap T /\ (n + 1) - 1 = n /\ n + 1 # 0
    OBVIOUS
  <2>2. g[n] = h[n]
    BY <1>2, <2>1
  <2>3. g[n + 1] = g[n] + Gain(g[n], t) /\ h[n + 1] = h[n] + Gain(h[n], t)
    BY <2>1 DEF IsGrowth
  <2> QED
    BY <2>2, <2>3
<1> HIDE DEF Good
<1>3. \A n \in Nat : n \in Good
  BY <1>1, <1>2, NumberInduction
<1> QED
  BY <1>3 DEF Good

\* There is a solution over the first n periods, and one over all.
LEMMA GrowthExists ==
  ASSUME NEW b, NEW t
  PROVE  \E g : IsGrowth(g, b, t, Nat)
<1> DEFINE Good == {n \in Nat : \E g : IsGrowth(g, b, t, 0..n)}
           f(n) == CHOOSE g : IsGrowth(g, b, t, 0..n)
           g == [k \in Nat |-> f(k)[k]]
<1>1. 0 \in Good
  <2>1. IsGrowth([k \in 0..0 |-> b], b, t, 0..0)
    BY DEF IsGrowth
  <2> QED
    BY <2>1
<1>2. ASSUME NEW n \in Nat, n \in Good
      PROVE  n + 1 \in Good
  <2>1. PICK h : IsGrowth(h, b, t, 0..n)
    BY <1>2
  <2> DEFINE e == [k \in 0..(n + 1) |-> IF k = n + 1 THEN h[n] + Gain(h[n], t) ELSE h[k]]
  <2>2. ASSUME NEW k \in 0..(n + 1)
        PROVE  e[k] = IF k = 0 THEN b ELSE e[k - 1] + Gain(e[k - 1], t)
    <3>1. CASE k = n + 1
      <4>1. k - 1 = n /\ k # 0 /\ n \in 0..(n + 1) /\ n # n + 1
        BY <3>1
      <4> QED
        BY <3>1, <4>1
    <3>2. CASE k = 0
      BY <2>1, <3>2 DEF IsGrowth
    <3>3. CASE k # n + 1 /\ k # 0
      <4>1. k \in 0..n /\ k - 1 \in 0..n /\ k - 1 \in 0..(n + 1) /\ k - 1 # n + 1
        BY <3>3
      <4>2. h[k] = h[k - 1] + Gain(h[k - 1], t)
        BY <2>1, <3>3, <4>1 DEF IsGrowth
      <4> QED
        BY <3>3, <4>1, <4>2
    <3> QED
      BY <3>1, <3>2, <3>3
  <2>3. e = [k \in 0..(n + 1) |-> e[k]]
    OBVIOUS
  <2> HIDE DEF e
  <2>4. IsGrowth(e, b, t, 0..(n + 1))
    BY <2>2, <2>3 DEF IsGrowth
  <2> QED
    BY <2>4
<1>3. \A n \in Nat : IsGrowth(f(n), b, t, 0..n)
  <2>1. \A n \in Nat : n \in Good
    <3> HIDE DEF Good
    <3> QED
      BY <1>1, <1>2, NumberInduction
  <2> QED
    BY <2>1
<1> HIDE DEF f
<1>4. ASSUME NEW n \in Nat, n # 0
      PROVE  f(n)[n - 1] = f(n - 1)[n - 1]
  <2>1. n - 1 \in Nat /\ n - 1 \in (0..n) \cap (0..(n - 1))
    BY <1>4
  <2>2. IsGrowth(f(n), b, t, 0..n) /\ IsGrowth(f(n - 1), b, t, 0..(n - 1))
    BY <1>3, <2>1
  <2>3. /\ \A k \in 0..n : k \in Nat /\ \A j \in 0..k : j \in 0..n
        /\ \A k \in 0..(n - 1) : k \in Nat /\ \A j \in 0..k : j \in 0..(n - 1)
    BY <2>1
  <2> QED
    BY <2>1, <2>2, <2>3, GrowthUnique
<1>5. ASSUME NEW n \in Nat
      PROVE  g[n] = IF n = 0 THEN b ELSE g[n - 1] + Gain(g[n - 1], t)
  <2>1. f(n)[n] = IF n = 0 THEN b ELSE f(n)[n - 1] + Gain(f(n)[n - 1], t)
    BY <1>3 DEF IsGrowth
  <2>2. n # 0 => n - 1 \in Nat
    OBVIOUS
  <2> QED
    BY <1>4, <2>1, <2>2
<1>6. g = [k \in Nat |-> g[k]]
  OBVIOUS
<1> HIDE DEF g
<1> QED
  BY <1>5, <1>6 DEF IsGrowth

\* What the model's function computes, one period at a time.
LEMMA CompoundedSteps ==
  ASSUME NEW b, NEW t
  PROVE  /\ Compounded(b, t, 0) = b
         /\ \A n \in Nat :
              Compounded(b, t, n + 1) = Compounded(b, t, n) + Gain(Compounded(b, t, n), t)
<1> DEFINE g == CHOOSE h : IsGrowth(h, b, t, Nat)
<1>1. IsGrowth(g, b, t, Nat)
  BY GrowthExists
<1>2. \A n : Compounded(b, t, n) = g[n]
  BY CompoundedDef
<1> HIDE DEF g
<1>3. g[0] = b
  BY <1>1 DEF IsGrowth
<1>4. ASSUME NEW n \in Nat
      PROVE  g[n + 1] = g[n] + Gain(g[n], t)
  <2>1. n + 1 \in Nat /\ n + 1 # 0 /\ (n + 1) - 1 = n
    OBVIOUS
  <2> QED
    BY <1>1, <2>1 DEF IsGrowth
<1> QED
  BY <1>2, <1>3, <1>4

\* A balance stays a number, never shrinks, and grows on from where it is.
LEMMA CompoundedType ==
  ASSUME NEW b \in Nat, NEW t \in InterestTerm
  PROVE  \A n \in Nat : Compounded(b, t, n) \in Nat /\ Compounded(b, t, n) >= b
<1> DEFINE Good == {n \in Nat : Compounded(b, t, n) \in Nat /\ Compounded(b, t, n) >= b}
<1>1. 0 \in Good
  BY CompoundedSteps
<1>2. ASSUME NEW n \in Nat, n \in Good
      PROVE  n + 1 \in Good
  <2>1. Compounded(b, t, n) \in Nat /\ Compounded(b, t, n) >= b
    BY <1>2
  <2>2. Gain(Compounded(b, t, n), t) \in Int /\ Gain(Compounded(b, t, n), t) >= 0
    BY <2>1, GainType
  <2>3. Compounded(b, t, n + 1) = Compounded(b, t, n) + Gain(Compounded(b, t, n), t)
    BY CompoundedSteps
  <2>4. Compounded(b, t, n + 1) \in Nat /\ Compounded(b, t, n + 1) >= b
    BY <2>1, <2>2, <2>3
  <2> QED
    BY <2>4
<1>3. \A n \in Nat : n \in Good
  <2> HIDE DEF Good
  <2> QED
    BY <1>1, <1>2, NumberInduction
<1> QED
  BY <1>3

\* Compounding over m and then n periods is compounding over their sum.
LEMMA CompoundedOn ==
  ASSUME NEW b \in Nat, NEW t \in InterestTerm, NEW m \in Nat
  PROVE  \A n \in Nat : Compounded(Compounded(b, t, m), t, n) = Compounded(b, t, m + n)
<1> DEFINE c == Compounded(b, t, m)
           Good == {n \in Nat : Compounded(c, t, n) = Compounded(b, t, m + n)}
<1>1. 0 \in Good
  <2>1. Compounded(c, t, 0) = c /\ m + 0 = m
    BY CompoundedSteps
  <2> QED
    BY <2>1
<1>2. ASSUME NEW n \in Nat, n \in Good
      PROVE  n + 1 \in Good
  <2>1. Compounded(c, t, n) = Compounded(b, t, m + n)
    BY <1>2
  <2>2. Compounded(c, t, n + 1) = Compounded(c, t, n) + Gain(Compounded(c, t, n), t)
    BY CompoundedSteps
  <2>3. m + n \in Nat /\ m + (n + 1) = (m + n) + 1
    OBVIOUS
  <2>4. Compounded(b, t, (m + n) + 1)
          = Compounded(b, t, m + n) + Gain(Compounded(b, t, m + n), t)
    <3>1. ASSUME NEW j \in Nat
          PROVE  Compounded(b, t, j + 1) = Compounded(b, t, j) + Gain(Compounded(b, t, j), t)
      BY CompoundedSteps
    <3> QED
      BY <2>3, <3>1
  <2>5. Compounded(c, t, n + 1) = Compounded(b, t, m + (n + 1))
    BY <2>1, <2>2, <2>3, <2>4
  <2> QED
    BY <2>5
<1>3. \A n \in Nat : n \in Good
  <2> HIDE DEF Good
  <2> QED
    BY <1>1, <1>2, NumberInduction
<1> QED
  BY <1>3

\* A balance only grows with the periods.
LEMMA CompoundedLonger ==
  ASSUME NEW b \in Nat, NEW t \in InterestTerm, NEW m \in Nat, NEW n \in Nat, m <= n
  PROVE  Compounded(b, t, m) <= Compounded(b, t, n)
<1>1. n - m \in Nat /\ m + (n - m) = n
  OBVIOUS
<1>2. Compounded(b, t, m) \in Nat
  BY CompoundedType
<1>3. Compounded(Compounded(b, t, m), t, n - m) >= Compounded(b, t, m)
  BY <1>1, <1>2, CompoundedType
<1>4. Compounded(Compounded(b, t, m), t, n - m) = Compounded(b, t, m + (n - m))
  BY <1>1, CompoundedOn
<1> QED
  BY <1>1, <1>3, <1>4

\* A greater balance at a higher rate earns as much at least.
LEMMA CompoundedMore ==
  ASSUME NEW b \in Nat, NEW c \in Nat, b <= c, NEW t \in InterestTerm, NEW u \in InterestTerm,
         t.frequency = u.frequency, t.rate <= u.rate
  PROVE  \A n \in Nat : Compounded(b, t, n) - b <= Compounded(c, u, n) - c
<1> DEFINE x(n) == Compounded(b, t, n)
           y(n) == Compounded(c, u, n)
           Good == {n \in Nat : x(n) - b <= y(n) - c}
<1>1. 0 \in Good
  BY CompoundedSteps
<1>2. ASSUME NEW n \in Nat, n \in Good
      PROVE  n + 1 \in Good
  <2>1. x(n) - b <= y(n) - c
    BY <1>2
  <2>2. x(n) \in Nat /\ y(n) \in Nat
    BY CompoundedType
  <2>3. x(n) <= y(n)
    BY <2>1, <2>2
  <2>4. x(n + 1) = x(n) + Gain(x(n), t) /\ y(n + 1) = y(n) + Gain(y(n), u)
    BY CompoundedSteps
  <2> HIDE DEF x, y
  <2>5. Gain(x(n), t) <= Gain(y(n), u)
    BY <2>2, <2>3, GainGrows
  <2>6. Gain(x(n), t) \in Int /\ Gain(y(n), u) \in Int
    BY <2>2, GainType
  <2>7. x(n + 1) - b <= y(n + 1) - c
    BY <2>1, <2>2, <2>4, <2>5, <2>6
  <2> QED
    BY <2>7
<1>3. \A n \in Nat : n \in Good
  <2> HIDE DEF Good
  <2> QED
    BY <1>1, <1>2, NumberInduction
<1> QED
  BY <1>3

-----------------------------------------------------------------------------
(* Interest is earned once.                                                *)
-----------------------------------------------------------------------------

InterestTypes ==
  /\ config \in [Agreement -> Terms \cup {NoConfig}]
  /\ interest \in [Agreement -> [principal: Nat, accrued: Nat, total: Nat, last: Nat \cup {-1}]]
  /\ reserve \in [Agreement -> Nat]
  /\ pool \in Int /\ today \in 0..LastDay
  /\ used \in [Agreement -> SUBSET Terms]
  /\ since \in [Agreement -> Nat \cup {-1}]
  /\ paid \in [Agreement -> Nat]

\* An agreement without terms, and one with terms.
Bare(a) ==
  /\ config[a] = NoConfig /\ interest[a] = NoInterest
  /\ used[a] = {} /\ since[a] = -1 /\ paid[a] = 0

Earning(a) ==
  /\ config[a] \in used[a]
  /\ interest[a].principal > 0
  /\ interest[a].total = interest[a].principal + interest[a].accrued
  /\ since[a] \in 0..today /\ interest[a].last \in since[a]..today

\* The whole periods from the first terms to the last accrual.
Periods(a, t) == (interest[a].last - since[a]) \div Period[t.frequency]

\* Terms at least as good as all the agreement had, and of their frequency.
AsGood(a, t) == \A u \in used[a] : u.rate <= t.rate /\ u.frequency = t.frequency

\* What was paid and is owed is no more than such terms yield over those periods;
\* under one set of terms, before any is paid, it is what they yield over some.
AtMost(a) ==
  \A t \in InterestTerm : AsGood(a, t) =>
    paid[a] + interest[a].total <= Compounded(interest[a].principal, t, Periods(a, t))

Exactly(a) ==
  \A t \in InterestTerm : used[a] = {t} /\ paid[a] = 0 =>
    \E n \in 0..Periods(a, t) : interest[a].total = Compounded(interest[a].principal, t, n)

Earns(a) == Bare(a) \/ (Earning(a) /\ AtMost(a) /\ Exactly(a))

EarnInv == InterestTypes /\ \A a \in Agreement : Earns(a)

\* The terms of the instance are terms, and each has its period in days.
LEMMA TermTypes ==
  /\ Terms \subseteq InterestTerm /\ NoConfig \notin InterestTerm
  /\ \A t \in InterestTerm : Period[t.frequency] \in {1, 7, 30, 90, 365}
BY InterestAssumption DEF InterestTerm, NoConfig, Period

\* Periods that follow one another make no more than those of the whole time.
LEMMA PeriodsAdd ==
  ASSUME NEW x \in Nat, NEW y \in Nat, NEW p \in {1, 7, 30, 90, 365}
  PROVE  /\ x \div p \in Nat /\ y \div p \in Nat
         /\ x \div p + y \div p <= (x + y) \div p
OBVIOUS

\* An agreement that a step does not touch earns as before, as days pass.
LEMMA EarnsOn ==
  ASSUME InterestTypes, NEW a \in Agreement, Earns(a), today' \in Nat, today' >= today,
         config'[a] = config[a], interest'[a] = interest[a], used'[a] = used[a],
         since'[a] = since[a], paid'[a] = paid[a]
  PROVE  Earns(a)'
<1>1. Bare(a) => Bare(a)'
  BY DEF Bare
<1>2. Earning(a) => Earning(a)'
  <2>1. today \in Nat
    BY InterestAssumption DEF InterestTypes
  <2> QED
    BY <2>1 DEF Earning
<1>3. \A t : Periods(a, t)' = Periods(a, t)
  BY DEF Periods
<1>4. AtMost(a) => AtMost(a)'
  BY <1>3 DEF AtMost, AsGood
<1>5. Exactly(a) => Exactly(a)'
  BY <1>3 DEF Exactly
<1> QED
  BY <1>1, <1>2, <1>4, <1>5 DEF Earns

\* New terms: the first ones, or others that may be better.
LEMMA SetEarns ==
  ASSUME EarnInv, NEW a \in Agreement, NEW terms \in Terms, SetConfig(a, terms)
  PROVE  EarnInv'
<1> DEFINE new == [principal |-> Deposit[a], accrued |-> 0, total |-> Deposit[a], last |-> today]
<1>0. InterestTypes /\ Earns(a) /\ today \in Nat
  BY InterestAssumption DEF EarnInv, InterestTypes
<1>1. /\ config' = [config EXCEPT ![a] = terms] /\ UNCHANGED <<reserve, pool, today, paid>>
      /\ used' = [used EXCEPT ![a] = @ \cup {terms}]
      /\ since' = [since EXCEPT ![a] = IF @ = -1 THEN today ELSE @]
      /\ interest' = [interest EXCEPT ![a] = IF @ # NoInterest THEN @ ELSE new]
      /\ interest[a] = NoInterest => Deposit[a] > 0
  BY DEF SetConfig
<1>2. /\ config'[a] = terms /\ used'[a] = used[a] \cup {terms}
      /\ since'[a] = (IF since[a] = -1 THEN today ELSE since[a])
      /\ interest'[a] = (IF interest[a] # NoInterest THEN interest[a] ELSE new)
      /\ \A b \in Agreement \ {a} :
           /\ config'[b] = config[b] /\ interest'[b] = interest[b] /\ used'[b] = used[b]
           /\ since'[b] = since[b]
  BY <1>0, <1>1 DEF InterestTypes
<1>3. interest[a] = NoInterest => new \in [principal: Nat, accrued: Nat, total: Nat, last: Nat \cup {-1}]
  BY <1>0, <1>1, InterestAssumption
<1> HIDE DEF new
<1>4. InterestTypes'
  <2>1. interest' \in [Agreement -> [principal: Nat, accrued: Nat, total: Nat, last: Nat \cup {-1}]]
    BY <1>0, <1>1, <1>3 DEF InterestTypes
  <2>2. since' \in [Agreement -> Nat \cup {-1}]
    BY <1>0, <1>1 DEF InterestTypes
  <2> QED
    BY <1>0, <1>1, <2>1, <2>2 DEF InterestTypes
<1>5. terms \in InterestTerm
  BY TermTypes
<1>6. CASE Bare(a)
  <2>1. /\ new.principal = Deposit[a] /\ new.accrued = 0 /\ new.total = Deposit[a]
        /\ new.last = today /\ interest'[a] = new /\ since'[a] = today /\ used'[a] = {terms}
        /\ paid'[a] = 0 /\ today' = today /\ Deposit[a] \in Nat /\ Deposit[a] > 0
    BY <1>0, <1>1, <1>2, <1>6, InterestAssumption DEF Bare, new
  <2>2. Earning(a)'
    BY <1>0, <1>2, <2>1 DEF Earning
  <2>3. \A t \in InterestTerm : Periods(a, t)' = 0
    <3> SUFFICES ASSUME NEW t \in InterestTerm
                 PROVE  Periods(a, t)' = 0
      OBVIOUS
    <3>1. Period[t.frequency] \in {1, 7, 30, 90, 365}
      BY TermTypes
    <3>2. interest'[a].last - since'[a] = 0
      BY <1>0, <2>1
    <3> QED
      BY <3>1, <3>2 DEF Periods
  <2>4. \A t : Compounded(Deposit[a], t, 0) = Deposit[a]
    BY CompoundedSteps
  <2>5. AtMost(a)'
    BY <2>1, <2>3, <2>4 DEF AtMost
  <2>6. Exactly(a)'
    BY <2>1, <2>3, <2>4 DEF Exactly
  <2>7. Earns(a)'
    BY <2>2, <2>5, <2>6 DEF Earns
  <2> QED
    BY <1>0, <1>1, <1>2, <1>4, <2>7, EarnsOn DEF EarnInv
<1>7. CASE Earning(a) /\ AtMost(a) /\ Exactly(a)
  <2>1. interest'[a] = interest[a] /\ since'[a] = since[a] /\ paid'[a] = paid[a] /\ today' = today
    BY <1>1, <1>2, <1>7, <1>0 DEF Earning, NoInterest
  <2>2. Earning(a)'
    BY <1>2, <1>7, <2>1 DEF Earning
  <2>3. \A t : Periods(a, t)' = Periods(a, t)
    BY <2>1 DEF Periods
  <2>4. AtMost(a)'
    BY <1>2, <1>7, <2>1, <2>3 DEF AtMost, AsGood
  <2>5. \A t : used'[a] = {t} => used[a] = {t}
    BY <1>2, <1>7 DEF Earning
  <2>6. Exactly(a)'
    BY <1>7, <2>1, <2>3, <2>5 DEF Exactly
  <2>7. Earns(a)'
    BY <2>2, <2>4, <2>6 DEF Earns
  <2> QED
    BY <1>0, <1>1, <1>2, <1>4, <2>7, EarnsOn DEF EarnInv
<1> QED
  BY <1>0, <1>6, <1>7 DEF Earns

\* What the time since the last accrual earns, on top of what was earned before.
LEMMA AccrueEarns ==
  ASSUME EarnInv, NEW a \in Agreement, Accrue(a)
  PROVE  EarnInv'
<1> DEFINE i == interest[a]
           c == config[a]
           amount == Earned(c, i.total, i.last, today)
           k(t) == Periods(a, t)
           m == (today - i.last) \div Period[c.frequency]
           j(t) == (today - since[a]) \div Period[t.frequency]
<1>0. /\ InterestTypes /\ today \in Nat /\ c # NoConfig /\ UNCHANGED <<config, reserve, pool>>
      /\ UNCHANGED <<today, used, since, paid>>
      /\ interest' = [interest EXCEPT ![a].accrued = @ + amount, ![a].total = @ + amount,
                                     ![a].last = today]
  BY InterestAssumption DEF EarnInv, InterestTypes, Accrue
<1>1. Earning(a) /\ AtMost(a) /\ Exactly(a)
  BY <1>0 DEF EarnInv, Earns, Bare
<1>2. /\ c \in InterestTerm /\ i \in [principal: Nat, accrued: Nat, total: Nat, last: Nat \cup {-1}]
      /\ i.last \in Nat /\ since[a] \in Nat /\ paid[a] \in Nat
      /\ since[a] <= i.last /\ i.last <= today
      /\ i.total = i.principal + i.accrued /\ i.principal > 0
  BY <1>0, <1>1, TermTypes DEF InterestTypes, Earning
<1>3. \A t \in InterestTerm : Period[t.frequency] \in {1, 7, 30, 90, 365}
  BY TermTypes
<1>4. ASSUME NEW t \in InterestTerm
      PROVE  /\ k(t) \in Nat /\ j(t) \in Nat /\ k(t) <= j(t)
             /\ t.frequency = c.frequency => m \in Nat /\ k(t) + m <= j(t)
  <2>1. Period[t.frequency] \in {1, 7, 30, 90, 365}
    BY <1>3
  <2> DEFINE x == i.last - since[a]
             y == today - i.last
             p == Period[t.frequency]
  <2>2. x \in Nat /\ y \in Nat /\ x + y = today - since[a]
    BY <1>0, <1>2
  <2>3. k(t) = x \div p /\ j(t) = (x + y) \div p
    BY <2>2 DEF Periods
  <2>4. t.frequency = c.frequency => m = y \div p
    OBVIOUS
  <2> HIDE DEF x, y, p, k, j, m
  <2>5. p \in {1, 7, 30, 90, 365}
    BY <2>1 DEF p
  <2>6. x \div p \in Nat /\ y \div p \in Nat /\ x \div p + y \div p <= (x + y) \div p
    BY <2>2, <2>5, PeriodsAdd
  <2>7. (x + y) \div p \in Nat
    BY <2>2, <2>5
  <2> QED
    BY <2>3, <2>4, <2>6, <2>7
<1>5. /\ amount \in Nat
      /\ amount = 0 \/ (m \in Nat /\ amount = Compounded(i.total, c, m) - i.total)
  <2>1. m \in Nat
    BY <1>2, <1>4
  <2>2. i.total \in Nat
    BY <1>2
  <2>3. Compounded(i.total, c, m) \in Nat /\ Compounded(i.total, c, m) >= i.total
    BY <1>2, <2>1, <2>2, CompoundedType
  <2>4. amount = 0 \/ amount = Compounded(i.total, c, m) - i.total
    BY DEF Earned
  <2> QED
    BY <2>1, <2>2, <2>3, <2>4
<1> HIDE DEF amount, k, j, m
<1>6. /\ interest'[a] = [i EXCEPT !.accrued = @ + amount, !.total = @ + amount, !.last = today]
      /\ \A b \in Agreement \ {a} : interest'[b] = interest[b]
  BY <1>0 DEF InterestTypes
<1>7. /\ interest'[a].principal = i.principal /\ interest'[a].accrued = i.accrued + amount
      /\ interest'[a].total = i.total + amount /\ interest'[a].last = today
      /\ interest'[a] \in [principal: Nat, accrued: Nat, total: Nat, last: Nat \cup {-1}]
  <2>1. i.accrued + amount \in Nat /\ i.total + amount \in Nat /\ today \in Nat
    BY <1>0, <1>2, <1>5
  <2>2. i \in [principal: Nat, accrued: Nat, total: Nat, last: Nat \cup {-1}]
    BY <1>2
  <2> HIDE DEF i
  <2> QED
    BY <1>6, <2>1, <2>2
<1>8. InterestTypes'
  <2>1. interest' \in [Agreement -> [principal: Nat, accrued: Nat, total: Nat, last: Nat \cup {-1}]]
    BY <1>0, <1>6, <1>7 DEF InterestTypes
  <2> QED
    BY <1>0, <2>1 DEF InterestTypes
<1>9. Earning(a)'
  BY <1>0, <1>1, <1>2, <1>5, <1>7 DEF Earning
<1>10. \A t : Periods(a, t)' = j(t)
  BY <1>0, <1>7 DEF Periods, j
<1>11. AtMost(a)'
  <2> SUFFICES ASSUME NEW t \in InterestTerm, AsGood(a, t)
               PROVE  paid[a] + (i.total + amount) <= Compounded(i.principal, t, j(t))
    BY <1>0, <1>7, <1>10 DEF AtMost, AsGood
  <2> DEFINE y == Compounded(i.principal, t, k(t))
             z == Compounded(i.principal, t, j(t))
  <2>1. paid[a] + i.total <= y
    BY <1>1 DEF AtMost, k
  <2>2. c.rate <= t.rate /\ c.frequency = t.frequency
    BY <1>1 DEF Earning, AsGood
  <2>3. /\ k(t) \in Nat /\ j(t) \in Nat /\ k(t) <= j(t) /\ m \in Nat /\ k(t) + m <= j(t)
        /\ k(t) + m \in Nat
    BY <1>4, <2>2
  <2>4. i.principal \in Nat /\ i.total \in Nat
    BY <1>2
  <2>5. y \in Nat /\ z \in Nat /\ y <= z
    BY <2>3, <2>4, CompoundedType, CompoundedLonger
  <2>6. CASE amount = 0
    BY <1>2, <2>1, <2>4, <2>5, <2>6
  <2>7. CASE amount = Compounded(i.total, c, m) - i.total
    <3>1. Compounded(i.principal, t, k(t) + m) <= z
      <4>1. ASSUME NEW b, b = i.principal, NEW n, n = k(t) + m, NEW x, x = j(t)
            PROVE  Compounded(b, t, n) <= Compounded(b, t, x)
        <5>1. b \in Nat /\ n \in Nat /\ x \in Nat /\ n <= x
          BY <2>3, <2>4, <4>1
        <5> QED
          BY <5>1, CompoundedLonger
      <4> QED
        BY <4>1
    <3>2. Compounded(y, t, m) = Compounded(i.principal, t, k(t) + m)
      <4>1. ASSUME NEW b, b = i.principal, NEW n, n = k(t)
            PROVE  Compounded(Compounded(b, t, n), t, m) = Compounded(b, t, n + m)
        <5>1. b \in Nat /\ n \in Nat /\ m \in Nat
          BY <2>3, <2>4, <4>1
        <5> HIDE DEF m
        <5> QED
          BY <5>1, CompoundedOn
      <4> QED
        BY <4>1
    <3>3. i.total <= y
      BY <1>2, <2>1, <2>4, <2>5
    <3>4. Compounded(y, t, m) \in Nat
      BY <2>3, <2>5, CompoundedType
    <3> HIDE DEF y, z
    <3>5. Compounded(i.total, c, m) - i.total <= Compounded(y, t, m) - y
      BY <1>2, <2>2, <2>3, <2>4, <2>5, <3>3, CompoundedMore
    <3> QED
      BY <1>2, <1>5, <2>1, <2>4, <2>5, <2>7, <3>1, <3>2, <3>4, <3>5 DEF z
  <2> QED
    BY <1>5, <2>6, <2>7
<1>12. Exactly(a)'
  <2> SUFFICES ASSUME NEW t \in InterestTerm, used[a] = {t}, paid[a] = 0
               PROVE  \E n \in 0..j(t) : i.total + amount = Compounded(i.principal, t, n)
    BY <1>0, <1>7, <1>10 DEF Exactly
  <2>1. PICK n \in 0..k(t) : i.total = Compounded(i.principal, t, n)
    BY <1>1 DEF Exactly, k
  <2>2. c = t
    BY <1>1 DEF Earning
  <2>3. /\ k(t) \in Nat /\ j(t) \in Nat /\ k(t) <= j(t) /\ m \in Nat /\ k(t) + m <= j(t)
    BY <1>4, <2>2
  <2>4. i.total \in Nat
    BY <1>2
  <2>5. CASE amount = 0
    <3>1. n \in 0..j(t)
      BY <2>3
    <3> QED
      BY <2>1, <2>4, <2>5, <3>1
  <2>6. CASE amount = Compounded(i.total, c, m) - i.total
    <3>1. n \in Nat /\ n + m \in 0..j(t) /\ i.principal \in Nat
      BY <1>2, <2>3
    <3>2. Compounded(i.total, t, m) = Compounded(i.principal, t, n + m)
      <4>1. Compounded(Compounded(i.principal, t, n), t, m) = Compounded(i.principal, t, n + m)
        <5>1. ASSUME NEW p \in Nat, NEW l \in Nat, NEW v \in InterestTerm
              PROVE  Compounded(Compounded(p, v, n), v, l) = Compounded(p, v, n + l)
          BY <3>1, CompoundedOn
        <5>2. t \in InterestTerm
          BY <1>1, <2>2 DEF Earning
        <5> HIDE DEF m
        <5> QED
          BY <2>3, <3>1, <5>1, <5>2
      <4> QED
        BY <2>1, <4>1
    <3>3. Compounded(i.total, t, m) \in Nat
      BY <2>3, <2>4, CompoundedType
    <3> QED
      BY <1>5, <2>2, <2>4, <2>6, <3>1, <3>2, <3>3
  <2> QED
    BY <1>5, <2>5, <2>6
<1>13. Earns(a)'
  BY <1>9, <1>11, <1>12 DEF Earns
<1>14. \A b \in Agreement \ {a} : Earns(b)'
  <2>1. today' \in Nat /\ today' >= today
    BY <1>0
  <2> QED
    BY <1>0, <1>6, <2>1, EarnsOn DEF EarnInv
<1> QED
  BY <1>8, <1>13, <1>14 DEF EarnInv

\* What is owed becomes what was paid; the deposit earns on.
LEMMA DistributeEarns ==
  ASSUME EarnInv, NEW a \in Agreement, Distribute(a)
  PROVE  EarnInv' /\ pool' = pool - interest[a].accrued
         /\ reserve' = [reserve EXCEPT ![a] = @ - interest[a].accrued]
         /\ interest[a].accrued \in Nat
<1> DEFINE i == interest[a]
           shares == Shares(i.accrued, config[a].recipient)
<1>0. /\ InterestTypes /\ config[a] # NoConfig /\ UNCHANGED <<config, today, used, since>>
      /\ pool' = pool - shares[1] - shares[2]
      /\ i.accrued > 0 /\ reserve[a] >= i.accrued
      /\ reserve' = [reserve EXCEPT ![a] = @ - i.accrued]
      /\ interest' = [interest EXCEPT ![a].accrued = 0, ![a].total = interest[a].principal]
      /\ paid' = [paid EXCEPT ![a] = @ + shares[1] + shares[2]]
  BY DEF EarnInv, Distribute
<1>1. Earning(a) /\ AtMost(a) /\ Exactly(a)
  BY <1>0 DEF EarnInv, Earns, Bare
<1>2. /\ i \in [principal: Nat, accrued: Nat, total: Nat, last: Nat \cup {-1}]
      /\ paid[a] \in Nat /\ reserve[a] \in Nat /\ pool \in Int
      /\ i.total = i.principal + i.accrued /\ i.accrued \in Nat /\ i.principal \in Nat
  BY <1>0, <1>1 DEF InterestTypes, Earning
<1>3. shares[1] \in Int /\ shares[2] \in Int /\ shares[1] + shares[2] = i.accrued
  <2>1. config[a].recipient \in {"tenant", "landlord", "split"}
    BY <1>0, TermTypes DEF InterestTypes, InterestTerm
  <2>2. i.accrued \div 2 \in Int
    BY <1>2
  <2> QED
    BY <1>2, <2>1, <2>2 DEF Shares
<1> HIDE DEF shares
<1>4. pool' = pool - i.accrued /\ paid[a] + shares[1] + shares[2] = paid[a] + i.accrued
  BY <1>0, <1>2, <1>3
<1>5. /\ interest'[a] = [i EXCEPT !.accrued = 0, !.total = i.principal]
      /\ paid'[a] = paid[a] + i.accrued
      /\ \A b \in Agreement \ {a} : interest'[b] = interest[b] /\ paid'[b] = paid[b]
  BY <1>0, <1>4 DEF InterestTypes
<1>6. /\ interest'[a].principal = i.principal /\ interest'[a].accrued = 0
      /\ interest'[a].total = i.principal /\ interest'[a].last = i.last
      /\ interest'[a] \in [principal: Nat, accrued: Nat, total: Nat, last: Nat \cup {-1}]
  <2>1. i \in [principal: Nat, accrued: Nat, total: Nat, last: Nat \cup {-1}]
    BY <1>2
  <2>2. ASSUME NEW r \in [principal: Nat, accrued: Nat, total: Nat, last: Nat \cup {-1}],
               NEW s, s = [r EXCEPT !.accrued = 0, !.total = r.principal]
        PROVE  /\ s.principal = r.principal /\ s.accrued = 0
               /\ s.total = r.principal /\ s.last = r.last
               /\ s \in [principal: Nat, accrued: Nat, total: Nat, last: Nat \cup {-1}]
    BY <2>2
  <2> HIDE DEF i
  <2> QED
    BY <1>5, <2>1, <2>2
<1>7. InterestTypes'
  <2>1. interest' \in [Agreement -> [principal: Nat, accrued: Nat, total: Nat, last: Nat \cup {-1}]]
    BY <1>0, <1>5, <1>6 DEF InterestTypes
  <2>2. paid[a] + i.accrued \in Nat /\ reserve[a] - i.accrued \in Nat /\ pool - i.accrued \in Int
    BY <1>0, <1>2
  <2>3. paid' \in [Agreement -> Nat] /\ reserve' \in [Agreement -> Nat]
    BY <1>0, <1>4, <2>2 DEF InterestTypes
  <2> QED
    BY <1>0, <1>4, <2>1, <2>2, <2>3 DEF InterestTypes
<1>8. Earning(a)'
  BY <1>0, <1>1, <1>2, <1>6 DEF Earning
<1>9. \A t : Periods(a, t)' = Periods(a, t)
  BY <1>0, <1>6 DEF Periods
<1>10. AtMost(a)'
  <2>1. paid'[a] + interest'[a].total = paid[a] + i.total
    BY <1>2, <1>5, <1>6
  <2> QED
    BY <1>0, <1>1, <1>6, <1>9, <2>1 DEF AtMost, AsGood
<1>11. Exactly(a)'
  BY <1>0, <1>2, <1>5 DEF Exactly
<1>12. Earns(a)'
  BY <1>8, <1>10, <1>11 DEF Earns
<1>13. today' \in Nat /\ today' >= today
  BY <1>0, InterestAssumption DEF InterestTypes
<1> QED
  BY <1>0, <1>2, <1>4, <1>5, <1>7, <1>12, <1>13, EarnsOn DEF EarnInv

\* A reserve is funded with as much as the contract receives.
LEMMA FundEarns ==
  ASSUME EarnInv, NEW a \in Agreement, NEW amount \in Funding, FundReserve(a, amount)
  PROVE  /\ EarnInv' /\ amount \in Nat
         /\ pool' = pool + amount /\ reserve' = [reserve EXCEPT ![a] = @ + amount]
<1>0. /\ InterestTypes /\ amount \in Nat /\ today \in Nat
      /\ pool' = pool + amount /\ reserve' = [reserve EXCEPT ![a] = @ + amount]
      /\ UNCHANGED <<config, interest, today, used, since, paid>>
  BY InterestAssumption DEF EarnInv, FundReserve, InterestTypes
<1>1. InterestTypes'
  BY <1>0 DEF InterestTypes
<1> QED
  BY <1>0, <1>1, EarnsOn DEF EarnInv

\* Time alone earns nothing: the invariant of the interest outlives it.
LEMMA DaysEarn ==
  ASSUME EarnInv, NEW n \in Gaps, DaysPass(n)
  PROVE  EarnInv' /\ UNCHANGED <<pool, reserve>>
<1>0. /\ InterestTypes /\ n \in Nat /\ today \in Nat /\ today' = today + n /\ today' <= LastDay
      /\ UNCHANGED <<config, interest, reserve, pool, used, since, paid>>
  BY InterestAssumption DEF EarnInv, DaysPass, InterestTypes
<1>1. InterestTypes'
  BY <1>0, InterestAssumption DEF InterestTypes
<1> QED
  BY <1>0, <1>1, EarnsOn DEF EarnInv

\* No interest before the first terms.
LEMMA EarnInit == InterestInit => EarnInv
BY InterestAssumption DEF InterestInit, EarnInv, InterestTypes, Earns, Bare, NoInterest

\* Of finitely many terms some have the highest rate.
LEMMA BestTerms ==
  ASSUME NEW S, IsFiniteSet(S), S # {}, S \subseteq InterestTerm
  PROVE  \E t \in S : \A u \in S : u.rate <= t.rate
<1> DEFINE Good == {T \in SUBSET S : T = {} \/ \E t \in T : \A u \in T : u.rate <= t.rate}
<1>1. ASSUME NEW T \in SUBSET S, \A U \in SUBSET T : U # T => U \in Good
      PROVE  T \in Good
  <2> SUFFICES ASSUME T # {}
               PROVE  \E t \in T : \A u \in T : u.rate <= t.rate
    OBVIOUS
  <2>1. PICK x \in T : TRUE
    OBVIOUS
  <2>2. T \ {x} \in Good
    BY <1>1
  <2>3. \A u \in T : u.rate \in Nat
    BY DEF InterestTerm
  <2>4. CASE T \ {x} = {}
    BY <2>3, <2>4
  <2>5. ASSUME NEW t \in T \ {x}, \A u \in T \ {x} : u.rate <= t.rate
        PROVE  \E v \in T : \A u \in T : u.rate <= v.rate
    <3>1. CASE x.rate <= t.rate
      BY <2>5, <3>1
    <3>2. CASE t.rate <= x.rate
      <4>1. \A u \in T : u.rate <= x.rate
        BY <2>3, <2>5, <3>2
      <4> QED
        BY <4>1
    <3> QED
      BY <2>3, <3>1, <3>2
  <2> QED
    BY <2>2, <2>4, <2>5
<1>2. \A T \in SUBSET S : T \in Good
  <2> HIDE DEF Good
  <2> QED
    BY <1>1, SubsetInduction
<1> QED
  BY <1>2

\* The invariant says all that is asked of interest but that it is funded.
LEMMA EarnedOnceHolds == EarnInv => EarnedOnce
<1> SUFFICES ASSUME EarnInv, NEW a \in Agreement, used[a] # {}
             PROVE  LET i == interest[a]
                        all(terms) == (today - since[a]) \div Period[terms.frequency]
                        best == CHOOSE t \in used[a] : \A u \in used[a] : u.rate <= t.rate
                    IN /\ i.total = i.principal + i.accrued
                       /\ (\A t \in used[a] : t.frequency = best.frequency) =>
                            paid[a] + i.accrued <= Compounded(i.principal, best, all(best)) - i.principal
                       /\ used[a] = {best} /\ paid[a] = 0 =>
                            \E n \in 0..all(best) : i.total = Compounded(i.principal, best, n)
  BY DEF EarnedOnce
<1> DEFINE i == interest[a]
           best == CHOOSE t \in used[a] : \A u \in used[a] : u.rate <= t.rate
           all == (today - since[a]) \div Period[best.frequency]
<1>1. Earning(a) /\ AtMost(a) /\ Exactly(a)
  BY DEF EarnInv, Earns, Bare
<1>2. used[a] \subseteq InterestTerm /\ IsFiniteSet(used[a])
  BY TermTypes, InterestAssumption, FS_Subset DEF EarnInv, InterestTypes
<1>3. best \in used[a] /\ \A u \in used[a] : u.rate <= best.rate
  BY <1>2, BestTerms
<1> HIDE DEF best
<1>4. best \in InterestTerm
  BY <1>2, <1>3
<1>5. /\ i.principal \in Nat /\ i.accrued \in Nat /\ i.total = i.principal + i.accrued
      /\ paid[a] \in Nat /\ i.last \in Nat /\ since[a] \in Nat /\ today \in Nat
      /\ since[a] <= i.last /\ i.last <= today
  <2>1. today \in Nat
    BY InterestAssumption DEF EarnInv, InterestTypes
  <2> QED
    BY <1>1, <2>1 DEF EarnInv, InterestTypes, Earning
<1>6. Periods(a, best) \in Nat /\ all \in Nat /\ Periods(a, best) <= all
  <2> DEFINE x == i.last - since[a]
             y == today - i.last
             p == Period[best.frequency]
  <2>1. x \in Nat /\ y \in Nat /\ x + y = today - since[a] /\ p \in {1, 7, 30, 90, 365}
    BY <1>4, <1>5, TermTypes
  <2>2. Periods(a, best) = x \div p /\ all = (x + y) \div p
    BY <2>1 DEF Periods
  <2> HIDE DEF x, y, p, all
  <2>3. x \div p \in Nat /\ y \div p \in Nat /\ x \div p + y \div p <= (x + y) \div p
    BY <2>1, PeriodsAdd
  <2>4. (x + y) \div p \in Nat
    BY <2>1
  <2> QED
    BY <2>2, <2>3, <2>4
<1> HIDE DEF all
<1>7. ASSUME \A t \in used[a] : t.frequency = best.frequency
      PROVE  paid[a] + i.accrued <= Compounded(i.principal, best, all) - i.principal
  <2>1. paid[a] + i.total <= Compounded(i.principal, best, Periods(a, best))
    BY <1>1, <1>3, <1>4, <1>7 DEF AtMost, AsGood
  <2>2. Compounded(i.principal, best, Periods(a, best)) <= Compounded(i.principal, best, all)
    BY <1>4, <1>5, <1>6, CompoundedLonger
  <2>3. /\ Compounded(i.principal, best, Periods(a, best)) \in Nat
        /\ Compounded(i.principal, best, all) \in Nat
    BY <1>4, <1>5, <1>6, CompoundedType
  <2> QED
    BY <1>5, <2>1, <2>2, <2>3
<1>8. ASSUME used[a] = {best}, paid[a] = 0
      PROVE  \E n \in 0..all : i.total = Compounded(i.principal, best, n)
  <2>1. PICK n \in 0..Periods(a, best) : i.total = Compounded(i.principal, best, n)
    BY <1>1, <1>4, <1>8 DEF Exactly
  <2>2. n \in 0..all
    BY <1>6, <2>1
  <2> QED
    BY <2>1, <2>2
<1> QED
  BY <1>5, <1>7, <1>8 DEF best, all

-----------------------------------------------------------------------------
(* Rent reaches the landlord.                                              *)
-----------------------------------------------------------------------------

\* A sum of the model is one of SumProofs.
LEMMA SumIsSum ==
  ASSUME NEW f
  PROVE  SumFunction(f) = SumOver(f, DOMAIN f)
BY Zenon DEF SumFunction, SumFunctionOnSet, FoldFunctionOnSet, MapThenFoldSet, SumOver, MapThenSumSet

\* A function of integers, and another that differs from it by n at x.
IntsOver(f, S) == DOMAIN f = S /\ \A y \in S : f[y] \in Int
Shifted(f, e, S, x, n) == \A y \in S : e[y] = IF y = x THEN f[y] + n ELSE f[y]

\* One entry changes.
LEMMA SumMoves ==
  ASSUME NEW S, IsFiniteSet(S), NEW x \in S, NEW n \in Int, NEW f, IntsOver(f, S),
         NEW e, DOMAIN e = S, Shifted(f, e, S, x, n)
  PROVE  SumFunction(e) = SumFunction(f) + n /\ SumFunction(f) \in Int
<1>1. /\ \A y \in S : f[y] \in Int /\ e[y] \in Int
      /\ \A y \in S : e[y] = IF y = x THEN f[y] + n ELSE f[y]
      /\ DOMAIN f = S
  BY DEF IntsOver, Shifted
<1>2. SumOver(e, S) = SumOver(f, S) + (e[x] - f[x])
  BY <1>1, SumChange
<1>3. SumOver(f, S) \in Int
  BY <1>1, SumInt
<1>4. e[x] - f[x] = n
  BY <1>1
<1> QED
  BY <1>1, <1>2, <1>3, <1>4, SumIsSum

Raised(f, e, x, n) == e = [f EXCEPT ![x] = @ + n]

\* Changing one value of a function changes its sum by the difference.
LEMMA SumRaised ==
  ASSUME NEW S, IsFiniteSet(S), NEW f \in [S -> Int], NEW x \in S, NEW n \in Int,
         NEW e, Raised(f, e, x, n)
  PROVE  SumFunction(e) = SumFunction(f) + n /\ SumFunction(f) \in Int
<1>1. IntsOver(f, S) /\ DOMAIN e = S /\ Shifted(f, e, S, x, n)
  BY DEF Raised, IntsOver, Shifted
<1> QED
  BY <1>1, SumMoves

\* What a list of payments brought the landlord in a token.
Record == [landlord: Nat, platform: Nat, token: Token]
Part(r, t) == IF r.token = t THEN r.landlord ELSE 0
Parts(s, t) == SumFunction([i \in DOMAIN s |-> IF s[i].token = t THEN s[i].landlord ELSE 0])

\* A payment record adds the landlord's part of its token, and nothing to others.
LEMMA PartsAppend ==
  ASSUME NEW s \in Seq(Record), NEW r \in Record, NEW t
  PROVE  Parts(Append(s, r), t) = Parts(s, t) + Part(r, t) /\ Parts(s, t) \in Int
<1> DEFINE n == Len(s)
           z == Append(s, r)
           f == [i \in DOMAIN s |-> IF s[i].token = t THEN s[i].landlord ELSE 0]
           e == [i \in DOMAIN z |-> IF z[i].token = t THEN z[i].landlord ELSE 0]
<1>1. /\ n \in Nat /\ DOMAIN s = 1..n /\ DOMAIN z = 1..(n + 1) /\ z[n + 1] = r
      /\ \A i \in 1..n : z[i] = s[i]
  OBVIOUS
<1>2. DOMAIN f = 1..n /\ DOMAIN e = (1..n) \cup {n + 1} /\ n + 1 \notin 1..n /\ IsFiniteSet(1..n)
  <2>1. n \in Nat /\ DOMAIN s = 1..n /\ DOMAIN z = 1..(n + 1)
    BY <1>1
  <2>2. DOMAIN f = 1..n /\ DOMAIN e = 1..(n + 1)
    BY <2>1
  <2> HIDE DEF f, e, n, z
  <2>3. 1..(n + 1) = (1..n) \cup {n + 1} /\ n + 1 \notin 1..n
    BY <2>1
  <2>4. 1 \in Int /\ n \in Int
    BY <2>1
  <2>5. IsFiniteSet(1..n)
    BY <2>4, FS_Interval
  <2> QED
    BY <2>2, <2>3, <2>5
<1>3. \A i \in 1..n : f[i] \in Int /\ e[i] = f[i]
  <2> SUFFICES ASSUME NEW i \in 1..n
               PROVE  f[i] \in Int /\ e[i] = f[i]
    OBVIOUS
  <2>1. s[i] \in Record /\ z[i] = s[i] /\ i \in DOMAIN s /\ i \in DOMAIN z
    BY <1>1
  <2>2. s[i].landlord \in Int
    BY <2>1 DEF Record
  <2> QED
    BY <2>1, <2>2
<1>4. e[n + 1] = Part(r, t) /\ Part(r, t) \in Int
  BY <1>1 DEF Part, Record
<1>5. Parts(z, t) = SumOver(e, (1..n) \cup {n + 1}) /\ Parts(s, t) = SumOver(f, 1..n)
  BY <1>2, SumIsSum DEF Parts
<1> HIDE DEF e, f, n, z
<1>6. SumOver(e, (1..n) \cup {n + 1}) = e[n + 1] + SumOver(e, 1..n)
  <2>1. e[n + 1] \in Int /\ \A i \in 1..n : e[i] \in Int
    BY <1>3, <1>4
  <2> QED
    BY <1>2, <2>1, SumInsert
<1>7. SumOver(e, 1..n) = SumOver(f, 1..n) /\ SumOver(f, 1..n) \in Int
  BY <1>2, <1>3, SumSame, SumInt
<1> QED
  BY <1>4, <1>5, <1>6, <1>7 DEF z
\* What the contract keeps of an agreement and of a token, and the fees it can charge.
LeaseRow ==
  [status: {"none", "Draft", "Pending", "Active", "Cancelled"}, total: Nat, count: Nat]
TokenLimit == {NoToken} \cup [enabled: BOOLEAN, min: Nat, max: Int]
FeeRange == 0..10000


RentTypes ==
  /\ lease \in [Agreement -> LeaseRow]
  /\ supported \in [Token -> TokenLimit]
  /\ rate \in [Foreign -> Int]
  /\ fee \in FeeRange
  /\ held \in [Agreement -> [Token -> Nat]] /\ released \in [Agreement -> [Token -> Nat]]
  /\ foreign \in [Foreign -> Int]
  /\ records \in [Agreement -> Seq(Record)]

\* An agreement's books: its rent is positive once it exists, and nothing is held
\* for it unless it is active.
Accounted(a) ==
  /\ lease[a].status # "none" => Lease[a].rent > 0
  /\ lease[a].status # "Active" => \A t \in Token : held[a][t] = 0
  /\ \A t \in Token : held[a][t] + released[a][t] = Parts(records[a], t)
  /\ lease[a].count = Len(records[a])
  /\ lease[a].total >= lease[a].count * Lease[a].rent

\* What such holdings come to in a token.
InToken(h, t) == SumFunction([b \in Agreement |-> h[b][t]])
HeldIn(t) == InToken(held, t)
Kept(t) == HeldIn(t) + IF t = Base THEN Pooled + SumFunction(reserve) ELSE 0

RentInv ==
  /\ EarnInv /\ RentTypes
  /\ \A a \in Agreement : Accounted(a)
  /\ \A t \in Token : Balance(t) = Kept(t)

\* The invariant says what is asked of rent and of the interest reserves.
LEMMA SumsAreNumbers ==
  ASSUME EarnInv, RentTypes
  PROVE  SumFunction(reserve) \in Nat /\ \A t \in Token : HeldIn(t) \in Nat
<1>0. IsFiniteSet(Agreement)
  BY InterestAssumption
<1>1. SumFunction(reserve) \in Nat
  <2>1. DOMAIN reserve = Agreement /\ \A a \in Agreement : reserve[a] \in Nat
    BY DEF EarnInv, InterestTypes
  <2> QED
    BY <1>0, <2>1, SumIsSum, SumNat
<1>2. ASSUME NEW t \in Token
      PROVE  HeldIn(t) \in Nat
  <2> DEFINE f == [a \in Agreement |-> held[a][t]]
  <2>1. DOMAIN f = Agreement /\ \A a \in Agreement : f[a] \in Nat
    BY DEF RentTypes
  <2>2. HeldIn(t) = SumFunction(f)
    BY DEF HeldIn, InToken
  <2> HIDE DEF f
  <2> QED
    BY <1>0, <2>1, <2>2, SumIsSum, SumNat
<1> QED
  BY <1>1, <1>2

\* The invariant states both properties of the pooled accounts.
LEMMA RentInvHolds == RentInv => InterestIsEarnedAndFunded /\ RentReachesLandlord
<1> SUFFICES ASSUME RentInv
             PROVE  InterestIsEarnedAndFunded /\ RentReachesLandlord
  OBVIOUS
<1>1. Custody
  BY DEF RentInv, Custody, Kept, HeldIn, InToken
<1>2. PoolKept
  <2>1. /\ SumFunction(reserve) \in Nat /\ HeldIn(Base) \in Nat /\ Base \in Token /\ Pooled \in Nat
    BY SumsAreNumbers, InterestAssumption DEF RentInv, Token
  <2>2. pool = HeldIn(Base) + (Pooled + SumFunction(reserve))
    BY <2>1 DEF RentInv, Kept, Balance
  <2> QED
    BY <2>1, <2>2 DEF PoolKept
<1>3. PaymentsAccounted
  BY DEF RentInv, Accounted, PaymentsAccounted, Received, Parts
<1>4. RentReleasable
  <2> SUFFICES ASSUME NEW a \in Agreement, NEW t \in Token, held[a][t] > 0, lease[a].status # "Active"
               PROVE  FALSE
    BY DEF RentReleasable
  <2>1. held[a][t] = 0
    BY DEF RentInv, Accounted
  <2> QED
    BY <2>1
<1> QED
  BY <1>1, <1>2, <1>3, <1>4, EarnedOnceHolds
     DEF RentInv, InterestIsEarnedAndFunded, RentReachesLandlord

\* Nothing but the balance of the contract changes for interest.
LEMMA EarnKept ==
  ASSUME EarnInv, UNCHANGED <<config, interest, reserve, today, used, since, paid>>, pool' \in Int
  PROVE  EarnInv'
<1>1. InterestTypes /\ today \in Nat
  BY InterestAssumption DEF EarnInv, InterestTypes
<1>2. InterestTypes'
  BY <1>1 DEF InterestTypes
<1> QED
  BY <1>1, <1>2, EarnsOn DEF EarnInv

\* What is recorded of leases, tokens and payments stays when none of it changes.
LEMMA LeasesStay ==
  ASSUME RentTypes, \A b \in Agreement : Accounted(b), UNCHANGED leaseVars
  PROVE  RentTypes' /\ \A b \in Agreement : Accounted(b)'
<1>1. UNCHANGED <<lease, supported, rate, fee, held, foreign, records, released>>
  BY DEF leaseVars, tokenVars
<1>2. RentTypes'
  BY <1>1 DEF RentTypes
<1>3. ASSUME NEW b \in Agreement
      PROVE  Accounted(b)'
  <2>1. Accounted(b)
    OBVIOUS
  <2> QED
    BY Zenon, <1>1, <2>1 DEF Accounted
<1> QED
  BY <1>2, <1>3

\* A step for interest moves the contract's balance and the reserve alike.
LEMMA ReserveMoves ==
  ASSUME RentInv, EarnInv', UNCHANGED leaseVars, NEW a \in Agreement, NEW n \in Int,
         pool' = pool + n, reserve' = [reserve EXCEPT ![a] = @ + n]
  PROVE  RentInv'
<1>1. /\ EarnInv /\ RentTypes /\ \A b \in Agreement : Accounted(b)
      /\ \A t \in Token : Balance(t) = Kept(t)
  BY DEF RentInv
<1>2. RentTypes' /\ \A b \in Agreement : Accounted(b)'
  BY <1>1, LeasesStay
<1>3. SumFunction(reserve') = SumFunction(reserve) + n /\ SumFunction(reserve) \in Int
  <2>1. IsFiniteSet(Agreement) /\ reserve \in [Agreement -> Int]
    BY <1>1, InterestAssumption DEF EarnInv, InterestTypes
  <2>2. ASSUME NEW f, f = reserve, NEW e, e = reserve'
        PROVE  SumFunction(e) = SumFunction(f) + n /\ SumFunction(f) \in Int
    <3>1. f \in [Agreement -> Int] /\ Raised(f, e, a, n)
      BY <2>1, <2>2 DEF Raised
    <3> QED
      BY <2>1, <3>1, SumRaised
  <2> QED
    BY <2>2
<1>4. ASSUME NEW t \in Token
      PROVE  Balance(t)' = Kept(t)'
  <2>1. HeldIn(t)' = HeldIn(t) /\ HeldIn(t) \in Nat /\ foreign' = foreign
    BY <1>1, SumsAreNumbers DEF HeldIn, leaseVars
  <2>2. Pooled \in Nat /\ pool \in Int
    BY <1>1, InterestAssumption DEF EarnInv, InterestTypes
  <2>3. Balance(t) = Kept(t)
    BY <1>1
  <2>4. CASE t = Base
    <3>1. pool = HeldIn(t) + (Pooled + SumFunction(reserve))
      BY <2>3, <2>4 DEF Balance, Kept
    <3>2. pool' = HeldIn(t) + (Pooled + SumFunction(reserve'))
      BY <1>3, <2>1, <2>2, <3>1
    <3> QED
      BY <2>1, <2>4, <3>2 DEF Balance, Kept
  <2>5. CASE t # Base
    BY <2>1, <2>3, <2>5 DEF Balance, Kept
  <2> QED
    BY <2>4, <2>5
<1> QED
  BY <1>2, <1>4 DEF RentInv

\* Terms, accruals and days move nothing.
LEMMA BooksStay ==
  ASSUME RentInv, EarnInv', UNCHANGED <<leaseVars, pool, reserve>>
  PROVE  RentInv'
<1>1. /\ EarnInv /\ RentTypes /\ \A b \in Agreement : Accounted(b)
      /\ \A t \in Token : Balance(t) = Kept(t)
  BY DEF RentInv
<1>2. RentTypes' /\ \A b \in Agreement : Accounted(b)'
  BY <1>1, LeasesStay
<1>3. \A t \in Token : Balance(t)' = Kept(t)'
  BY <1>1 DEF Balance, Kept, HeldIn, leaseVars
<1> QED
  BY <1>2, <1>3 DEF RentInv

\* A call of deposit_interest.rs keeps the books of interest and rent.
LEMMA InterestStep ==
  ASSUME RentInv, UNCHANGED leaseVars, NEW a \in Agreement,
         \/ \E terms \in Terms : SetConfig(a, terms)
         \/ Accrue(a)
         \/ \E amount \in Funding : FundReserve(a, amount)
         \/ Distribute(a)
  PROVE  RentInv'
<1>0. EarnInv
  BY DEF RentInv
<1>1. ASSUME NEW terms \in Terms, SetConfig(a, terms)
      PROVE  RentInv'
  <2>1. EarnInv'
    BY <1>0, <1>1, SetEarns
  <2>2. UNCHANGED <<pool, reserve>>
    BY <1>1 DEF SetConfig
  <2> QED
    BY <2>1, <2>2, BooksStay
<1>2. ASSUME Accrue(a)
      PROVE  RentInv'
  <2>1. EarnInv' /\ UNCHANGED <<pool, reserve>>
    BY <1>0, <1>2, AccrueEarns DEF Accrue
  <2> QED
    BY <2>1, BooksStay
<1>3. ASSUME NEW amount \in Funding, FundReserve(a, amount)
      PROVE  RentInv'
  <2>1. EarnInv' /\ amount \in Int /\ pool' = pool + amount /\ reserve' = [reserve EXCEPT ![a] = @ + amount]
    BY <1>0, <1>3, FundEarns
  <2> QED
    BY <2>1, ReserveMoves
<1>4. ASSUME Distribute(a)
      PROVE  RentInv'
  <2> DEFINE n == interest[a].accrued
             m == -n
  <2>1. EarnInv' /\ n \in Nat /\ pool' = pool - n /\ reserve' = [reserve EXCEPT ![a] = @ - n]
    BY <1>0, <1>4, DistributeEarns
  <2>2. pool \in Int /\ reserve \in [Agreement -> Int]
    BY <1>0 DEF EarnInv, InterestTypes
  <2> HIDE DEF n
  <2>3. m \in Int /\ pool - n = pool + m /\ reserve[a] - n = reserve[a] + m
    BY <2>1, <2>2
  <2> HIDE DEF m
  <2>4. pool' = pool + m /\ reserve' = [reserve EXCEPT ![a] = @ + m]
    BY <2>1, <2>3
  <2> QED
    BY <2>1, <2>3, <2>4, ReserveMoves
<1> QED
  BY <1>1, <1>2, <1>3, <1>4

\* Time keeps the books of interest and rent.
LEMMA DaysStep ==
  ASSUME RentInv, UNCHANGED leaseVars, NEW n \in Gaps, DaysPass(n)
  PROVE  RentInv'
<1>1. EarnInv' /\ UNCHANGED <<pool, reserve>>
  BY DaysEarn DEF RentInv
<1> QED
  BY <1>1, BooksStay

\* What the admin decides moves no money and no agreement.
LEMMA TokensStep ==
  ASSUME RentInv, Tokens
  PROVE  RentInv'
<1>1. /\ EarnInv /\ RentTypes /\ \A b \in Agreement : Accounted(b)
      /\ \A t \in Token : Balance(t) = Kept(t)
  BY DEF RentInv
<1>2. UNCHANGED <<interestVars, lease, held, foreign, records, released>>
  BY DEF Tokens, AddSupportedToken, RemoveSupportedToken, SetExchangeRate, UpdateFee
<1>3. supported' \in [Token -> TokenLimit]
  <2>1. ASSUME NEW t \in Token, NEW limits \in Limits, AddSupportedToken(t, limits)
        PROVE  supported' \in [Token -> TokenLimit]
    <3>1. limits.min \in Nat /\ limits.max \in Int
      BY <2>1, RentAssumption DEF AddSupportedToken
    <3>2. [enabled |-> TRUE, min |-> limits.min, max |-> limits.max] \in
            [enabled: BOOLEAN, min: Nat, max: Int]
      BY <3>1
    <3> QED
      BY <1>1, <2>1, <3>2 DEF RentTypes, TokenLimit, AddSupportedToken
  <2>2. ASSUME NEW t \in Token, RemoveSupportedToken(t)
        PROVE  supported' \in [Token -> TokenLimit]
    <3>1. supported[t] \in [enabled: BOOLEAN, min: Nat, max: Int]
      BY <1>1, <2>2 DEF RentTypes, TokenLimit, RemoveSupportedToken
    <3>2. [supported[t] EXCEPT !.enabled = FALSE] \in [enabled: BOOLEAN, min: Nat, max: Int]
      BY <3>1
    <3>3. supported' = [supported EXCEPT ![t] = [supported[t] EXCEPT !.enabled = FALSE]]
      BY <1>1, <2>2 DEF RentTypes, RemoveSupportedToken
    <3> QED
      BY <1>1, <3>2, <3>3 DEF RentTypes, TokenLimit
  <2>3. (\E t \in Foreign, r \in Rates : SetExchangeRate(t, r)) \/ (\E bps \in Fees : UpdateFee(bps))
          => UNCHANGED supported
    BY DEF SetExchangeRate, UpdateFee
  <2> QED
    BY <1>1, <2>1, <2>2, <2>3 DEF Tokens, RentTypes
<1>4. rate' \in [Foreign -> Int]
  BY <1>1, RentAssumption
     DEF RentTypes, Tokens, AddSupportedToken, RemoveSupportedToken, SetExchangeRate, UpdateFee
<1>5. fee' \in FeeRange
  <2>1. ASSUME NEW bps \in Fees, UpdateFee(bps)
        PROVE  fee' \in FeeRange
    BY <2>1, RentAssumption DEF UpdateFee, FeeRange
  <2>2. ASSUME ~ \E bps \in Fees : UpdateFee(bps)
        PROVE  fee' = fee
    BY <2>2 DEF Tokens, AddSupportedToken, RemoveSupportedToken, SetExchangeRate
  <2>3. fee \in FeeRange
    BY <1>1 DEF RentTypes
  <2> QED
    BY <2>1, <2>2, <2>3
<1>6. RentTypes'
  BY <1>1, <1>2, <1>3, <1>4, <1>5 DEF RentTypes
<1>7. \A b \in Agreement : Accounted(b)'
  BY <1>1, <1>2 DEF Accounted
<1>8. \A t \in Token : Balance(t)' = Kept(t)'
  BY <1>1, <1>2 DEF Balance, Kept, HeldIn, interestVars
<1>9. EarnInv'
  <2>1. pool' \in Int /\ UNCHANGED <<config, interest, reserve, today, used, since, paid>>
    BY <1>1, <1>2 DEF EarnInv, InterestTypes, interestVars
  <2> QED
    BY <1>1, <2>1, EarnKept
<1> QED
  BY <1>6, <1>7, <1>8, <1>9 DEF RentInv

\* An agreement becomes active from pending and never ceases to be.
LEMMA StatusStep ==
  ASSUME RentInv, NEW a \in Agreement,
         NEW from, NEW to \in {"Draft", "Pending", "Active", "Cancelled"}, SetStatus(a, from, to),
         Lease[a].rent > 0, lease[a].status # "Active"
  PROVE  RentInv'
<1>1. /\ EarnInv /\ RentTypes /\ \A b \in Agreement : Accounted(b)
      /\ \A t \in Token : Balance(t) = Kept(t)
  BY DEF RentInv
<1>2. /\ lease' = [lease EXCEPT ![a].status = to]
      /\ UNCHANGED <<interestVars, tokenVars, held, foreign, records, released>>
  BY DEF SetStatus
<1>3. /\ lease'[a].status = to /\ lease'[a].total = lease[a].total /\ lease'[a].count = lease[a].count
      /\ lease'[a] \in LeaseRow
      /\ \A b \in Agreement \ {a} : lease'[b] = lease[b]
  <2>1. lease'[a] = [lease[a] EXCEPT !.status = to] /\ \A b \in Agreement \ {a} : lease'[b] = lease[b]
    BY <1>1, <1>2 DEF RentTypes
  <2>2. lease[a] \in LeaseRow
    BY <1>1 DEF RentTypes
  <2> QED
    BY <2>1, <2>2 DEF LeaseRow
<1>4. RentTypes'
  <2> DEFINE z == [lease[a] EXCEPT !.status = to]
  <2>1. lease' = [lease EXCEPT ![a] = z] /\ lease \in [Agreement -> LeaseRow]
    BY <1>1, <1>2 DEF RentTypes
  <2>2. lease'[a] \in LeaseRow
    BY <1>3
  <2> HIDE DEF z
  <2>3. lease' \in [Agreement -> LeaseRow]
    BY <2>1, <2>2
  <2>4. UNCHANGED <<supported, rate, fee, held, foreign, records, released>>
    BY <1>2 DEF tokenVars
  <2> QED
    BY <1>1, <2>3, <2>4 DEF RentTypes
<1>5. Accounted(a)'
  <2>1. lease[a].status # "Active" => \A t \in Token : held[a][t] = 0
    BY <1>1 DEF Accounted
  <2> QED
    BY <1>1, <1>2, <1>3, <2>1 DEF Accounted
<1>6. \A b \in Agreement \ {a} : Accounted(b)'
  BY <1>1, <1>2, <1>3 DEF Accounted
<1>7. \A t \in Token : Balance(t)' = Kept(t)'
  BY <1>1, <1>2 DEF Balance, Kept, HeldIn, interestVars
<1>8. EarnInv'
  <2>1. pool' \in Int /\ UNCHANGED <<config, interest, reserve, today, used, since, paid>>
    BY <1>1, <1>2 DEF EarnInv, InterestTypes, interestVars
  <2> QED
    BY <1>1, <2>1, EarnKept
<1> QED
  BY <1>4, <1>5, <1>6, <1>7, <1>8 DEF RentInv

\* What is held for one agreement in one token changes, and with it the sum over
\* all agreements in that token.
Moved(h, g, a, t, m) == g = [h EXCEPT ![a][t] = m]

\* Changing one escrow entry changes the sum of its token by the difference.
LEMMA HeldMoves ==
  ASSUME NEW h \in [Agreement -> [Token -> Nat]], NEW a \in Agreement, NEW t \in Token,
         NEW m \in Nat, NEW g, Moved(h, g, a, t, m), NEW u \in Token
  PROVE  /\ g \in [Agreement -> [Token -> Nat]]
         /\ InToken(h, u) \in Int
         /\ InToken(g, u) = InToken(h, u) + IF u = t THEN m - h[a][t] ELSE 0
<1>1. /\ g \in [Agreement -> [Token -> Nat]]
      /\ \A b \in Agreement : g[b] = IF b = a THEN [h[a] EXCEPT ![t] = m] ELSE h[b]
  BY DEF Moved
<1>2. \A b \in Agreement : g[b][u] = IF b = a /\ u = t THEN m ELSE h[b][u]
  <2>1. h[a] \in [Token -> Nat]
    OBVIOUS
  <2> QED
    BY <1>1, <2>1
<1>3. \A b \in Agreement : h[b][u] \in Nat
  OBVIOUS
<1> DEFINE f == [b \in Agreement |-> h[b][u]]
           e == [b \in Agreement |-> g[b][u]]
           n == IF u = t THEN m - h[a][t] ELSE 0
<1>4. n \in Int
  BY <1>3
<1>5. f \in [Agreement -> Int]
  BY <1>3
<1>6. e = [f EXCEPT ![a] = @ + n]
  <2>1. \A b \in Agreement : e[b] = IF b = a THEN f[b] + n ELSE f[b]
    BY <1>2, <1>3
  <2>2. e = [b \in Agreement |-> e[b]]
    OBVIOUS
  <2> HIDE DEF e, f, n
  <2> QED
    BY <1>5, <2>1, <2>2
<1>7. IsFiniteSet(Agreement)
  BY InterestAssumption
<1> HIDE DEF f, e, n
<1>8. SumFunction(e) = SumFunction(f) + n /\ SumFunction(f) \in Int
  <2>1. Raised(f, e, a, n)
    BY <1>6 DEF Raised
  <2> QED
    BY <1>4, <1>5, <1>7, <2>1, SumRaised
<1> QED
  BY <1>1, <1>8 DEF e, f, n, InToken

\* What is held moves with the contract's balance, and neither of another token.
LEMMA HoldingsMove ==
  ASSUME RentInv, NEW a \in Agreement, NEW t \in Token, NEW n \in Int, NEW m \in Nat,
         m = held[a][t] + n, Moved(held, held', a, t, m),
         MoveBalance(t, n), UNCHANGED reserve
  PROVE  /\ pool' \in Int /\ foreign' \in [Foreign -> Int]
         /\ held' \in [Agreement -> [Token -> Nat]]
         /\ \A u \in Token : Balance(u)' = Kept(u)'
<1>1. /\ EarnInv /\ RentTypes /\ \A u \in Token : Balance(u) = Kept(u)
  BY DEF RentInv
<1>2. pool \in Int /\ foreign \in [Foreign -> Int] /\ held \in [Agreement -> [Token -> Nat]]
      /\ Pooled \in Nat /\ SumFunction(reserve) \in Nat
  <2>1. SumFunction(reserve) \in Nat
    BY <1>1, SumsAreNumbers
  <2>2. pool \in Int
    BY <1>1 DEF EarnInv, InterestTypes
  <2>3. foreign \in [Foreign -> Int] /\ held \in [Agreement -> [Token -> Nat]]
    BY <1>1 DEF RentTypes
  <2> QED
    BY <2>1, <2>2, <2>3, InterestAssumption
<1>3. /\ pool' = IF t = Base THEN pool + n ELSE pool
      /\ foreign' = [u \in Foreign |-> foreign[u] + IF u = t THEN n ELSE 0]
  BY DEF MoveBalance
<1>4. pool' \in Int /\ foreign' \in [Foreign -> Int]
  BY <1>2, <1>3
<1>5. ASSUME NEW u \in Token
      PROVE  /\ HeldIn(u) \in Int /\ HeldIn(u)' = HeldIn(u) + IF u = t THEN n ELSE 0
             /\ held' \in [Agreement -> [Token -> Nat]]
  <2>1. ASSUME NEW h, h = held, NEW g, g = held'
        PROVE  /\ g \in [Agreement -> [Token -> Nat]]
               /\ InToken(h, u) \in Int
               /\ InToken(g, u) = InToken(h, u) + IF u = t THEN m - h[a][t] ELSE 0
    <3>1. h \in [Agreement -> [Token -> Nat]] /\ Moved(h, g, a, t, m)
      BY <1>2, <2>1 DEF Moved
    <3> QED
      BY <3>1, HeldMoves
  <2>2. m - held[a][t] = n
    <3>1. held[a][t] \in Nat
      BY <1>2
    <3> QED
      BY <3>1
  <2> QED
    BY <2>1, <2>2 DEF HeldIn
<1>6. ASSUME NEW u \in Token
      PROVE  Balance(u)' = Balance(u) + (IF u = t THEN n ELSE 0) /\ Balance(u) \in Int
  <2>1. CASE u = Base
    BY <1>2, <1>3, <2>1 DEF Balance
  <2>2. CASE u # Base
    BY <1>2, <1>3, <2>2 DEF Balance, Token
  <2> QED
    BY <2>1, <2>2
<1>7. ASSUME NEW u \in Token
      PROVE  Balance(u)' = Kept(u)'
  <2> DEFINE k == IF u = Base THEN Pooled + SumFunction(reserve) ELSE 0
             d == IF u = t THEN n ELSE 0
  <2>1. Kept(u) = HeldIn(u) + k /\ Kept(u)' = HeldIn(u)' + k
    BY DEF Kept
  <2>2. k \in Int /\ d \in Int
    BY <1>2
  <2>3. HeldIn(u) \in Int /\ HeldIn(u)' = HeldIn(u) + d
    BY <1>5
  <2>4. Balance(u)' = Balance(u) + d /\ Balance(u) = Kept(u)
    BY <1>1, <1>6
  <2> HIDE DEF k, d
  <2> QED
    BY <2>1, <2>2, <2>3, <2>4
<1> QED
  BY <1>4, <1>5, <1>7

\* The fee is a part of the payment.
LEMMA FeeIsPart ==
  ASSUME NEW x \in Nat, NEW f \in Nat, f <= 10000
  PROVE  (x * f) \div 10000 \in Nat /\ (x * f) \div 10000 <= x
<1> DEFINE y == x * f
<1>1. y \in Nat /\ y <= x * 10000
  OBVIOUS
<1> HIDE DEF y
<1>2. y \div 10000 \in Nat /\ y \div 10000 <= x
  BY <1>1
<1> QED
  BY <1>2 DEF y

\* One payment more makes one rent more.
LEMMA OneMore == ASSUME NEW c \in Nat, NEW r \in Int PROVE (c + 1) * r = c * r + r
OBVIOUS

\* make_payment_with_token: what the agreement holds and the account receives are one part.
LEMMA PaymentStep ==
  ASSUME RentInv, NEW a \in Agreement, NEW t \in Token, NEW amount \in Rents,
         MakePaymentWithToken(a, t, amount)
  PROVE  RentInv'
<1> DEFINE worth == InBase(t, amount)
           platform == (amount * fee) \div 10000
           landlord == amount - platform
           r == [landlord |-> landlord, platform |-> platform, token |-> t]
           m == held[a][t] + landlord
<1>1. /\ EarnInv /\ RentTypes /\ \A b \in Agreement : Accounted(b)
  BY DEF RentInv
<1>2. /\ lease[a].status = "Active" /\ supported[t] # NoToken /\ supported[t].min <= amount
      /\ worth >= Lease[a].rent
      /\ MoveBalance(t, landlord) /\ held' = [held EXCEPT ![a][t] = @ + landlord]
      /\ lease' = [lease EXCEPT ![a].total = @ + worth, ![a].count = @ + 1]
      /\ records' = [records EXCEPT ![a] = Append(@, r)]
      /\ UNCHANGED <<tokenVars, released, config, interest, reserve, today, used, since, paid>>
  BY DEF MakePaymentWithToken
<1>3. amount \in Nat
  <2>1. supported[t].min \in Nat
    <3>1. supported[t] \in TokenLimit
      BY <1>1 DEF RentTypes
    <3>2. supported[t] # NoToken
      BY <1>2
    <3> QED
      BY <3>1, <3>2 DEF TokenLimit
  <2> QED
    BY <1>2, <2>1, RentAssumption
<1>4. platform \in Nat /\ landlord \in Nat
  <2>1. fee \in Nat /\ fee <= 10000
    BY <1>1 DEF RentTypes, FeeRange
  <2>2. platform \in Nat /\ platform <= amount
    BY <1>3, <2>1, FeeIsPart
  <2> HIDE DEF platform
  <2> QED
    BY <1>3, <2>2
<1>5. r \in Record
  BY <1>4 DEF Record
<1>6. worth \in Int
  <2>1. CASE t = Base
    BY <1>3, <2>1 DEF InBase
  <2>2. CASE t # Base
    <3>1. rate[t] \in Int /\ Scale \in Nat \ {0}
      BY <1>1, <2>2, RentAssumption DEF RentTypes, Token
    <3>2. amount * rate[t] \in Int
      BY <1>3, <3>1
    <3>3. (amount * rate[t]) \div Scale \in Int
      BY <3>1, <3>2
    <3> QED
      BY <2>2, <3>3 DEF InBase
  <2> QED
    BY <2>1, <2>2
<1>7. Lease[a].rent \in Int /\ Lease[a].rent > 0 /\ worth \in Nat
  <2>1. Lease[a].rent \in Int
    BY RentAssumption
  <2>2. Lease[a].rent > 0
    BY <1>1, <1>2 DEF Accounted
  <2> QED
    BY <1>2, <1>6, <2>1, <2>2
<1> HIDE DEF worth
<1>8. held[a][t] \in Nat /\ m \in Nat /\ held' = [held EXCEPT ![a][t] = m]
  <2>1. held \in [Agreement -> [Token -> Nat]]
    BY <1>1 DEF RentTypes
  <2>2. held[a][t] \in Nat
    BY <2>1
  <2> QED
    BY <1>2, <1>4, <2>1, <2>2
<1> HIDE DEF landlord, platform, r
<1>9. /\ pool' \in Int /\ foreign' \in [Foreign -> Int]
      /\ held' \in [Agreement -> [Token -> Nat]]
      /\ \A u \in Token : Balance(u)' = Kept(u)'
  <2>1. landlord \in Int /\ m = held[a][t] + landlord /\ UNCHANGED reserve
    BY <1>2, <1>4
  <2>2. Moved(held, held', a, t, m) /\ m \in Nat
    BY <1>8 DEF Moved
  <2>3. MoveBalance(t, landlord)
    BY <1>2
  <2> HIDE DEF m
  <2> QED
    BY <2>1, <2>2, <2>3, HoldingsMove
<1>10. /\ lease'[a].status = "Active" /\ lease'[a].total = lease[a].total + worth
       /\ lease'[a].count = lease[a].count + 1
       /\ lease[a].total \in Nat /\ lease[a].count \in Nat
       /\ \A b \in Agreement \ {a} : lease'[b] = lease[b]
       /\ lease' \in [Agreement -> LeaseRow]
  <2>1. lease \in [Agreement -> LeaseRow] /\ lease[a] \in LeaseRow
    BY <1>1 DEF RentTypes
  <2>2. ASSUME NEW q \in LeaseRow, NEW z, q.status = "Active",
               z = [q EXCEPT !.total = q.total + worth, !.count = q.count + 1]
        PROVE  /\ z \in LeaseRow /\ z.status = "Active" /\ z.total = q.total + worth
               /\ z.count = q.count + 1 /\ q.total \in Nat /\ q.count \in Nat
    <3>1. q.total + worth \in Nat /\ q.count + 1 \in Nat
      BY <1>7 DEF LeaseRow
    <3> QED
      BY <2>2, <3>1 DEF LeaseRow
  <2>3. lease'[a] = [lease[a] EXCEPT !.total = lease[a].total + worth, !.count = lease[a].count + 1]
        /\ \A b \in Agreement \ {a} : lease'[b] = lease[b]
    BY <1>2, <2>1
  <2>4. /\ lease'[a] \in LeaseRow /\ lease'[a].status = "Active"
        /\ lease'[a].total = lease[a].total + worth /\ lease'[a].count = lease[a].count + 1
        /\ lease[a].total \in Nat /\ lease[a].count \in Nat
    BY <1>2, <2>1, <2>2, <2>3
  <2>5. lease' \in [Agreement -> LeaseRow]
    BY <1>2, <2>1, <2>3, <2>4
  <2> QED
    BY <2>3, <2>4, <2>5
<1>11. /\ records' \in [Agreement -> Seq(Record)] /\ records[a] \in Seq(Record)
       /\ records'[a] = Append(records[a], r)
       /\ \A b \in Agreement \ {a} : records'[b] = records[b]
  <2>1. records \in [Agreement -> Seq(Record)]
    BY <1>1 DEF RentTypes
  <2>2. records[a] \in Seq(Record)
    BY <2>1
  <2>3. Append(records[a], r) \in Seq(Record)
    BY <1>5, <2>2
  <2> DEFINE S == Seq(Record)
             z == Append(records[a], r)
  <2>4. records' = [records EXCEPT ![a] = z]
    BY <1>2
  <2> HIDE DEF S, z
  <2>5. records \in [Agreement -> S] /\ z \in S
    BY <2>1, <2>3 DEF S, z
  <2>6. /\ records' \in [Agreement -> S] /\ records'[a] = z
        /\ \A b \in Agreement \ {a} : records'[b] = records[b]
    BY <2>4, <2>5
  <2> QED
    BY <2>2, <2>6, Zenon DEF S, z
<1>12. RentTypes'
  <2>1. UNCHANGED <<supported, rate, fee, released>>
    BY <1>2 DEF tokenVars
  <2>2. /\ supported \in [Token -> TokenLimit]
        /\ rate \in [Foreign -> Int] /\ fee \in FeeRange
        /\ released \in [Agreement -> [Token -> Nat]]
    BY <1>1 DEF RentTypes
  <2> QED
    BY <1>9, <1>10, <1>11, <2>1, <2>2 DEF RentTypes
<1>13. ASSUME NEW u \in Token
       PROVE  held'[a][u] + released'[a][u] = Parts(records'[a], u)
  <2>1. Parts(records'[a], u) = Parts(records[a], u) + Part(r, u) /\ Parts(records[a], u) \in Int
    BY <1>5, <1>11, PartsAppend
  <2>2. held[a][u] + released[a][u] = Parts(records[a], u)
    BY <1>1 DEF Accounted
  <2>0. held \in [Agreement -> [Token -> Nat]] /\ released \in [Agreement -> [Token -> Nat]]
    BY <1>1 DEF RentTypes
  <2>3. held[a][u] \in Nat /\ released[a][u] \in Nat /\ released' = released
    BY <1>2, <2>0
  <2>4. held'[a][u] = IF u = t THEN m ELSE held[a][u]
    BY <1>8, <2>0
  <2>5. Part(r, u) = IF u = t THEN landlord ELSE 0
    BY DEF Part, r
  <2> QED
    BY <1>4, <2>1, <2>2, <2>3, <2>4, <2>5
<1>14. Accounted(a)'
  <2>1. lease'[a].count = Len(records'[a])
    <3>1. lease[a].count = Len(records[a])
      BY <1>1 DEF Accounted
    <3>2. Len(Append(records[a], r)) = Len(records[a]) + 1
      BY <1>5, <1>11
    <3> QED
      BY <1>10, <1>11, <3>1, <3>2
  <2>2. lease'[a].total >= lease'[a].count * Lease[a].rent
    <3>1. lease[a].total >= lease[a].count * Lease[a].rent
      BY <1>1 DEF Accounted
    <3>2. (lease[a].count + 1) * Lease[a].rent = lease[a].count * Lease[a].rent + Lease[a].rent
      BY <1>7, <1>10, OneMore
    <3>3. lease[a].count * Lease[a].rent \in Int
      BY <1>7, <1>10
    <3> QED
      BY <1>2, <1>7, <1>10, <3>1, <3>2, <3>3 DEF worth
  <2> QED
    BY <1>7, <1>10, <1>13, <2>1, <2>2 DEF Accounted
<1>15. \A b \in Agreement \ {a} : Accounted(b)'
  <2>1. \A b \in Agreement \ {a} : held'[b] = held[b]
    BY <1>1, <1>8 DEF RentTypes
  <2> QED
    BY <1>1, <1>2, <1>10, <1>11, <2>1 DEF Accounted
<1>16. EarnInv'
  BY <1>1, <1>2, <1>9, EarnKept
<1> QED
  BY <1>9, <1>12, <1>14, <1>15, <1>16 DEF RentInv

\* release_escrow_with_token: what leaves the account is what the agreement held.
LEMMA ReleaseStep ==
  ASSUME RentInv, NEW a \in Agreement, NEW t \in Token, ReleaseEscrowWithToken(a, t)
  PROVE  RentInv'
<1> DEFINE owed == held[a][t]
           n == -owed
<1>1. /\ EarnInv /\ RentTypes /\ \A b \in Agreement : Accounted(b)
  BY DEF RentInv
<1>2. /\ lease[a].status \in {"Active", "Completed", "Terminated"}
      /\ held' = [held EXCEPT ![a][t] = 0] /\ MoveBalance(t, n)
      /\ released' = [released EXCEPT ![a][t] = @ + owed]
      /\ UNCHANGED <<lease, tokenVars, records, config, interest, reserve, today, used, since, paid>>
  BY DEF ReleaseEscrowWithToken
<1>3. held \in [Agreement -> [Token -> Nat]] /\ released \in [Agreement -> [Token -> Nat]]
  BY <1>1 DEF RentTypes
<1>4. owed \in Nat /\ n \in Int /\ 0 = held[a][t] + n
  BY <1>3
<1>5. /\ pool' \in Int /\ foreign' \in [Foreign -> Int]
      /\ held' \in [Agreement -> [Token -> Nat]]
      /\ \A u \in Token : Balance(u)' = Kept(u)'
  <2>1. 0 \in Nat /\ n \in Int /\ 0 = held[a][t] + n /\ UNCHANGED reserve
        /\ Moved(held, held', a, t, 0) /\ MoveBalance(t, n)
    BY <1>2, <1>4 DEF Moved
  <2> HIDE DEF n, owed
  <2> QED
    BY <2>1, HoldingsMove
<1> HIDE DEF n, owed
<1>6. /\ released' \in [Agreement -> [Token -> Nat]]
      /\ released'[a] = [released[a] EXCEPT ![t] = @ + owed]
      /\ \A b \in Agreement \ {a} : released'[b] = released[b] /\ held'[b] = held[b]
      /\ held'[a] = [held[a] EXCEPT ![t] = 0]
  BY <1>2, <1>3, <1>4
<1>7. RentTypes'
  <2>1. UNCHANGED <<lease, supported, rate, fee, records>>
    BY <1>2 DEF tokenVars
  <2> QED
    BY <1>1, <1>5, <1>6, <2>1 DEF RentTypes
<1>8. Accounted(a)'
  <2>1. ASSUME NEW u \in Token
        PROVE  held'[a][u] + released'[a][u] = Parts(records'[a], u)
    <3>1. /\ held[a][u] \in Nat /\ released[a][u] \in Nat
          /\ held[a] \in [Token -> Nat] /\ released[a] \in [Token -> Nat]
      BY <1>3
    <3>2. held[a][u] + released[a][u] = Parts(records'[a], u)
      BY <1>1, <1>2 DEF Accounted
    <3>3. CASE u = t
      <4>1. held'[a][u] = 0 /\ released'[a][u] = released[a][u] + owed /\ owed = held[a][u]
        BY <1>6, <3>1, <3>3 DEF owed
      <4> QED
        BY <3>1, <3>2, <4>1
    <3>4. CASE u # t
      BY <1>6, <3>1, <3>2, <3>4
    <3> QED
      BY <3>3, <3>4
  <2>2. lease'[a].status = "Active"
    <3>1. lease[a].status \in {"none", "Draft", "Pending", "Active", "Cancelled"}
      BY <1>1 DEF RentTypes, LeaseRow
    <3> QED
      BY <1>2, <3>1
  <2> QED
    BY <1>1, <1>2, <2>1, <2>2 DEF Accounted
<1>9. \A b \in Agreement \ {a} : Accounted(b)'
  BY <1>1, <1>2, <1>6 DEF Accounted
<1>10. EarnInv'
  BY <1>1, <1>2, <1>5, EarnKept
<1> QED
  BY <1>5, <1>7, <1>8, <1>9, <1>10 DEF RentInv

\* The first state has nothing on account and owes nothing.
LEMMA RentStart == RentInit => RentInv
<1> SUFFICES ASSUME RentInit
             PROVE  RentInv
  OBVIOUS
<1>1. EarnInv
  BY EarnInit DEF RentInit
<1>2. /\ lease = [a \in Agreement |-> NoLease]
      /\ supported = [t \in Token |-> NoToken]
      /\ rate = [t \in Foreign |-> NoRate]
      /\ fee \in Fees /\ fee <= 10000
      /\ held = [a \in Agreement |-> [t \in Token |-> 0]]
      /\ foreign = [t \in Foreign |-> 0]
      /\ records = [a \in Agreement |-> <<>>]
      /\ released = [a \in Agreement |-> [t \in Token |-> 0]]
      /\ reserve = [a \in Agreement |-> 0] /\ pool = Pooled
  BY DEF RentInit, InterestInit
<1>3. RentTypes
  <2>1. fee \in FeeRange
    BY <1>2, RentAssumption DEF FeeRange
  <2>2. NoLease \in LeaseRow /\ NoToken \in TokenLimit
    BY DEF NoLease, LeaseRow, TokenLimit
  <2>3. <<>> \in Seq(Record) /\ NoRate \in Int
    BY DEF NoRate
  <2>4. rate \in [Foreign -> Int] /\ foreign \in [Foreign -> Int]
    BY <1>2, <2>3
  <2>5. held \in [Agreement -> [Token -> Nat]] /\ released \in [Agreement -> [Token -> Nat]]
    BY <1>2
  <2> QED
    BY <1>2, <2>1, <2>2, <2>3, <2>4, <2>5 DEF RentTypes
<1>4. ASSUME NEW a \in Agreement
      PROVE  Accounted(a)
  <2>1. \A t : Parts(<<>>, t) = 0
    <3> SUFFICES ASSUME NEW t
                 PROVE  Parts(<<>>, t) = 0
      OBVIOUS
    <3> DEFINE f == [i \in DOMAIN <<>> |-> IF <<>>[i].token = t THEN <<>>[i].landlord ELSE 0]
    <3>1. DOMAIN f = {}
      OBVIOUS
    <3>2. Parts(<<>>, t) = SumFunction(f)
      BY DEF Parts
    <3> HIDE DEF f
    <3> QED
      BY <3>1, <3>2, SumIsSum, SumEmpty
  <2>2. /\ lease[a].status = "none" /\ lease[a].total = 0 /\ lease[a].count = 0
        /\ records[a] = <<>> /\ Len(records[a]) = 0
        /\ \A t \in Token : held[a][t] = 0 /\ released[a][t] = 0
    BY <1>2 DEF NoLease
  <2>3. Lease[a].rent \in Int
    BY RentAssumption
  <2>4. 0 * Lease[a].rent = 0
    BY <2>3
  <2> QED
    BY <2>1, <2>2, <2>4 DEF Accounted
<1>5. ASSUME NEW f, f \in [Agreement -> {0}]
      PROVE  SumFunction(f) = 0
  <2>1. DOMAIN f = Agreement /\ IsFiniteSet(Agreement) /\ \A a \in Agreement : f[a] = 0
    BY <1>5, InterestAssumption
  <2> QED
    BY <2>1, SumIsSum, SumZero
<1>6. ASSUME NEW t \in Token
      PROVE  Balance(t) = Kept(t)
  <2>1. SumFunction(reserve) = 0
    BY <1>2, <1>5
  <2>2. HeldIn(t) = 0
    <3> DEFINE f == [b \in Agreement |-> held[b][t]]
    <3>1. f \in [Agreement -> {0}]
      BY <1>2
    <3>2. HeldIn(t) = SumFunction(f)
      BY DEF HeldIn, InToken
    <3> HIDE DEF f
    <3> QED
      BY <1>5, <3>1, <3>2
  <2>3. Pooled \in Nat
    BY InterestAssumption
  <2>4. t # Base => foreign[t] = 0
    BY <1>2 DEF Token
  <2>5. Kept(t) = IF t = Base THEN Pooled ELSE 0
    BY <2>1, <2>2, <2>3 DEF Kept
  <2> QED
    BY <1>2, <2>4, <2>5 DEF Balance
<1> QED
  BY <1>1, <1>3, <1>4, <1>6 DEF RentInv

\* Creating, submitting, signing and cancelling an agreement move no money.
LEMMA LifeStep ==
  ASSUME RentInv, NEW a \in Agreement,
         \/ CreateAgreement(a) \/ CreateAgreementWithToken(a)
         \/ SubmitAgreement(a) \/ SignAgreement(a) \/ CancelAgreement(a)
  PROVE  RentInv'
<1>1. lease[a].status # "none" => Lease[a].rent > 0
  BY DEF RentInv, Accounted
<1>2. ASSUME CreateAgreement(a)
      PROVE  RentInv'
  <2>1. Lease[a].rent > 0 /\ SetStatus(a, {"none"}, "Draft") /\ lease[a].status # "Active"
    BY <1>2 DEF CreateAgreement, ValidParams, SetStatus
  <2> QED
    BY <2>1, StatusStep
<1>3. ASSUME SubmitAgreement(a)
      PROVE  RentInv'
  <2>1. Lease[a].rent > 0 /\ SetStatus(a, {"Draft"}, "Pending") /\ lease[a].status # "Active"
    BY <1>1, <1>3 DEF SubmitAgreement, SetStatus
  <2> QED
    BY <2>1, StatusStep
<1>4. ASSUME SignAgreement(a)
      PROVE  RentInv'
  <2>1. Lease[a].rent > 0 /\ SetStatus(a, {"Pending"}, "Active") /\ lease[a].status # "Active"
    BY <1>1, <1>4 DEF SignAgreement, SetStatus
  <2> QED
    BY <2>1, StatusStep
<1>5. ASSUME CancelAgreement(a)
      PROVE  RentInv'
  <2>1. Lease[a].rent > 0 /\ SetStatus(a, {"Draft", "Pending"}, "Cancelled")
        /\ lease[a].status # "Active"
    BY <1>1, <1>5 DEF CancelAgreement, SetStatus
  <2> QED
    BY <2>1, StatusStep
<1> QED
  BY <1>2, <1>3, <1>4, <1>5 DEF CreateAgreementWithToken

\* Every step of the agreements and of their interest, together or alone.
LEMMA RentStep ==
  ASSUME RentInv,
         \/ RentNext
         \/ InterestNext /\ UNCHANGED leaseVars
         \/ UNCHANGED rentVars
  PROVE  RentInv'
<1>1. ASSUME InterestNext, UNCHANGED leaseVars
      PROVE  RentInv'
  <2>1. ASSUME NEW a \in Agreement,
               \/ \E terms \in Terms : SetConfig(a, terms)
               \/ Accrue(a)
               \/ \E amount \in Funding : FundReserve(a, amount)
               \/ Distribute(a)
        PROVE  RentInv'
    BY <1>1, <2>1, InterestStep
  <2>2. ASSUME NEW n \in Gaps, DaysPass(n)
        PROVE  RentInv'
    BY <1>1, <2>2, DaysStep
  <2> QED
    BY <1>1, <2>1, <2>2 DEF InterestNext
<1>2. ASSUME UNCHANGED rentVars
      PROVE  RentInv'
  <2>1. EarnInv /\ pool \in Int
    BY DEF RentInv, EarnInv, InterestTypes
  <2>2. UNCHANGED <<config, interest, reserve, today, used, since, paid>> /\ pool' \in Int
    BY <1>2, <2>1 DEF rentVars, interestVars
  <2>3. EarnInv'
    BY <2>1, <2>2, EarnKept
  <2> QED
    BY <1>2, <2>3, BooksStay DEF rentVars, interestVars
<1>3. ASSUME NEW a \in Agreement, Interest(a)
      PROVE  RentInv'
  BY <1>3, InterestStep DEF Interest
<1>4. ASSUME NEW n \in Gaps, DaysPass(n), UNCHANGED leaseVars
      PROVE  RentInv'
  BY <1>4, DaysStep
<1>5. ASSUME NEW a \in Agreement,
             \/ CreateAgreement(a) \/ CreateAgreementWithToken(a)
             \/ SubmitAgreement(a) \/ SignAgreement(a) \/ CancelAgreement(a)
      PROVE  RentInv'
  BY <1>5, LifeStep
<1>6. ASSUME NEW a \in Agreement, NEW t \in Token, NEW amount \in Rents,
             MakePaymentWithToken(a, t, amount)
      PROVE  RentInv'
  BY <1>6, PaymentStep
<1>7. ASSUME NEW a \in Agreement, NEW t \in Token, ReleaseEscrowWithToken(a, t)
      PROVE  RentInv'
  BY <1>7, ReleaseStep
<1>8. Tokens => RentInv'
  BY TokensStep
<1>9. RentNext => RentInv'
  BY <1>3, <1>4, <1>5, <1>6, <1>7, <1>8 DEF RentNext
<1> QED
  BY <1>1, <1>2, <1>9

\* The invariant of the pooled accounts, through every step of MoneyNext.
LEMMA RentAlways == MoneySpec => []RentInv
<1>1. MoneyInit => RentInv
  BY RentStart DEF MoneyInit
<1>2. RentInv /\ [MoneyNext]_<<part, cardVars, escrowVars, vars, rentVars>> => RentInv'
  <2>1. ASSUME RentInv, [MoneyNext]_<<part, cardVars, escrowVars, vars, rentVars>>
        PROVE  \/ RentNext
               \/ InterestNext /\ UNCHANGED leaseVars
               \/ UNCHANGED rentVars
    BY <2>1 DEF MoneyNext
  <2> QED
    BY <2>1, RentStep
<1> QED
  BY <1>1, <1>2, PTL DEF MoneySpec

\* No day of a deposit earns twice, and interest is paid only from what was funded
\* for it, however terms, accruals, funding and payouts follow on one another
\* (vespera/src/deposit_interest.rs).
THEOREM InterestIsEarnedAndFundedAlways == MoneySpec => []InterestIsEarnedAndFunded
<1>1. RentInv => InterestIsEarnedAndFunded
  BY RentInvHolds
<1> QED
  BY <1>1, RentAlways, PTL

\* The contract holds of each token exactly what is held for the agreements and in
\* the interest reserves, and of each payment the landlord's part is held or was
\* released, once, while fees, rates, tokens and days change
\* (vespera/src/agreement.rs, multi_token.rs).
THEOREM RentReachesLandlordAlways == MoneySpec => []RentReachesLandlord
<1>1. RentInv => RentReachesLandlord
  BY RentInvHolds
<1> QED
  BY <1>1, RentAlways, PTL

\* Both hold of the contract alone, without the conditions under which the run
\* searches its behaviours.
THEOREM RentSafe == RentSpec => [](InterestIsEarnedAndFunded /\ RentReachesLandlord)
<1>1. RentInv /\ [RentNext]_rentVars => RentInv'
  BY RentStep
<1> QED
  BY RentStart, <1>1, RentInvHolds, PTL DEF RentSpec

-----------------------------------------------------------------------------
(* Types.                                                                  *)
-----------------------------------------------------------------------------

\* What the invariant of escrow accounts does not mention.
Mirrored ==
  /\ pay \in [Escrow -> Payment]
  /\ linked \in [Escrow -> BOOLEAN]
  /\ mishaps \in Nat /\ mishaps <= MaxMishaps
  /\ started \in Nat /\ started <= MaxRequests

\* Links stay flags.
LEMMA LinkType ==
  ASSUME linked \in [Escrow -> BOOLEAN], NEW e \in Escrow, NEW b \in BOOLEAN,
         linked' = Set(linked, e, b)
  PROVE  linked' \in [Escrow -> BOOLEAN]
BY Zenon DEF Set

\* A request or a webhook is counted.
Begun == started < MaxRequests /\ started' = started + 1

\* The payment rows beside escrows, and the counters of faults and starts, keep their types.
LEMMA MirroredStep ==
  ASSUME EscrowInv, Mirrored, [EscrowNext]_escrowVars
  PROVE  Mirrored'
<1>1. (UNCHANGED mishaps \/ Mishap) /\ (UNCHANGED started \/ Begun)
  <2>1. ASSUME NEW q \in Request, NEW e \in Escrow,
               BeginDeposit(q, e) \/ BeginRelease(q, e) \/ BeginRefund(q, e) \/ Reconcile(q, e)
        PROVE  UNCHANGED mishaps /\ Begun
    BY <2>1 DEF BeginDeposit, BeginRelease, BeginRefund, Reconcile, Start, Begun
  <2>2. ASSUME NEW q \in Request,
               CreateAccount(q) \/ Fund(q) \/ RecordEscrow(q) \/ SaveDeposit(q) \/ FailDeposit(q)
        PROVE  (UNCHANGED mishaps \/ Mishap) /\ UNCHANGED started
    BY <2>2, Zenon DEF CreateAccount, Fund, RecordEscrow, SaveDeposit, FailDeposit, NoMishap
  <2>3. ASSUME NEW q \in Request,
               LoadAccount(q) \/ SubmitSettlement(q) \/ CommitSettlement(q) \/ Sync(q)
                 \/ CrashRequest(q)
        PROVE  (UNCHANGED mishaps \/ Mishap) /\ UNCHANGED started
    BY <2>3, Zenon DEF LoadAccount, SubmitSettlement, CommitSettlement, Sync, CrashRequest, NoMishap
  <2>4. ASSUME NEW e \in Escrow, NEW s \in Payment \ {"none"}, NEW hash \in BOOLEAN, Webhook(e, s, hash)
        PROVE  UNCHANGED mishaps /\ Begun
    BY <2>4 DEF Webhook, Begun
  <2>5. CASE UNCHANGED escrowVars
    BY <2>5 DEF escrowVars
  <2> QED
    BY Zenon, <2>1, <2>2, <2>3, <2>4, <2>5 DEF EscrowNext
<1>3. ASSUME NEW q \in Request, SaveDeposit(q)
      PROVE  pay' \in [Escrow -> Payment] /\ linked' \in [Escrow -> BOOLEAN]
  <2>1. req[q].escrow \in Escrow
    BY <1>3 DEF SaveDeposit, At, EscrowInv, Located
  <2>2. CASE UNCHANGED <<pay, linked>>
    BY <2>2 DEF Mirrored
  <2>3. CASE pay' = Set(pay, req[q].escrow, "pending") /\ linked' = Set(linked, req[q].escrow, TRUE)
    <3>1. pay' \in [Escrow -> Payment]
      BY <2>1, <2>3 DEF Mirrored, Set, Payment
    <3>2. linked \in [Escrow -> BOOLEAN] /\ TRUE \in BOOLEAN
      BY DEF Mirrored
    <3>3. linked' \in [Escrow -> BOOLEAN]
      BY <2>1, <2>3, <3>2, LinkType
    <3> QED
      BY <3>1, <3>3
  <2> QED
    BY <1>3, <2>2, <2>3 DEF SaveDeposit
<1>4. ASSUME NEW q \in Request, Sync(q)
      PROVE  pay' \in [Escrow -> Payment] /\ linked' \in [Escrow -> BOOLEAN]
  <2>1. PaymentOf(req[q].seen) \in Payment
    BY DEF PaymentOf, Payment
  <2>2. /\ linked' = linked
        /\ pay' = pay \/ pay' = Set(pay, req[q].escrow, PaymentOf(req[q].seen))
    BY <1>4 DEF Sync
  <2> QED
    BY <2>1, <2>2 DEF Mirrored, Set
<1>5. ASSUME NEW e \in Escrow, NEW s \in Payment \ {"none"}, NEW hash \in BOOLEAN, Webhook(e, s, hash)
      PROVE  pay' \in [Escrow -> Payment] /\ linked' \in [Escrow -> BOOLEAN]
  <2>1. pay' = Set(pay, e, s) /\ linked' = Set(linked, e, linked[e] /\ ~hash)
    BY <1>5 DEF Webhook
  <2>2. pay' \in [Escrow -> Payment]
    BY <2>1 DEF Mirrored, Set
  <2>3. linked \in [Escrow -> BOOLEAN] /\ (linked[e] /\ ~hash) \in BOOLEAN
    BY DEF Mirrored
  <2>4. linked' \in [Escrow -> BOOLEAN]
    BY <2>1, <2>3, LinkType
  <2> QED
    BY <2>2, <2>4
<1>6. ASSUME UNCHANGED <<pay, linked>>
      PROVE  pay' \in [Escrow -> Payment] /\ linked' \in [Escrow -> BOOLEAN]
  BY <1>6 DEF Mirrored
<1>7. \/ \E q \in Request : SaveDeposit(q) \/ Sync(q)
      \/ \E e \in Escrow, s \in Payment \ {"none"}, hash \in BOOLEAN : Webhook(e, s, hash)
      \/ UNCHANGED <<pay, linked>>
  BY DEF EscrowNext, BeginDeposit, BeginRelease, BeginRefund, Reconcile, CreateAccount, Fund,
         RecordEscrow, FailDeposit, LoadAccount, SubmitSettlement, CommitSettlement,
         CrashRequest, escrowVars
<1>8. pay' \in [Escrow -> Payment] /\ linked' \in [Escrow -> BOOLEAN]
  BY <1>3, <1>4, <1>5, <1>6, <1>7
<1>9. mishaps' \in Nat /\ mishaps' <= MaxMishaps /\ started' \in Nat /\ started' <= MaxRequests
  BY <1>1, StellarEscrowAssumption DEF Mirrored, Mishap, Begun
<1> QED
  BY <1>8, <1>9 DEF Mirrored

\* Nothing is mirrored at first.
LEMMA MirroredStart == EscrowInit => Mirrored
BY StellarEscrowAssumption DEF EscrowInit, Mirrored, Payment

\* The invariant of the card payments implies their types.
LEMMA CardTyped == CardInv => CardTypeOK
<1> SUFFICES ASSUME CardInv
             PROVE  CardTypeOK
  OBVIOUS
<1>1. CardTypes
  BY DEF CardInv
<1>2. ASSUME NEW q \in CardRequest
      PROVE  /\ DOMAIN cardReq[q] = DOMAIN CardIdle
             /\ cardReq[q].key \in Key \cup {NoHeader}
             /\ cardReq[q].copy \in Copies \cup Schedules
             /\ cardReq[q].id \in 0..Len(rows) /\ cardReq[q].n \in 0..(Amount + MaxRows)
  <2>1. cardReq[q] \in CardReqs
    BY <1>1 DEF CardTypes
  <2>2. DOMAIN cardReq[q] = DOMAIN CardIdle
    BY <2>1 DEF CardReqs, CardIdle
  <2>3. /\ cardReq[q].key \in Key \cup {NoHeader} /\ cardReq[q].copy \in Copies \cup Schedules
        /\ cardReq[q].id \in Nat /\ cardReq[q].n \in 0..(Amount + MaxRows)
    BY <2>1, PaymentsAssumption DEF CardReqs
  <2>4. rows \in Seq(Copies)
    BY <1>1 DEF CardTypes
  <2>5. DOMAIN rows = 1..Len(rows) /\ Len(rows) \in Nat
    BY <2>4
  <2>6. cardReq[q].id # 0 => cardReq[q].id \in DOMAIN rows
    BY DEF CardInv, Placed, Copied, CopyTrue
  <2>7. cardReq[q].id \in 0..Len(rows)
    BY <2>3, <2>5, <2>6
  <2> QED
    BY <2>2, <2>3, <2>7
<1> QED
  BY <1>1, <1>2 DEF CardTypes, CardTypeOK

\* The invariants of the Stellar escrows imply their types.
LEMMA EscrowTyped == EscrowInv /\ Mirrored => EscrowTypeOK
BY StellarEscrowAssumption DEF EscrowInv, EscrowTypes, Requests, Mirrored, EscrowTypeOK

\* The invariant of the pooled accounts implies the types of interest and rent.
LEMMA RentTyped == RentInv => InterestTypeOK /\ RentTypeOK
<1> SUFFICES ASSUME RentInv
             PROVE  InterestTypeOK /\ RentTypeOK
  OBVIOUS
<1>1. EarnInv /\ RentTypes /\ InterestTypes /\ \A t \in Token : Balance(t) = Kept(t)
  BY DEF RentInv, EarnInv
<1>2. SumFunction(reserve) \in Nat /\ Pooled \in Nat /\ \A t \in Token : HeldIn(t) \in Nat
  BY <1>1, SumsAreNumbers, InterestAssumption
<1>3. \A t \in Token : Balance(t) \in Nat
  BY <1>1, <1>2 DEF Kept
<1>4. pool \in Nat
  BY <1>3 DEF Balance, Token
<1>5. foreign \in [Foreign -> Nat]
  <2>1. \A t \in Foreign : foreign[t] \in Nat
    BY <1>3, RentAssumption DEF Balance, Token
  <2> QED
    BY <1>1, <2>1 DEF RentTypes
<1>6. ASSUME NEW a \in Agreement
      PROVE  config[a] = NoConfig <=> interest[a] = NoInterest
  <2>1. CASE Bare(a)
    BY <2>1 DEF Bare
  <2>2. CASE Earning(a)
    <3>1. config[a] \in Terms
      BY <1>1, <2>2 DEF Earning, InterestTypes
    <3>2. config[a] # NoConfig
      BY <3>1, TermTypes
    <3>3. interest[a].last # -1
      BY <2>2 DEF Earning
    <3> QED
      BY <3>2, <3>3 DEF NoInterest
  <2> QED
    BY <1>1, <2>1, <2>2 DEF EarnInv, Earns
<1>7. InterestTypeOK
  BY <1>1, <1>4, <1>6 DEF InterestTypes, InterestTypeOK
<1>8. RentTypeOK
  BY <1>1, <1>5 DEF RentTypes, LeaseRow, TokenLimit, FeeRange, RentTypeOK
<1> QED
  BY <1>7, <1>8

\* No escrow, reserve or balance is ever overdrawn, no request refers to a row that
\* is not there, and every part keeps its types, within its bounds, whichever part
\* the money moves in.
THEOREM TypesOKAlways == MoneySpec => []TypesOK
<1> DEFINE All == CardInv /\ EscrowInv /\ Mirrored /\ Inv /\ RentInv
<1>1. MoneyInit => All
  BY CardInvInit, EscrowInvInit, MirroredStart, InvInit, RentStart DEF MoneyInit
<1>2. All /\ [MoneyNext]_<<part, cardVars, escrowVars, vars, rentVars>> => All'
  <2> SUFFICES ASSUME All, [MoneyNext]_<<part, cardVars, escrowVars, vars, rentVars>>
               PROVE  All'
    OBVIOUS
  <2>1. /\ [CardNext]_cardVars /\ [EscrowNext]_escrowVars /\ [Next]_vars
        /\ RentNext \/ (InterestNext /\ UNCHANGED leaseVars) \/ UNCHANGED rentVars
    BY DEF MoneyNext
  <2>2. CardInv'
    BY <2>1, CardInvStep
  <2>3. EscrowInv' /\ Mirrored'
    BY <2>1, EscrowInvStep, MirroredStep
  <2>4. Inv'
    BY <2>1, InvStep
  <2>5. RentInv'
    BY <2>1, RentStep
  <2> QED
    BY <2>2, <2>3, <2>4, <2>5
<1>3. All => TypesOK
  BY CardTyped, EscrowTyped, RentTyped DEF TypesOK, Inv, Types
<1> HIDE DEF All
<1> QED
  BY <1>1, <1>2, <1>3, PTL DEF MoneySpec

\* Each part runs by its own specification, whatever the others are.
THEOREM MoneyPartsRun == MoneySpec => CardSpec /\ EscrowSpec /\ Spec
<1>1. MoneyInit => CardInit /\ EscrowInit /\ Init
  BY DEF MoneyInit
<1>2. [MoneyNext]_<<part, cardVars, escrowVars, vars, rentVars>> =>
        [CardNext]_cardVars /\ [EscrowNext]_escrowVars /\ [Next]_vars
  BY DEF MoneyNext
<1> QED
  BY <1>1, <1>2, PTL DEF MoneySpec, CardSpec, EscrowSpec, Spec

\* What holds of each way of moving money alone holds of the five together.
THEOREM MoneySafe ==
  MoneySpec =>
    /\ [](NoChargeLost /\ RefundOnce /\ KeyOfFunds /\ BooksFollowLedger)
    /\ [](OncePerCall /\ OncePerKey /\ RowsFollowLedger)
    /\ [](InterestIsEarnedAndFunded /\ RentReachesLandlord)
    /\ ChargeOncePerRow
BY MoneyPartsRun, NoChargeLostAlways, RefundOnceAlways, ChargeOncePerRowAlways, KeyOfFundsAlways,
   BooksFollowLedgerAlways, OncePerCallAlways, OncePerKeyAlways, RowsFollowLedgerAlways,
   InterestIsEarnedAndFundedAlways, RentReachesLandlordAlways, PTL
=============================================================================
