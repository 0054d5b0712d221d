-------------------------------- MODULE Anchor --------------------------------
(***************************************************************************)
(* Fiat deposits and withdrawals through a Stellar anchor.  The backend    *)
(* keeps a row per request; the anchor keeps its own transaction, tells of *)
(* its progress by webhooks, answers polls, and says "completed" before    *)
(* Horizon shows the payment or without one.  The three meet in            *)
(* applyAnchorUpdate, which holds the row's lock: it is one action.        *)
(***************************************************************************)
EXTENDS Integers, Sequences, FiniteSets

CONSTANTS
  Request,        \* the requests for a deposit or a withdrawal
  MaxAttempts,    \* anchorMaxAttempts
  Stamps,         \* whether the anchor stamps its webhooks: a subset of BOOLEAN
  MaxPolls        \* bound: answers to polls not yet applied

ASSUME AnchorAssumption == Stamps \subseteq BOOLEAN

VARIABLES
  rows,           \* anchor_transactions, by request
  call,           \* initiateDeposit / initiateWithdrawal: where it is, its tries, the id it got
  atx,            \* the anchor's transactions, by number
  polls           \* getTransactionStatus: what the anchor answered, not yet applied

vars == <<rows, call, atx, polls>>

NoId == 0
NoSeq == 0
\* The anchor's statuses in the order it goes through them.
Stage(s) == CASE s = "started" -> 1 [] s = "pending_anchor" -> 2
              [] OTHER -> 3
AnchorStatus == {"started", "pending_anchor", "completed", "refunded", "error"}

mapAnchorStatus ==
  [s \in AnchorStatus |->
     CASE s = "started" -> "PENDING"
       [] s = "pending_anchor" -> "PROCESSING"
       [] s = "completed" -> "COMPLETED"
       [] s = "refunded" -> "REFUNDED"
       [] s = "error" -> "FAILED"]
Terminal == {"COMPLETED", "REFUNDED", "FAILED"}

Event == {"hook", "poll"} \X AnchorStatus
NoRow == [type |-> "none", status |-> "none", id |-> NoId, seq |-> NoSeq,
          hash |-> FALSE, events |-> {}]

-----------------------------------------------------------------------------
Init ==
  /\ rows = [q \in Request |-> NoRow]
  /\ call = [q \in Request |-> [pc |-> "idle", tries |-> 0, id |-> NoId]]
  /\ atx = <<>>
  /\ polls = {}

\* The row is stored PENDING before the anchor is asked.
Create(q, type) ==
  /\ call[q].pc = "idle"
  /\ rows' = [rows EXCEPT ![q] = [NoRow EXCEPT !.type = type, !.status = "PENDING"]]
  /\ call' = [call EXCEPT ![q].pc = "post"]
  /\ UNCHANGED <<atx, polls>>

NewAtx(q, b) == Append(atx, [of |-> q, status |-> "started", stamps |-> b,
                             seen |-> FALSE, unacked |-> {}])

\* requestWithRetry: the anchor opens a transaction and its answer arrives.
PostAnswered(q, b) ==
  /\ call[q].pc = "post"
  /\ atx' = NewAtx(q, b)
  /\ call' = [call EXCEPT ![q].pc = "link", ![q].id = Len(atx')]
  /\ UNCHANGED <<rows, polls>>

\* 429, 5xx or a timeout, before or after the anchor opened one: try again, and
\* after the last try leave the row PENDING.
PostTransient(q, b, opened) ==
  /\ call[q].pc = "post"
  /\ atx' = IF opened THEN NewAtx(q, b) ELSE atx
  /\ call' = [call EXCEPT ![q].tries = @ + 1,
                          ![q].pc = IF call[q].tries + 1 < MaxAttempts THEN "post" ELSE "done"]
  /\ UNCHANGED <<rows, polls>>

PostRefused(q) ==
  /\ call[q].pc = "post"
  /\ call' = [call EXCEPT ![q].pc = "fail"]
  /\ UNCHANGED <<rows, atx, polls>>

\* The anchor's id is saved.  The save may fail, before or after it took effect;
\* the error may then look like an outage of the anchor.
Linked(q) == [rows EXCEPT ![q].id = call[q].id, ![q].seq = NoSeq]

SaveLink(q, effect, pc) ==
  /\ call[q].pc = "link"
  /\ rows' = IF effect THEN Linked(q) ELSE rows
  /\ call' = [call EXCEPT ![q].pc = pc]
  /\ UNCHANGED <<atx, polls>>

\* The handler's catch clause saves the entity as it remembers it, FAILED.
SaveFailed(q, effect) ==
  /\ call[q].pc = "fail"
  /\ rows' = IF effect
               THEN [rows EXCEPT ![q] = [@ EXCEPT !.status = "FAILED", !.id = call[q].id,
                                                  !.seq = NoSeq, !.events = {}]]
               ELSE rows
  /\ call' = [call EXCEPT ![q].pc = "done"]
  /\ UNCHANGED <<atx, polls>>

-----------------------------------------------------------------------------
\* Mutant: an update that is about to complete the row trusts the anchor.
TrustAnchor(row, a) == row.hash /\ row.type = "deposit"

\* verifySettlementPayment: Horizon shows a payment of this transaction to the
\* row's destination.  A withdrawal's destination is an account at a bank.
Settled(row, a) == row.hash /\ a.seen /\ row.type = "deposit"

\* Mutant: only a completed row is final.
RefusesCompleted(row, status) ==
  row.status = "COMPLETED" /\ row.status # mapAnchorStatus[status]

\* A row that ended is left as it ended.
Refuses(row, status) == row.status \in Terminal /\ row.status # mapAnchorStatus[status]

\* Mutant: the event of an update that waits for Horizon is recorded.
AppliedOnce(row, a, via, status, seq) ==
  LET event == <<via, status>>
      tracked == [row EXCEPT !.events = @ \cup {event}]
      noted == [tracked EXCEPT !.hash = @ \/ status = "completed",
                               !.seq = IF seq # NoSeq THEN seq ELSE @]
      new == mapAnchorStatus[status]
  IN  IF event \in row.events THEN row
      ELSE IF (seq # NoSeq /\ seq < row.seq) \/ Refuses(row, status) THEN tracked
      ELSE IF new = "COMPLETED" /\ row.status # "COMPLETED" /\ ~Settled(noted, a)
        THEN noted
      ELSE [noted EXCEPT !.status = new]

\* applyAnchorUpdate, on the row as it is under the lock.
Applied(row, a, via, status, seq) ==
  LET event == <<via, status>>
      tracked == [row EXCEPT !.events = @ \cup {event}]
      noted == [row EXCEPT !.hash = @ \/ status = "completed",
                           !.seq = IF seq # NoSeq THEN seq ELSE @]
      new == mapAnchorStatus[status]
  IN  IF event \in row.events THEN row
      ELSE IF seq # NoSeq /\ seq < row.seq THEN tracked
      ELSE IF Refuses(row, status) THEN tracked
      ELSE IF new = "COMPLETED" /\ row.status # "COMPLETED" /\ ~Settled(noted, a)
        THEN noted
      ELSE [noted EXCEPT !.status = new, !.events = @ \cup {event}]

\* handleWebhook: the row is found by the anchor's id, or the webhook is dropped;
\* both are answered with success.  The anchor may not see the answer.
Deliver(i, status, acked) ==
  /\ i \in DOMAIN atx /\ status \in atx[i].unacked
  /\ rows' = [q \in Request |->
                IF rows[q].id = i
                  THEN Applied(rows[q], atx[i], "hook", status,
                               IF atx[i].stamps THEN Stage(status) ELSE NoSeq)
                  ELSE rows[q]]
  /\ atx' = IF acked THEN [atx EXCEPT ![i].unacked = @ \ {status}] ELSE atx
  /\ UNCHANGED <<call, polls>>

\* getTransactionStatus: the row and then the anchor are read without the lock.
Poll(q) ==
  /\ rows[q].id # NoId
  /\ Cardinality(polls) < MaxPolls
  /\ polls' = polls \cup {<<q, atx[rows[q].id].status>>}
  /\ UNCHANGED <<rows, call, atx>>

ApplyPoll(q, status) ==
  /\ <<q, status>> \in polls
  /\ polls' = polls \ {<<q, status>>}
  /\ rows' = [rows EXCEPT ![q] = Applied(@, atx[@.id], "poll", status, NoSeq)]
  /\ UNCHANGED <<call, atx>>

-----------------------------------------------------------------------------
\* The anchor: its transaction advances and a webhook says so; Horizon shows its
\* payment at some time around its saying "completed".
AnchorStep(i, status) ==
  /\ i \in DOMAIN atx /\ Stage(status) = Stage(atx[i].status) + 1
  /\ atx' = [atx EXCEPT ![i].status = status, ![i].unacked = @ \cup {status}]
  /\ UNCHANGED <<rows, call, polls>>

AnchorPays(i) ==
  /\ i \in DOMAIN atx /\ ~atx[i].seen
  /\ atx[i].status \in {"pending_anchor", "completed"}
  /\ atx' = [atx EXCEPT ![i].seen = TRUE]
  /\ UNCHANGED <<rows, call, polls>>

-----------------------------------------------------------------------------
Next ==
  \/ \E q \in Request :
       \/ \E type \in {"deposit", "withdrawal"} : Create(q, type)
       \/ \E b \in Stamps : PostAnswered(q, b) \/ \E o \in BOOLEAN : PostTransient(q, b, o)
       \/ PostRefused(q) \/ Poll(q)
       \/ \E e \in BOOLEAN, pc \in {"done", "fail"} : SaveLink(q, e, pc)
       \/ \E e \in BOOLEAN : SaveFailed(q, e)
       \/ \E s \in AnchorStatus : ApplyPoll(q, s)
  \/ \E i \in DOMAIN atx :
       \/ \E s \in AnchorStatus : AnchorStep(i, s) \/ \E b \in BOOLEAN : Deliver(i, s, b)
       \/ AnchorPays(i)

Spec == Init /\ [][Next]_vars

\* The anchor repeats a webhook until it is answered with success.
Pushes == \A i \in 1..(MaxAttempts * Cardinality(Request)), s \in AnchorStatus :
  WF_vars(Deliver(i, s, TRUE))

PushedSpec == Spec /\ Pushes

-----------------------------------------------------------------------------
TypeOK ==
  /\ rows \in [Request ->
       [type: {"none", "deposit", "withdrawal"},
        status: Terminal \cup {"none", "PENDING", "PROCESSING"},
        id: Nat, seq: 0..3, hash: BOOLEAN, events: SUBSET Event]]
  /\ call \in [Request -> [pc: {"idle", "post", "link", "fail", "done"},
           tries: 0..MaxAttempts, id: Nat]]
  /\ atx \in Seq([of: Request, status: AnchorStatus, stamps: BOOLEAN, seen: BOOLEAN,
                  unacked: SUBSET AnchorStatus])
  /\ polls \subseteq Request \X AnchorStatus

\* A row never says COMPLETED because the anchor said so: by then Horizon showed
\* the payment, of the very transaction the row is linked to, whichever webhook
\* or poll was late, repeated or applied last.
CompletedIsSettled == \A q \in Request :
  rows[q].status = "COMPLETED" => rows[q].id # NoId /\ atx[rows[q].id].seen

\* A row that ended stays as it ended, whatever webhook or poll arrives late, but
\* for the request that made it and whose own save failed.
TerminalStays ==
  [][\A q \in Request :
       rows[q].status \in Terminal /\ call[q].pc # "fail" =>
         rows'[q].status = rows[q].status]_vars

\* A deposit the anchor completed and Horizon shows becomes COMPLETED, or had
\* FAILED: it is not lost among updates that came too early.
CompletionArrives == \A q \in Request :
  (/\ rows[q].type = "deposit" /\ rows[q].id # NoId
   /\ atx[rows[q].id].status = "completed" /\ atx[rows[q].id].seen)
    ~> rows[q].status \in {"COMPLETED", "FAILED"}
=============================================================================
