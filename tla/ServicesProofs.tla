---------------------------- MODULE ServicesProofs -----------------------------
(***************************************************************************)
(* Proofs about the two services that follow a system outside the backend. *)
(*                                                                         *)
(* Fiat transfers, for any requests, tries and polls: a row that says      *)
(* COMPLETED was settled on the ledger, and an ended row stays as it       *)
(* ended.  Both come down to applyAnchorUpdate; the invariant says which   *)
(* of the anchor's transactions a row may be linked to while its request   *)
(* is still at work.                                                       *)
(*                                                                         *)
(* The search index, for any properties, workers, faults and bounds: it    *)
(* shows nothing but edits that were made, and once it shows the table and *)
(* nothing stale is in flight it goes on showing it until the next edit.   *)
(***************************************************************************)
EXTENDS MCServices, SumProofs

Rows ==
  [type: {"none", "deposit", "withdrawal"},
   status: Terminal \cup {"none", "PENDING", "PROCESSING"},
   id: Nat, seq: 0..3, hash: BOOLEAN, events: SUBSET Event]
Calls == [pc: {"idle", "post", "link", "fail", "done"}, tries: Nat, id: Nat]
Atx == [of: Request, status: AnchorStatus, stamps: BOOLEAN, seen: BOOLEAN,
        unacked: SUBSET AnchorStatus]

Types ==
  /\ rows \in [Request -> Rows]
  /\ call \in [Request -> Calls]
  /\ atx \in Seq(Atx)
  /\ polls \subseteq Request \X AnchorStatus

\* What a request at work has: no link before it has made one, and afterwards
\* only the link it is making.
AtWork(row, c) ==
  /\ c.pc = "idle" => row.status = "none"
  /\ c.pc \in {"idle", "post", "link"} => row.id = NoId /\ row.status \in {"none", "PENDING"}
  /\ c.pc = "fail" /\ row.id # NoId => row.id = c.id
  /\ c.pc = "link" => c.id # NoId
  /\ {row.id, c.id} \subseteq {NoId} \cup DOMAIN atx

\* A row that says COMPLETED is linked to a transaction whose payment was seen.
Settles(row) == row.status = "COMPLETED" => row.id # NoId /\ atx[row.id].seen

Inv ==
  /\ Types
  /\ \A q \in Request : AtWork(rows[q], call[q]) /\ Settles(rows[q])
  /\ \A e \in polls : rows[e[1]].id # NoId

-----------------------------------------------------------------------------
(* applyAnchorUpdate.                                                      *)

\* The anchor's statuses as the backend's.
LEMMA Mapped == \A s \in AnchorStatus : mapAnchorStatus[s] \in Terminal \cup {"PENDING", "PROCESSING"}
BY DEF AnchorStatus, mapAnchorStatus, Terminal

\* A row follows another: the link stays, an end is not undone, and it is complete
\* only when the payment of the anchor's transaction has been seen.
Advances(row, new, a) ==
  /\ new.id = row.id
  /\ row.status \in Terminal => new.status = row.status
  /\ new.status = "COMPLETED" /\ row.status # "COMPLETED" => a.seen

\* An update keeps the link, does not undo an end, and completes a row only when
\* the payment of the transaction it speaks of has been seen.
LEMMA AppliedEffect ==
  ASSUME NEW row \in Rows, NEW a \in Atx, NEW via \in {"hook", "poll"},
         NEW s \in AnchorStatus, NEW seq \in 0..3
  PROVE  Applied(row, a, via, s, seq) \in Rows /\ Advances(row, Applied(row, a, via, s, seq), a)
<1> DEFINE event == <<via, s>>
           tracked == [row EXCEPT !.events = @ \cup {event}]
           noted == [row EXCEPT !.hash = @ \/ s = "completed",
                                !.seq = IF seq # NoSeq THEN seq ELSE @]
           new == mapAnchorStatus[s]
           done == [noted EXCEPT !.status = new, !.events = @ \cup {event}]
<1>1. event \in Event /\ new \in Terminal \cup {"PENDING", "PROCESSING"}
  BY Mapped DEF Event
<1>2. /\ tracked \in Rows /\ tracked.id = row.id /\ tracked.status = row.status
  BY <1>1 DEF Rows
<1>3. (row.hash \/ s = "completed") \in BOOLEAN /\ (IF seq # NoSeq THEN seq ELSE row.seq) \in 0..3
  BY DEF Rows
<1>4. /\ noted \in Rows /\ noted.id = row.id /\ noted.status = row.status
  BY <1>3 DEF Rows
<1> HIDE DEF noted, new, event
<1>5. /\ done \in Rows /\ done.id = row.id /\ done.status = new
  BY <1>1, <1>4 DEF Rows
<1> HIDE DEF tracked, done
<1>6. Applied(row, a, via, s, seq) \in {row, tracked, noted, done}
  BY DEF Applied, tracked, noted, done, new, event
<1>7. CASE Applied(row, a, via, s, seq) \in {row, tracked, noted}
  BY <1>2, <1>4, <1>7 DEF Advances
<1>8. CASE Applied(row, a, via, s, seq) = done /\ done \notin {row, tracked, noted}
  <2>1. ~Refuses(row, s) /\ (new = "COMPLETED" /\ row.status # "COMPLETED" => Settled(noted, a))
    BY <1>8 DEF Applied, tracked, noted, done, new, event
  <2>2. row.status \in Terminal => new = row.status
    BY <2>1 DEF Refuses, new
  <2>3. new = "COMPLETED" /\ row.status # "COMPLETED" => a.seen
    BY <2>1 DEF Settled
  <2> QED
    BY <1>5, <1>8, <2>2, <2>3 DEF Advances
<1> QED
  BY <1>6, <1>7, <1>8

-----------------------------------------------------------------------------
(* The requests.                                                           *)

\* The anchor opens transactions and pays; it takes nothing back.
AtxGrows ==
  /\ atx' \in Seq(Atx)
  /\ DOMAIN atx \subseteq DOMAIN atx'
  /\ \A i \in DOMAIN atx : atx[i].seen => atx'[i].seen

\* Transactions are numbered from 1.
LEMMA Numbered ==
  ASSUME Types
  PROVE  /\ DOMAIN atx = 1..Len(atx) /\ Len(atx) \in Nat /\ NoId \notin DOMAIN atx
         /\ \A i \in DOMAIN atx : atx[i] \in Atx
BY DEF Types, NoId

\* A new transaction gets the next number.
LEMMA OpenGrows ==
  ASSUME Types, NEW q \in Request, NEW b \in BOOLEAN, atx' = NewAtx(q, b)
  PROVE  /\ AtxGrows
         /\ Len(atx') = Len(atx) + 1 /\ Len(atx') \in DOMAIN atx' /\ Len(atx') # NoId
         /\ Len(atx') \in Nat
<1> DEFINE new == [of |-> q, status |-> "started", stamps |-> b, seen |-> FALSE, unacked |-> {}]
<1>1. new \in Atx
  BY DEF Atx, AnchorStatus
<1>2. atx' = Append(atx, new) /\ atx \in Seq(Atx)
  BY DEF NewAtx, Types
<1> HIDE DEF new
<1>3. /\ atx' \in Seq(Atx) /\ Len(atx') = Len(atx) + 1 /\ Len(atx) \in Nat
      /\ DOMAIN atx = 1..Len(atx) /\ DOMAIN atx' = 1..(Len(atx) + 1)
      /\ \A i \in 1..Len(atx) : atx'[i] = atx[i]
  BY <1>1, <1>2
<1> QED
  BY <1>3 DEF AtxGrows, NoId

\* A step of one request, with whatever the anchor does in it.
LEMMA RequestStep ==
  ASSUME Inv, AtxGrows, NEW q \in Request, NEW row \in Rows, NEW c \in Calls,
         rows' = [rows EXCEPT ![q] = row], call' = [call EXCEPT ![q] = c],
         polls' = polls, AtWork(row, c)', Settles(row)',
         rows[q].id # NoId => row.id # NoId
  PROVE  Inv'
<1>1. Types'
  BY DEF Inv, Types, AtxGrows
<1>2. ASSUME NEW r \in Request
      PROVE  AtWork(rows[r], call[r])' /\ Settles(rows[r])'
  <2>1. CASE r = q
    <3>1. rows'[r] = row /\ call'[r] = c
      BY <2>1 DEF Inv, Types
    <3> QED
      BY <3>1 DEF AtWork, Settles
  <2>2. CASE r # q
    <3>1. /\ rows'[r] = rows[r] /\ call'[r] = call[r] /\ rows[r] \in Rows /\ call[r] \in Calls
          /\ AtWork(rows[r], call[r]) /\ Settles(rows[r])
      BY <2>2 DEF Inv, Types
    <3>2. {rows[r].id} \subseteq {NoId} \cup DOMAIN atx
      BY <3>1 DEF AtWork
    <3> QED
      BY <3>1, <3>2 DEF AtWork, Settles, AtxGrows
  <2> QED
    BY <2>1, <2>2
<1>3. \A e \in polls' : rows'[e[1]].id # NoId
  BY DEF Inv, Types
<1> QED
  BY <1>1, <1>2, <1>3 DEF Inv

\* A step of the anchor.
LEMMA AnchorMoves ==
  ASSUME Inv, AtxGrows, UNCHANGED <<rows, call, polls>>
  PROVE  Inv'
<1>1. Types'
  BY DEF Inv, Types, AtxGrows
<1>2. ASSUME NEW r \in Request
      PROVE  AtWork(rows[r], call[r])' /\ Settles(rows[r])'
  <2>1. AtWork(rows[r], call[r]) /\ Settles(rows[r])
    BY DEF Inv
  <2> QED
    BY <2>1 DEF AtWork, Settles, AtxGrows
<1> QED
  BY <1>1, <1>2 DEF Inv

\* The row stored before the anchor is asked.
LEMMA CreateKeeps ==
  ASSUME Inv, NEW q \in Request, NEW type \in {"deposit", "withdrawal"}, Create(q, type)
  PROVE  Inv'
<1> DEFINE row == [NoRow EXCEPT !.type = type, !.status = "PENDING"]
           c == [call[q] EXCEPT !.pc = "post"]
<1>1. /\ rows' = [rows EXCEPT ![q] = row] /\ call' = [call EXCEPT ![q] = c]
      /\ UNCHANGED <<atx, polls>> /\ call[q].pc = "idle" /\ call[q] \in Calls
      /\ AtWork(rows[q], call[q])
  BY DEF Create, Inv, Types
<1>2. row \in Rows /\ row.id = NoId /\ row.status = "PENDING"
  <2>1. NoRow \in Rows /\ NoRow.id = NoId
    BY DEF NoRow, NoId, NoSeq, Rows
  <2> QED
    BY <2>1 DEF Rows
<1>3. c \in Calls /\ c.pc = "post" /\ c.id = call[q].id
  BY <1>1 DEF Calls
<1>4. AtxGrows
  BY <1>1 DEF AtxGrows, Inv, Types
<1>5. PICK x, d : x = row /\ d = c
  OBVIOUS
<1> HIDE DEF row, c
<1>6. AtWork(x, d)' /\ Settles(x)'
  BY <1>1, <1>2, <1>3, <1>5 DEF AtWork, Settles
<1> QED
  BY <1>1, <1>2, <1>3, <1>4, <1>5, <1>6, RequestStep DEF AtWork

\* The anchor is asked: it opens a transaction or not, and answers or not.
LEMMA PostKeeps ==
  ASSUME Inv, NEW q \in Request, NEW b \in BOOLEAN,
         PostAnswered(q, b) \/ (\E o \in BOOLEAN : PostTransient(q, b, o)) \/ PostRefused(q)
  PROVE  Inv'
<1>1. /\ call[q].pc = "post" /\ rows' = rows /\ polls' = polls
      /\ call[q] \in Calls /\ rows[q] \in Rows /\ AtWork(rows[q], call[q]) /\ Settles(rows[q])
  BY DEF PostAnswered, PostTransient, PostRefused, Inv, Types
<1>2. AtxGrows
  <2>1. CASE atx' = NewAtx(q, b)
    BY <2>1, OpenGrows DEF Inv
  <2>2. CASE atx' = atx
    BY <2>2 DEF AtxGrows, Inv, Types
  <2> QED
    BY <2>1, <2>2 DEF PostAnswered, PostTransient, PostRefused
<1>3. PICK c : /\ c \in Calls /\ call' = [call EXCEPT ![q] = c]
               /\ c.pc \in {"post", "link", "done", "fail"}
               /\ c.id \in {NoId} \cup DOMAIN atx'
               /\ c.pc = "link" => c.id # NoId
  <2>1. CASE PostAnswered(q, b)
    <3> DEFINE c == [call[q] EXCEPT !.pc = "link", !.id = Len(atx')]
    <3>1. call' = [call EXCEPT ![q] = c] /\ atx' = NewAtx(q, b)
      BY <2>1 DEF PostAnswered
    <3>2. Len(atx') \in DOMAIN atx' /\ Len(atx') # NoId /\ Len(atx') \in Nat
      BY <3>1, OpenGrows DEF Inv
    <3>3. c \in Calls /\ c.pc = "link" /\ c.id = Len(atx')
      BY <1>1, <3>2 DEF Calls
    <3> HIDE DEF c
    <3> QED
      BY <3>1, <3>2, <3>3
  <2>2. CASE \E o \in BOOLEAN : PostTransient(q, b, o)
    <3> DEFINE tries == call[q].tries + 1
               pc == IF tries < MaxAttempts THEN "post" ELSE "done"
               c == [call[q] EXCEPT !.tries = tries, !.pc = pc]
    <3>1. call' = [call EXCEPT ![q] = c]
      BY <2>2 DEF PostTransient
    <3>2. tries \in Nat /\ pc \in {"post", "done"}
      BY <1>1 DEF Calls
    <3> HIDE DEF tries, pc
    <3>3. c \in Calls /\ c.pc = pc /\ c.id = call[q].id
      BY <1>1, <3>2 DEF Calls
    <3> HIDE DEF c
    <3> QED
      BY <1>1, <1>2, <3>1, <3>2, <3>3 DEF AtWork, AtxGrows
  <2>3. CASE PostRefused(q)
    <3> DEFINE c == [call[q] EXCEPT !.pc = "fail"]
    <3>1. call' = [call EXCEPT ![q] = c]
      BY <2>3 DEF PostRefused
    <3>2. c \in Calls /\ c.pc = "fail" /\ c.id = call[q].id
      BY <1>1 DEF Calls
    <3> HIDE DEF c
    <3> QED
      BY <1>1, <1>2, <3>1, <3>2 DEF AtWork, AtxGrows
  <2> QED
    BY <2>1, <2>2, <2>3
<1>4. PICK x : x = rows[q]
  OBVIOUS
<1>5. AtWork(x, c)' /\ Settles(x)'
  BY <1>1, <1>2, <1>3, <1>4 DEF AtWork, Settles, AtxGrows, Rows, Terminal
<1>6. rows' = [rows EXCEPT ![q] = x]
  BY <1>1, <1>4 DEF Inv, Types
<1> QED
  BY <1>1, <1>2, <1>3, <1>4, <1>5, <1>6, RequestStep

\* The link is saved, or the save fails.
LEMMA LinkKeeps ==
  ASSUME Inv, NEW q \in Request, NEW e \in BOOLEAN, NEW pc \in {"done", "fail"},
         SaveLink(q, e, pc)
  PROVE  Inv'
<1> DEFINE linked == [rows[q] EXCEPT !.id = call[q].id, !.seq = NoSeq]
           c == [call[q] EXCEPT !.pc = pc]
<1>1. /\ rows' = [rows EXCEPT ![q] = IF e THEN linked ELSE rows[q]]
      /\ call' = [call EXCEPT ![q] = c]
      /\ UNCHANGED <<atx, polls>> /\ call[q].pc = "link"
      /\ call[q] \in Calls /\ rows[q] \in Rows /\ AtWork(rows[q], call[q])
  BY DEF SaveLink, Linked, Inv, Types
<1>2. linked \in Rows /\ linked.id = call[q].id /\ linked.status = rows[q].status
  <2>1. call[q].id \in Nat /\ NoSeq \in 0..3
    BY <1>1 DEF NoSeq, Calls
  <2> QED
    BY <1>1, <2>1 DEF Rows
<1>3. c \in Calls /\ c.pc = pc /\ c.id = call[q].id
  BY <1>1 DEF Calls
<1>4. AtxGrows
  BY <1>1 DEF AtxGrows, Inv, Types
<1>5. PICK x, d : x = (IF e THEN linked ELSE rows[q]) /\ d = c
  OBVIOUS
<1> HIDE DEF linked, c
<1>6. AtWork(x, d)' /\ Settles(x)' /\ x \in Rows /\ rows[q].id = NoId
  BY <1>1, <1>2, <1>3, <1>5 DEF AtWork, Settles
<1> QED
  BY <1>1, <1>2, <1>3, <1>4, <1>5, <1>6, RequestStep

\* The row saved FAILED keeps the link its request made.
LEMMA FailKeeps ==
  ASSUME Inv, NEW q \in Request, NEW e \in BOOLEAN, SaveFailed(q, e)
  PROVE  Inv'
<1> DEFINE failed == [rows[q] EXCEPT !.status = "FAILED", !.id = call[q].id, !.seq = NoSeq,
                                     !.events = {}]
           c == [call[q] EXCEPT !.pc = "done"]
<1>1. /\ rows' = [rows EXCEPT ![q] = IF e THEN failed ELSE rows[q]]
      /\ call' = [call EXCEPT ![q] = c]
      /\ UNCHANGED <<atx, polls>> /\ call[q].pc = "fail"
      /\ call[q] \in Calls /\ rows[q] \in Rows /\ AtWork(rows[q], call[q]) /\ Settles(rows[q])
  BY DEF SaveFailed, Inv, Types
<1>2. failed \in Rows /\ failed.id = call[q].id /\ failed.status = "FAILED"
  <2>1. call[q].id \in Nat /\ NoSeq \in 0..3 /\ "FAILED" \in Terminal
    BY <1>1 DEF NoSeq, Calls, Terminal
  <2> QED
    BY <1>1, <2>1 DEF Rows
<1>3. c \in Calls /\ c.pc = "done" /\ c.id = call[q].id
  BY <1>1 DEF Calls
<1>4. AtxGrows
  BY <1>1 DEF AtxGrows, Inv, Types
<1>5. PICK x, d : x = (IF e THEN failed ELSE rows[q]) /\ d = c
  OBVIOUS
<1> HIDE DEF failed, c
<1>6. AtWork(x, d)' /\ Settles(x)' /\ x \in Rows /\ (rows[q].id # NoId => x.id # NoId)
  BY <1>1, <1>2, <1>3, <1>5 DEF AtWork, Settles
<1> QED
  BY <1>1, <1>2, <1>3, <1>4, <1>5, <1>6, RequestStep

\* An update, of the rows it finds, in any order with the others.
LEMMA UpdateKeeps ==
  ASSUME Inv, AtxGrows, call' = call, polls' \subseteq polls,
         rows' \in [Request -> Rows],
         \A q \in Request :
           /\ rows'[q].id = rows[q].id
           /\ rows'[q] # rows[q] => rows[q].id # NoId
           /\ rows'[q].status = "COMPLETED" /\ rows[q].status # "COMPLETED" =>
                atx[rows[q].id].seen
  PROVE  Inv'
<1>1. Types'
  BY DEF Inv, Types, AtxGrows
<1>2. ASSUME NEW q \in Request
      PROVE  AtWork(rows[q], call[q])' /\ Settles(rows[q])'
  <2>1. /\ AtWork(rows[q], call[q]) /\ Settles(rows[q]) /\ rows[q].id \in {NoId} \cup DOMAIN atx
        /\ call[q] \in Calls
    BY DEF Inv, AtWork, Types
  <2>2. AtWork(rows[q], call[q])'
    BY <2>1 DEF AtWork, AtxGrows
  <2>3. Settles(rows[q])'
    BY <2>1 DEF Settles, AtxGrows
  <2> QED
    BY <2>2, <2>3
<1>3. \A e \in polls' : rows'[e[1]].id # NoId
  BY DEF Inv, Types
<1> QED
  BY <1>1, <1>2, <1>3 DEF Inv

\* A row found by a webhook or a poll is linked to the transaction it speaks of.
LEMMA DeliverEffect ==
  ASSUME Types, NEW i \in DOMAIN atx, NEW s \in AnchorStatus, NEW b \in BOOLEAN, Deliver(i, s, b)
  PROVE  /\ AtxGrows /\ UNCHANGED <<call, polls>>
         /\ rows' \in [Request -> Rows]
         /\ \A q \in Request :
              /\ rows'[q].id = rows[q].id
              /\ rows'[q] # rows[q] => rows[q].id = i
              /\ rows[q].status \in Terminal => rows'[q].status = rows[q].status
              /\ rows'[q].status = "COMPLETED" /\ rows[q].status # "COMPLETED" => atx[i].seen
<1> DEFINE seq == IF atx[i].stamps THEN Stage(s) ELSE NoSeq
           acked == [atx[i] EXCEPT !.unacked = @ \ {s}]
<1>1. /\ rows' = [q \in Request |-> IF rows[q].id = i THEN Applied(rows[q], atx[i], "hook", s, seq)
                                    ELSE rows[q]]
      /\ atx' = [atx EXCEPT ![i] = acked] \/ atx' = atx
      /\ UNCHANGED <<call, polls>>
  BY DEF Deliver
<1>2. atx[i] \in Atx
  BY Numbered
<1>3. seq \in 0..3
  BY DEF Stage, NoSeq, AnchorStatus
<1>4. acked \in Atx /\ acked.seen = atx[i].seen
  BY <1>2 DEF Atx
<1> HIDE DEF seq, acked
<1>5. AtxGrows
  <2>1. CASE atx' = atx
    BY <2>1 DEF AtxGrows, Types
  <2>2. CASE atx' = [atx EXCEPT ![i] = acked]
    BY <1>4, <2>2 DEF AtxGrows, Types
  <2> QED
    BY <1>1, <2>1, <2>2
<1>6. ASSUME NEW q \in Request
      PROVE  /\ rows'[q] \in Rows
             /\ rows'[q].id = rows[q].id
             /\ rows'[q] # rows[q] => rows[q].id = i
             /\ rows[q].status \in Terminal => rows'[q].status = rows[q].status
             /\ rows'[q].status = "COMPLETED" /\ rows[q].status # "COMPLETED" => atx[i].seen
  <2>1. rows[q] \in Rows
    BY DEF Types
  <2>2. CASE rows[q].id = i
    <3>1. rows'[q] = Applied(rows[q], atx[i], "hook", s, seq)
      BY <1>1, <2>2
    <3>2. PICK new : new = Applied(rows[q], atx[i], "hook", s, seq)
      OBVIOUS
    <3>3. new \in Rows /\ Advances(rows[q], new, atx[i])
      BY <1>2, <1>3, <2>1, <3>2, AppliedEffect
    <3> QED
      BY <2>2, <3>1, <3>2, <3>3 DEF Advances
  <2>3. CASE rows[q].id # i
    BY <1>1, <2>1, <2>3
  <2> QED
    BY <2>2, <2>3
<1> QED
  BY <1>1, <1>5, <1>6

\* So is the row a poll was of, by the time its answer is applied.
LEMMA ApplyPollEffect ==
  ASSUME Inv, NEW q \in Request, NEW s \in AnchorStatus, ApplyPoll(q, s)
  PROVE  /\ UNCHANGED <<call, atx>> /\ polls' \subseteq polls
         /\ rows' \in [Request -> Rows]
         /\ \A r \in Request \ {q} : rows'[r] = rows[r]
         /\ rows[q].id # NoId /\ rows'[q].id = rows[q].id
         /\ rows[q].status \in Terminal => rows'[q].status = rows[q].status
         /\ rows'[q].status = "COMPLETED" /\ rows[q].status # "COMPLETED" =>
              atx[rows[q].id].seen
<1>1. /\ <<q, s>> \in polls /\ polls' = polls \ {<<q, s>>}
      /\ rows' = [rows EXCEPT ![q] = Applied(rows[q], atx[rows[q].id], "poll", s, NoSeq)]
      /\ UNCHANGED <<call, atx>>
  BY DEF ApplyPoll
<1>2. rows[q].id # NoId /\ rows[q].id \in DOMAIN atx /\ rows[q] \in Rows
  BY <1>1 DEF Inv, AtWork, Types
<1>3. atx[rows[q].id] \in Atx
  BY <1>2, Numbered DEF Inv
<1>4. NoSeq \in 0..3
  BY DEF NoSeq
<1>5. PICK new : new = Applied(rows[q], atx[rows[q].id], "poll", s, NoSeq)
  OBVIOUS
<1>6. new \in Rows /\ Advances(rows[q], new, atx[rows[q].id])
  BY <1>2, <1>3, <1>4, <1>5, AppliedEffect
<1> QED
  BY <1>1, <1>2, <1>5, <1>6 DEF Inv, Types, Advances

\* Webhooks and polls.
LEMMA UpdatesKeep ==
  ASSUME Inv,
         \/ \E i \in DOMAIN atx, s \in AnchorStatus, b \in BOOLEAN : Deliver(i, s, b)
         \/ \E q \in Request, s \in AnchorStatus : ApplyPoll(q, s)
  PROVE  Inv'
<1>1. CASE \E i \in DOMAIN atx, s \in AnchorStatus, b \in BOOLEAN : Deliver(i, s, b)
  <2>1. PICK i \in DOMAIN atx, s \in AnchorStatus, b \in BOOLEAN : Deliver(i, s, b)
    BY <1>1
  <2>2. i # NoId
    BY Numbered DEF Inv
  <2>3. Types
    BY DEF Inv
  <2>4. AtxGrows /\ UNCHANGED <<call, polls>> /\ rows' \in [Request -> Rows]
    BY <2>1, <2>3, DeliverEffect
  <2>5. ASSUME NEW q \in Request
        PROVE  /\ rows'[q].id = rows[q].id
               /\ rows'[q] # rows[q] => rows[q].id # NoId
               /\ rows'[q].status = "COMPLETED" /\ rows[q].status # "COMPLETED" =>
                    atx[rows[q].id].seen
    BY <2>1, <2>2, <2>3, DeliverEffect
  <2> QED
    BY <2>4, <2>5, UpdateKeeps
<1>2. CASE \E q \in Request, s \in AnchorStatus : ApplyPoll(q, s)
  <2>1. PICK q \in Request, s \in AnchorStatus : ApplyPoll(q, s)
    BY <1>2
  <2>2. AtxGrows
    BY <2>1, ApplyPollEffect DEF AtxGrows, Inv, Types
  <2>3. \A r \in Request :
          /\ rows'[r].id = rows[r].id
          /\ rows'[r] # rows[r] => rows[r].id # NoId
          /\ rows'[r].status = "COMPLETED" /\ rows[r].status # "COMPLETED" =>
               atx[rows[r].id].seen
    BY <2>1, ApplyPollEffect
  <2> QED
    BY <2>1, <2>2, <2>3, ApplyPollEffect, UpdateKeeps
<1> QED
  BY <1>1, <1>2

\* A poll is of a row that is linked.
LEMMA PollKeeps ==
  ASSUME Inv, NEW q \in Request, Poll(q)
  PROVE  Inv'
<1>1. /\ rows[q].id # NoId /\ polls' = polls \cup {<<q, atx[rows[q].id].status>>}
      /\ UNCHANGED <<rows, call, atx>>
  BY DEF Poll
<1>2. atx[rows[q].id].status \in AnchorStatus
  <2>1. rows[q].id \in DOMAIN atx
    BY <1>1 DEF Inv, AtWork
  <2> QED
    BY <2>1, Numbered DEF Inv, Atx
<1>3. Types'
  BY <1>1, <1>2 DEF Inv, Types
<1>4. \A e \in polls' : rows'[e[1]].id # NoId
  BY <1>1 DEF Inv
<1> QED
  BY <1>1, <1>3, <1>4 DEF Inv, AtWork, Settles

\* The anchor's own steps.
LEMMA AnchorKeeps ==
  ASSUME Inv, NEW i \in DOMAIN atx, AnchorPays(i) \/ \E s \in AnchorStatus : AnchorStep(i, s)
  PROVE  Inv'
<1>1. UNCHANGED <<rows, call, polls>> /\ atx[i] \in Atx
  BY Numbered DEF AnchorPays, AnchorStep, Inv
<1>2. AtxGrows
  <2>1. CASE AnchorPays(i)
    <3> DEFINE a == [atx[i] EXCEPT !.seen = TRUE]
    <3>1. atx' = [atx EXCEPT ![i] = a]
      BY <2>1 DEF AnchorPays
    <3>2. a \in Atx /\ a.seen
      BY <1>1 DEF Atx
    <3> HIDE DEF a
    <3> QED
      BY <3>1, <3>2 DEF AtxGrows, Inv, Types
  <2>2. ASSUME NEW s \in AnchorStatus, AnchorStep(i, s)
        PROVE  AtxGrows
    <3> DEFINE a == [atx[i] EXCEPT !.status = s, !.unacked = @ \cup {s}]
    <3>1. atx' = [atx EXCEPT ![i] = a]
      BY <2>2 DEF AnchorStep
    <3>2. a \in Atx /\ a.seen = atx[i].seen
      BY <1>1 DEF Atx
    <3> HIDE DEF a
    <3> QED
      BY <3>1, <3>2 DEF AtxGrows, Inv, Types
  <2> QED
    BY <2>1, <2>2
<1> QED
  BY <1>1, <1>2, AnchorMoves

-----------------------------------------------------------------------------
\* The links of the rows and what COMPLETED means, in any order of requests,
\* webhooks, polls and the anchor's own steps.
THEOREM AnchorInvariant == Spec => []Inv
<1>1. Init => Inv
  BY DEF Init, Inv, Types, AtWork, Settles, NoRow, NoId, NoSeq, Rows, Calls, Terminal
<1>2. Inv /\ [Next]_vars => Inv'
  <2> SUFFICES ASSUME Inv, [Next]_vars
               PROVE  Inv'
    OBVIOUS
  <2>1. CASE \E q \in Request, type \in {"deposit", "withdrawal"} : Create(q, type)
    BY <2>1, CreateKeeps
  <2>2. CASE \E q \in Request, b \in BOOLEAN :
               PostAnswered(q, b) \/ (\E o \in BOOLEAN : PostTransient(q, b, o)) \/ PostRefused(q)
    BY <2>2, PostKeeps
  <2>3. CASE \E q \in Request, e \in BOOLEAN, pc \in {"done", "fail"} : SaveLink(q, e, pc)
    BY <2>3, LinkKeeps
  <2>4. CASE \E q \in Request, e \in BOOLEAN : SaveFailed(q, e)
    BY <2>4, FailKeeps
  <2>5. CASE \/ \E i \in DOMAIN atx, s \in AnchorStatus, b \in BOOLEAN : Deliver(i, s, b)
             \/ \E q \in Request, s \in AnchorStatus : ApplyPoll(q, s)
    BY <2>5, UpdatesKeep
  <2>6. CASE \E q \in Request : Poll(q)
    BY <2>6, PollKeeps
  <2>7. CASE \E i \in DOMAIN atx : AnchorPays(i) \/ \E s \in AnchorStatus : AnchorStep(i, s)
    BY <2>7, AnchorKeeps
  <2>8. CASE UNCHANGED vars
    BY <2>8, AnchorMoves DEF vars, AtxGrows, Inv, Types
  <2> QED
    BY <2>1, <2>2, <2>3, <2>4, <2>5, <2>6, <2>7, <2>8, AnchorAssumption DEF Next
<1> QED
  BY <1>1, <1>2, PTL DEF Spec

\* A row that says COMPLETED is linked to a transaction of the anchor whose
\* payment the ledger showed.
THEOREM CompletedIsSettledAlways == Spec => []CompletedIsSettled
<1>1. Inv => CompletedIsSettled
  BY DEF Inv, Settles, CompletedIsSettled
<1> QED
  BY <1>1, AnchorInvariant, PTL

\* A row that ended stays as it ended but for the request whose save failed.
THEOREM TerminalStaysAlways == Spec => TerminalStays
<1>1. Inv /\ [Next]_vars =>
        [\A q \in Request : rows[q].status \in Terminal /\ call[q].pc # "fail" =>
                              rows'[q].status = rows[q].status]_vars
  <2> SUFFICES ASSUME Inv, Next,
                      NEW q \in Request, rows[q].status \in Terminal, call[q].pc # "fail"
               PROVE  rows'[q].status = rows[q].status
    BY DEF vars
  <2>1. rows \in [Request -> Rows] /\ AtWork(rows[q], call[q])
    BY DEF Inv, Types
  <2>2. ASSUME NEW r \in Request, NEW type \in {"deposit", "withdrawal"}, Create(r, type)
        PROVE  rows'[q].status = rows[q].status
    <3>1. r # q
      BY <2>1, <2>2 DEF Create, AtWork, Terminal
    <3> QED
      BY <2>1, <2>2, <3>1 DEF Create
  <2>3. ASSUME NEW r \in Request, NEW e \in BOOLEAN, NEW pc \in {"done", "fail"},
               SaveLink(r, e, pc)
        PROVE  rows'[q].status = rows[q].status
    BY <2>1, <2>3 DEF SaveLink, Linked, Rows
  <2>4. ASSUME NEW r \in Request, NEW e \in BOOLEAN, SaveFailed(r, e)
        PROVE  rows'[q].status = rows[q].status
    BY <2>1, <2>4 DEF SaveFailed
  <2>5. ASSUME NEW i \in DOMAIN atx, NEW s \in AnchorStatus, NEW b \in BOOLEAN, Deliver(i, s, b)
        PROVE  rows'[q].status = rows[q].status
    BY <2>5, DeliverEffect DEF Inv
  <2>6. ASSUME NEW r \in Request, NEW s \in AnchorStatus, ApplyPoll(r, s)
        PROVE  rows'[q].status = rows[q].status
    <3>1. CASE r = q
      BY <2>6, <3>1, ApplyPollEffect
    <3>2. CASE r # q
      BY <2>6, <3>2, ApplyPollEffect
    <3> QED
      BY <3>1, <3>2
  <2> QED
    BY <2>2, <2>3, <2>4, <2>5, <2>6
       DEF Next, PostAnswered, PostTransient, PostRefused, Poll, AnchorStep, AnchorPays
<1> QED
  BY <1>1, AnchorInvariant, PTL DEF Spec, TerminalStays

-----------------------------------------------------------------------------
(* The search index: whatever is in flight for it (documents, rows of the  *)
(* outbox, claims of the workers, snapshots of the reconcile job) is of    *)
(* versions that V allows, for V what the edits have made or what the      *)
(* table holds now.                                                        *)

\* The ids an enqueue may give: the least of the free ones.
RowIds == {CHOOSE i \in free : \A j \in free : i <= j : free \in SUBSET (1..MaxRows)}
OutboxRow == [id: RowIds, p: Property, version: Nat,
              status: {"PENDING", "PROCESSING", "DONE", "FAILED"}, attempts: Nat]
Fresh(V) == {r \in OutboxRow : r.version \in V[r.p]}

Relaying == {"claimed", "call", "called", "failed"}
WorkerState == [pc: {"idle", "compare", "orphans"} \cup Relaying, claims: Seq(OutboxRow),
                snapshot: [Property -> Nat], todo: SUBSET Property]

\* What a worker is about to do to the index.
Works(x, V) ==
  /\ x \in WorkerState /\ x.claims \in Seq(Fresh(V))
  /\ x.pc \in Relaying => x.claims # <<>>
  /\ x.pc = "compare" => \A p \in Property : x.snapshot[p] \in V[p]
  /\ x.pc = "orphans" => \A p \in x.todo : S!Absent \in V[p]

InFlight(V) ==
  /\ es \in [Property -> Nat] /\ \A p \in Property : es[p] \in V[p]
  /\ outbox \in Seq(Fresh(V))
  /\ worker \in [Worker -> WorkerState] /\ \A w \in Worker : Works(worker[w], V)

Versions == [Property -> SUBSET Nat]

\* The rows kept of a sequence are rows of it.
IsKept(kept, seq, keep, N) ==
  kept = [n \in 0..N |-> IF n = 0 THEN <<>>
                         ELSE IF n \in keep THEN Append(kept[n - 1], seq[n]) ELSE kept[n - 1]]

LEMMA KeptDef ==
  ASSUME NEW seq, NEW keep
  PROVE  S!Kept(seq, keep) = (CHOOSE kept : IsKept(kept, seq, keep, Len(seq)))[Len(seq)]
BY DEF S!Kept, IsKept

\* What a recursion over the first n + 1 numbers adds to one over the first n.
LEMMA KeptNext ==
  ASSUME NEW R, NEW seq, NEW keep, NEW n \in Nat, NEW h \in [0..n -> Seq(R)],
         IsKept(h, seq, keep, n), seq[n + 1] \in R
  PROVE  \E e \in [0..(n + 1) -> Seq(R)] : IsKept(e, seq, keep, n + 1)
<1> DEFINE last == IF n + 1 \in keep THEN Append(h[n], seq[n + 1]) ELSE h[n]
           e == [k \in 0..(n + 1) |-> IF k = n + 1 THEN last ELSE h[k]]
<1>1. last \in Seq(R)
  <2>1. h[n] \in Seq(R)
    OBVIOUS
  <2> QED
    BY <2>1
<1> HIDE DEF last
<1>2. e \in [0..(n + 1) -> Seq(R)]
  BY <1>1
<1>3. ASSUME NEW k \in 0..(n + 1)
      PROVE  e[k] = IF k = 0 THEN <<>>
                    ELSE IF k \in keep THEN Append(e[k - 1], seq[k]) ELSE e[k - 1]
  <2>1. CASE k = n + 1
    <3>1. k # 0 /\ k - 1 = n /\ n \in 0..(n + 1) /\ n # n + 1
      BY <2>1
    <3>2. e[k] = last /\ e[k - 1] = h[n]
      BY <2>1, <3>1
    <3> HIDE DEF e
    <3> QED
      BY <2>1, <3>1, <3>2 DEF last
  <2>2. CASE k # n + 1
    <3>1. k \in 0..n /\ (k # 0 => k - 1 \in 0..n /\ k - 1 # n + 1 /\ k - 1 \in 0..(n + 1))
      BY <2>2
    <3>2. e[k] = h[k] /\ (k # 0 => e[k - 1] = h[k - 1])
      BY <2>2, <3>1
    <3>3. h[k] = IF k = 0 THEN <<>>
                 ELSE IF k \in keep THEN Append(h[k - 1], seq[k]) ELSE h[k - 1]
      BY <3>1 DEF IsKept
    <3> HIDE DEF e
    <3> QED
      BY <3>2, <3>3
  <2> QED
    BY <2>1, <2>2
<1>4. e = [k \in 0..(n + 1) |-> e[k]]
  OBVIOUS
<1> HIDE DEF e
<1>5. IsKept(e, seq, keep, n + 1)
  BY <1>3, <1>4 DEF IsKept
<1> QED
  BY <1>2, <1>5

LEMMA KeptIn ==
  ASSUME NEW R, NEW seq \in Seq(R), NEW keep
  PROVE  S!Kept(seq, keep) \in Seq(R)
<1> DEFINE Good == {n \in Nat : n <= Len(seq) =>
                      \E kept \in [0..n -> Seq(R)] : IsKept(kept, seq, keep, n)}
<1>1. Len(seq) \in Nat /\ \A n \in Nat : n + 1 <= Len(seq) => seq[n + 1] \in R
  OBVIOUS
<1>2. 0 \in Good
  <2> DEFINE kept == [n \in 0..0 |-> <<>>]
  <2>1. kept \in [0..0 -> Seq(R)]
    OBVIOUS
  <2>2. IsKept(kept, seq, keep, 0)
    BY DEF IsKept
  <2> HIDE DEF kept
  <2> QED
    BY <2>1, <2>2
<1>3. ASSUME NEW n \in Nat, n \in Good
      PROVE  n + 1 \in Good
  <2> SUFFICES ASSUME n + 1 <= Len(seq)
               PROVE  \E kept \in [0..(n + 1) -> Seq(R)] : IsKept(kept, seq, keep, n + 1)
    OBVIOUS
  <2>1. n <= Len(seq)
    BY <1>1
  <2>2. PICK h \in [0..n -> Seq(R)] : IsKept(h, seq, keep, n)
    BY <1>3, <2>1
  <2> QED
    BY <1>1, <2>2, KeptNext
<1>4. \A n \in Nat : n \in Good
  <2> HIDE DEF Good
  <2> QED
    BY <1>2, <1>3, NumberInduction
<1>5. \E kept : IsKept(kept, seq, keep, Len(seq))
  BY <1>1, <1>4
<1>6. PICK f : f = (CHOOSE kept : IsKept(kept, seq, keep, Len(seq)))
  OBVIOUS
<1>7. IsKept(f, seq, keep, Len(seq))
  BY <1>5, <1>6
<1> DEFINE Sound == {n \in Nat : n <= Len(seq) => f[n] \in Seq(R)}
<1>8. 0 \in Sound
  BY <1>1, <1>7 DEF IsKept
<1>9. ASSUME NEW n \in Nat, n \in Sound
      PROVE  n + 1 \in Sound
  <2> SUFFICES ASSUME n + 1 <= Len(seq)
               PROVE  f[n + 1] \in Seq(R)
    OBVIOUS
  <2>1. f[n] \in Seq(R) /\ seq[n + 1] \in R
    BY <1>1, <1>9
  <2>2. n + 1 \in 0..Len(seq) /\ n + 1 # 0 /\ (n + 1) - 1 = n
    BY <1>1
  <2>3. f[n + 1] = IF n + 1 \in keep THEN Append(f[n], seq[n + 1]) ELSE f[n]
    BY <1>7, <2>2 DEF IsKept
  <2> QED
    BY <2>1, <2>3
<1>10. \A n \in Nat : n \in Sound
  <2> HIDE DEF Sound
  <2> QED
    BY <1>8, <1>9, NumberInduction
<1>11. f[Len(seq)] \in Seq(R)
  BY <1>1, <1>10
<1> QED
  BY <1>6, <1>11, KeptDef

\* A row that is put in the outbox is of its property and its version.
LEMMA EnqueueFresh ==
  ASSUME NEW V \in Versions, NEW p \in Property, NEW v \in V[p], outbox \in Seq(Fresh(V))
  PROVE  S!Enqueue(p, v) \in Seq(Fresh(V))
<1> DEFINE id == CHOOSE i \in S!FreeIds : \A j \in S!FreeIds : i <= j
           row == [id |-> id, p |-> p, version |-> v, status |-> "PENDING", attempts |-> 0]
<1>1. id \in RowIds
  <2>1. S!FreeIds \in SUBSET (1..MaxRows)
    BY DEF S!FreeIds
  <2> QED
    BY <2>1 DEF RowIds
<1>2. v \in Nat
  BY DEF Versions
<1>3. S!Enqueue(p, v) = Append(outbox, row)
  BY DEF S!Enqueue
<1> HIDE DEF id
<1>4. row \in OutboxRow /\ row.version = v /\ row.p = p
  BY <1>1, <1>2 DEF OutboxRow
<1> HIDE DEF row
<1>5. row \in Fresh(V)
  BY <1>4 DEF Fresh
<1> QED
  BY <1>3, <1>5

\* A row's status and its count of attempts are not its version.
LEMMA RowStaysFresh ==
  ASSUME NEW V, NEW row \in Fresh(V), NEW attempts \in Nat,
         NEW status \in {"PENDING", "PROCESSING", "DONE", "FAILED"}
  PROVE  /\ [row EXCEPT !.status = status] \in Fresh(V)
         /\ [row EXCEPT !.status = status, !.attempts = attempts] \in Fresh(V)
BY DEF Fresh, OutboxRow

LEMMA MarkedFresh ==
  ASSUME NEW V, outbox \in Seq(Fresh(V)), NEW id, NEW attempts \in Nat,
         NEW status \in {"PENDING", "PROCESSING", "DONE", "FAILED"}
  PROVE  /\ S!StatusOf(id, status) \in Seq(Fresh(V))
         /\ S!SetRow(id, status, attempts) \in Seq(Fresh(V))
<1>1. /\ DOMAIN outbox = 1..Len(outbox) /\ Len(outbox) \in Nat
      /\ \A i \in DOMAIN outbox : outbox[i] \in Fresh(V)
  OBVIOUS
<1>2. \A i \in DOMAIN outbox :
        /\ [outbox[i] EXCEPT !.status = status] \in Fresh(V)
        /\ [outbox[i] EXCEPT !.status = status, !.attempts = attempts] \in Fresh(V)
  BY <1>1, RowStaysFresh
<1>3. /\ S!StatusOf(id, status) \in [1..Len(outbox) -> Fresh(V)]
      /\ S!SetRow(id, status, attempts) \in [1..Len(outbox) -> Fresh(V)]
  BY <1>1, <1>2 DEF S!StatusOf, S!SetRow
<1> QED
  BY <1>1, <1>3

\* The first claim of a worker that has one, and the rest of them.
LEMMA HeadClaim ==
  ASSUME NEW V, NEW x, Works(x, V), x.pc \in Relaying
  PROVE  Head(x.claims) \in Fresh(V) /\ Tail(x.claims) \in Seq(Fresh(V))
BY DEF Works

LEMMA FreshIsRow == \A V : Fresh(V) \subseteq OutboxRow /\ Seq(Fresh(V)) \subseteq Seq(OutboxRow)
BY DEF Fresh

LEMMA IdleWorks == \A V : Works(S!Idle, V)
<1> SUFFICES ASSUME NEW V
             PROVE  Works(S!Idle, V)
  OBVIOUS
<1>1. <<>> \in Seq(OutboxRow) /\ <<>> \in Seq(Fresh(V))
  OBVIOUS
<1>2. [p \in Property |-> S!Absent] \in [Property -> Nat]
  BY DEF S!Absent
<1>3. S!Idle \in WorkerState
  BY <1>1, <1>2 DEF S!Idle, WorkerState, Relaying
<1> QED
  BY <1>1, <1>3 DEF S!Idle, Works, Relaying

\* A worker that goes on with its claims, or that took some.
LEMMA RelayWorks ==
  ASSUME NEW V, NEW x, Works(x, V), NEW claims \in Seq(Fresh(V)), claims # <<>>,
         NEW pc \in Relaying
  PROVE  /\ Works([x EXCEPT !.pc = pc, !.claims = claims], V)
         /\ x.claims # <<>> => Works([x EXCEPT !.pc = pc], V)
<1>1. x \in WorkerState /\ x.claims \in Seq(Fresh(V))
  BY DEF Works
<1>2. claims \in Seq(OutboxRow)
  BY FreshIsRow
<1> DEFINE y == [x EXCEPT !.pc = pc, !.claims = claims]
           z == [x EXCEPT !.pc = pc]
<1>3. y \in WorkerState /\ y.pc = pc /\ y.claims = claims
  BY <1>1, <1>2 DEF WorkerState
<1>4. z \in WorkerState /\ z.pc = pc /\ z.claims = x.claims
  BY <1>1 DEF WorkerState
<1> HIDE DEF y, z
<1>5. pc # "compare" /\ pc # "orphans"
  BY DEF Relaying
<1>6. Works(y, V)
  BY <1>3, <1>5 DEF Works
<1>7. x.claims # <<>> => Works(z, V)
  BY <1>1, <1>4, <1>5 DEF Works
<1> QED
  BY <1>6, <1>7 DEF y, z

\* A step of one worker.
LEMMA WorkerSteps ==
  ASSUME NEW V, InFlight(V), NEW w \in Worker, NEW x, Works(x, V),
         worker' = [worker EXCEPT ![w] = x],
         es' \in [Property -> Nat], \A p \in Property : es'[p] \in V[p],
         outbox' \in Seq(Fresh(V))
  PROVE  InFlight(V)'
<1>1. x \in WorkerState /\ worker \in [Worker -> WorkerState]
  BY DEF Works, InFlight
<1>2. worker' \in [Worker -> WorkerState]
  BY <1>1
<1>3. ASSUME NEW u \in Worker
      PROVE  Works(worker'[u], V)
  <2>1. worker'[u] = IF u = w THEN x ELSE worker[u]
    BY <1>1
  <2>2. Works(worker[u], V)
    BY DEF InFlight
  <2> QED
    BY <2>1, <2>2
<1> QED
  BY <1>2, <1>3 DEF InFlight, Works

\* What is on its way to the index when nothing of it moves.
LEMMA IndexStill ==
  ASSUME NEW V, InFlight(V), UNCHANGED <<es, outbox, worker>>
  PROVE  InFlight(V)'
BY DEF InFlight

\* The edits, of versions that V allows.
LEMMA EditKeeps ==
  ASSUME NEW V \in Versions, InFlight(V), pg \in [Property -> Nat],
         NEW p \in Property, pg'[p] \in V[p],
         S!Create(p) \/ S!Edit(p) \/ S!Remove(p)
  PROVE  InFlight(V)'
<1>1. CASE S!Create(p)
  BY <1>1, IndexStill DEF S!Create
<1>2. ASSUME UNCHANGED <<es, worker>>, NEW v \in V[p], outbox' = S!Enqueue(p, v)
      PROVE  InFlight(V)'
  <2>1. outbox' \in Seq(Fresh(V))
    BY <1>2, EnqueueFresh DEF InFlight
  <2> QED
    BY <1>2, <2>1 DEF InFlight
<1>3. CASE S!Edit(p)
  BY <1>2, <1>3 DEF S!Edit
<1>4. CASE S!Remove(p)
  <2>1. pg'[p] = S!Absent
    BY <1>4 DEF S!Remove
  <2> QED
    BY <1>2, <1>4, <2>1 DEF S!Remove
<1> QED
  BY <1>1, <1>3, <1>4

\* The relay claims pending rows.
LEMMA StartRelayKeeps ==
  ASSUME NEW V \in Versions, InFlight(V), NEW w \in Worker, S!StartRelay(w)
  PROVE  InFlight(V)'
<1> DEFINE pending == S!Kept(outbox, S!Pending(outbox))
           x == [worker[w] EXCEPT !.pc = "claimed", !.claims = pending]
<1>1. /\ pending # <<>> /\ worker' = [worker EXCEPT ![w] = x]
      /\ UNCHANGED <<es, outbox>>
  BY DEF S!StartRelay
<1>2. pending \in Seq(Fresh(V))
  BY KeptIn DEF InFlight
<1> HIDE DEF pending
<1>3. Works(worker[w], V) /\ "claimed" \in Relaying
  BY DEF InFlight, Relaying
<1>4. Works(x, V)
  BY <1>1, <1>2, <1>3, RelayWorks
<1> HIDE DEF x
<1> QED
  BY <1>1, <1>4, WorkerSteps DEF InFlight

\* A step of a worker in the middle of a claim, to another place in it.
LEMMA ClaimMoves ==
  ASSUME NEW V \in Versions, InFlight(V), NEW w \in Worker, worker[w].pc \in Relaying,
         NEW pc \in Relaying, worker' = [worker EXCEPT ![w].pc = pc],
         es' \in [Property -> Nat], \A p \in Property : es'[p] \in V[p],
         outbox' \in Seq(Fresh(V))
  PROVE  InFlight(V)'
<1> DEFINE x == [worker[w] EXCEPT !.pc = pc]
<1>1. Works(worker[w], V) /\ worker[w].claims # <<>> /\ worker[w].claims \in Seq(Fresh(V))
  BY DEF InFlight, Works
<1>2. Works(x, V)
  BY <1>1, RelayWorks
<1>3. worker' = [worker EXCEPT ![w] = x]
  OBVIOUS
<1> HIDE DEF x
<1> QED
  BY <1>2, <1>3, WorkerSteps

\* The index takes the version of a claim.
LEMMA CallKeeps ==
  ASSUME NEW V \in Versions, InFlight(V), NEW w \in Worker,
         \/ S!MarkProcessing(w) \/ S!CallIndex(w)
         \/ \E effect \in BOOLEAN : S!CallFails(w, effect)
  PROVE  InFlight(V)'
<1> DEFINE row == Head(worker[w].claims)
           indexed == [es EXCEPT ![row.p] = row.version]
<1>1. {"call", "called", "failed"} \subseteq Relaying
  BY DEF Relaying
<1>2. worker[w].pc \in Relaying
  BY DEF S!MarkProcessing, S!CallIndex, S!CallFails, Relaying
<1>3. Works(worker[w], V)
  BY DEF InFlight
<1>4. row \in Fresh(V)
  BY <1>2, <1>3, HeadClaim
<1>5. row.p \in Property /\ row.version \in Nat /\ row.version \in V[row.p]
  BY <1>4 DEF Fresh, OutboxRow
<1> HIDE DEF row
<1>6. /\ indexed \in [Property -> Nat] /\ \A p \in Property : indexed[p] \in V[p]
      /\ es \in [Property -> Nat] /\ \A p \in Property : es[p] \in V[p]
  BY <1>5 DEF InFlight
<1> HIDE DEF indexed
<1>7. CASE S!MarkProcessing(w)
  <2>1. outbox' = S!StatusOf(row.id, "PROCESSING") /\ UNCHANGED es
        /\ worker' = [worker EXCEPT ![w].pc = "call"]
    BY <1>7 DEF S!MarkProcessing, row
  <2>2. outbox' \in Seq(Fresh(V))
    BY <2>1, MarkedFresh DEF InFlight
  <2>3. es' \in [Property -> Nat] /\ \A p \in Property : es'[p] \in V[p]
    BY <1>6, <2>1
  <2> QED
    BY <1>1, <1>2, <2>1, <2>2, <2>3, ClaimMoves
<1>8. ASSUME es' \in {es, indexed}, UNCHANGED outbox, NEW pc \in {"called", "failed"},
             worker' = [worker EXCEPT ![w].pc = pc]
      PROVE  InFlight(V)'
  <2>1. es' \in [Property -> Nat] /\ \A p \in Property : es'[p] \in V[p]
    BY <1>6, <1>8
  <2>2. outbox' \in Seq(Fresh(V))
    BY <1>8 DEF InFlight
  <2> QED
    BY <1>1, <1>2, <1>8, <2>1, <2>2, ClaimMoves
<1>9. CASE S!CallIndex(w)
  BY <1>8, <1>9 DEF S!CallIndex, row, indexed
<1>10. ASSUME NEW effect \in BOOLEAN, S!CallFails(w, effect)
       PROVE  InFlight(V)'
  BY <1>8, <1>10 DEF S!CallFails, row, indexed
<1> QED
  BY <1>7, <1>9, <1>10

\* The outbox drops the rows that nobody reads again.
LEMMA ReadableFresh ==
  ASSUME NEW V, NEW seq \in Seq(Fresh(V)), NEW workers
  PROVE  S!Readable(seq, workers) \in Seq(Fresh(V))
BY KeptIn DEF S!Readable

\* A claim is over, with the row done, given up or to be tried again.
LEMMA ClaimEnds ==
  ASSUME NEW V \in Versions, InFlight(V), NEW w \in Worker,
         S!MarkDone(w) \/ S!MarkFailedOrRetry(w)
  PROVE  InFlight(V)'
<1>1. worker[w].pc \in Relaying
  BY DEF S!MarkDone, S!MarkFailedOrRetry, Relaying
<1>2. Works(worker[w], V)
  BY DEF InFlight
<1> DEFINE row == Head(worker[w].claims)
           rest == Tail(worker[w].claims)
           x == IF rest = <<>> THEN S!Idle
                ELSE [worker[w] EXCEPT !.pc = "claimed", !.claims = rest]
<1>3. row \in Fresh(V) /\ rest \in Seq(Fresh(V))
  BY <1>1, <1>2, HeadClaim
<1> HIDE DEF row, rest
<1>4. Works(x, V)
  <2>1. "claimed" \in Relaying
    BY DEF Relaying
  <2> QED
    BY <1>2, <1>3, <2>1, IdleWorks, RelayWorks
<1>5. worker' = [worker EXCEPT ![w] = x] /\ UNCHANGED es
  BY DEF S!MarkDone, S!MarkFailedOrRetry, S!NextClaim, rest
<1>6. outbox' \in Seq(Fresh(V))
  <2>1. CASE S!MarkDone(w)
    <3>1. outbox' = S!Readable(S!StatusOf(row.id, "DONE"), worker')
      BY <2>1 DEF S!MarkDone, row
    <3>2. PICK seq : seq = S!StatusOf(row.id, "DONE")
      OBVIOUS
    <3>3. seq \in Seq(Fresh(V))
      BY <3>2, MarkedFresh DEF InFlight
    <3> QED
      BY <3>1, <3>2, <3>3, ReadableFresh
  <2>2. CASE S!MarkFailedOrRetry(w)
    <3> DEFINE attempts == row.attempts + 1
               status == IF attempts >= maxAttempts THEN "FAILED" ELSE "PENDING"
    <3>1. outbox' = S!Readable(S!SetRow(row.id, status, attempts), worker')
      BY <2>2 DEF S!MarkFailedOrRetry, row
    <3>2. attempts \in Nat
      BY <1>3 DEF Fresh, OutboxRow
    <3>3. status \in {"FAILED", "PENDING"}
      OBVIOUS
    <3> HIDE DEF attempts, status
    <3>4. PICK seq : seq = S!SetRow(row.id, status, attempts)
      OBVIOUS
    <3>5. seq \in Seq(Fresh(V))
      BY <3>2, <3>3, <3>4, MarkedFresh DEF InFlight
    <3> QED
      BY <3>1, <3>4, <3>5, ReadableFresh
  <2> QED
    BY <2>1, <2>2
<1> HIDE DEF x
<1> QED
  BY <1>4, <1>5, <1>6, WorkerSteps DEF InFlight

\* The reconcile job reads the table, which V allows, compares it and mends.
LEMMA StartReconcileKeeps ==
  ASSUME NEW V \in Versions, InFlight(V), NEW w \in Worker,
         pg \in [Property -> Nat], \A p \in Property : pg[p] \in V[p], S!StartReconcile(w)
  PROVE  InFlight(V)'
<1> DEFINE todo == {p \in Property : pg[p] # S!Absent}
           x == [S!Idle EXCEPT !.pc = "compare", !.snapshot = pg, !.todo = todo]
<1>1. S!Idle \in WorkerState /\ S!Idle.claims \in Seq(Fresh(V))
  BY IdleWorks DEF Works
<1>2. worker' = [worker EXCEPT ![w] = x] /\ UNCHANGED <<es, outbox>>
  BY DEF S!StartReconcile
<1>3. todo \subseteq Property
  OBVIOUS
<1> HIDE DEF todo
<1>4. /\ x \in WorkerState /\ x.pc = "compare" /\ x.snapshot = pg
      /\ x.claims = S!Idle.claims
  BY <1>1, <1>3 DEF WorkerState
<1> HIDE DEF x
<1>5. Works(x, V)
  BY <1>1, <1>4 DEF Works, Relaying
<1> QED
  BY <1>2, <1>5, WorkerSteps DEF InFlight

LEMMA CompareKeeps ==
  ASSUME NEW V \in Versions, InFlight(V), NEW w \in Worker, NEW p \in Property,
         NEW unseen \in BOOLEAN, S!Compare(w, p, unseen)
  PROVE  InFlight(V)'
<1> DEFINE rest == worker[w].todo \ {p}
           x == [worker[w] EXCEPT !.todo = rest]
<1>1. /\ worker[w].pc = "compare" /\ worker' = [worker EXCEPT ![w] = x] /\ UNCHANGED es
      /\ outbox' = outbox \/ outbox' = S!Enqueue(p, worker[w].snapshot[p])
  BY DEF S!Compare
<1>2. Works(worker[w], V) /\ worker[w] \in WorkerState
  BY DEF InFlight, Works
<1>3. rest \subseteq Property
  BY <1>2 DEF WorkerState
<1> HIDE DEF rest
<1>4. /\ x \in WorkerState /\ x.pc = "compare" /\ x.snapshot = worker[w].snapshot
      /\ x.claims = worker[w].claims
  BY <1>1, <1>2, <1>3 DEF WorkerState
<1> HIDE DEF x
<1>5. Works(x, V)
  BY <1>1, <1>2, <1>4 DEF Works, Relaying
<1>6. outbox' \in Seq(Fresh(V))
  <2>1. worker[w].snapshot[p] \in V[p]
    BY <1>1, <1>2 DEF Works
  <2>2. S!Enqueue(p, worker[w].snapshot[p]) \in Seq(Fresh(V))
    BY <2>1, EnqueueFresh DEF InFlight
  <2> QED
    BY <1>1, <2>2 DEF InFlight
<1> QED
  BY <1>1, <1>5, <1>6, WorkerSteps DEF InFlight

\* A document is an orphan when the snapshot has no such property.
LEMMA ScrollKeeps ==
  ASSUME NEW V \in Versions, InFlight(V), NEW w \in Worker, S!Scroll(w)
  PROVE  InFlight(V)'
<1> DEFINE orphans == {p \in Property : es[p] # S!Absent /\ worker[w].snapshot[p] = S!Absent}
           y == [worker[w] EXCEPT !.pc = "orphans", !.todo = orphans]
           x == IF orphans = {} THEN S!Idle ELSE y
<1>1. /\ worker[w].pc = "compare" /\ worker' = [worker EXCEPT ![w] = x]
      /\ UNCHANGED <<es, outbox>>
  BY DEF S!Scroll
<1>2. Works(worker[w], V) /\ worker[w] \in WorkerState
  BY DEF InFlight, Works
<1>3. orphans \subseteq Property /\ \A p \in orphans : S!Absent \in V[p]
  BY <1>1, <1>2 DEF Works
<1> HIDE DEF orphans
<1>4. y \in WorkerState /\ y.pc = "orphans" /\ y.todo = orphans /\ y.claims = worker[w].claims
  BY <1>2, <1>3 DEF WorkerState
<1> HIDE DEF y
<1>5. Works(y, V)
  BY <1>2, <1>3, <1>4 DEF Works, Relaying
<1>6. Works(x, V)
  BY <1>5, IdleWorks
<1> HIDE DEF x
<1> QED
  BY <1>1, <1>6, WorkerSteps DEF InFlight

LEMMA RemoveOrphanKeeps ==
  ASSUME NEW V \in Versions, InFlight(V), NEW w \in Worker, NEW p \in Property,
         NEW effect \in BOOLEAN, S!RemoveOrphan(w, p, effect)
  PROVE  InFlight(V)'
<1> DEFINE rest == worker[w].todo \ {p}
           y == [worker[w] EXCEPT !.todo = rest]
           x == IF rest = {} THEN S!Idle ELSE y
           removed == [es EXCEPT ![p] = S!Absent]
<1>1. /\ worker[w].pc = "orphans" /\ p \in worker[w].todo
      /\ worker' = [worker EXCEPT ![w] = x]
      /\ es' \in {es, removed} /\ UNCHANGED outbox
  BY DEF S!RemoveOrphan
<1>2. Works(worker[w], V) /\ worker[w] \in WorkerState
  BY DEF InFlight, Works
<1>3. S!Absent \in V[p] /\ S!Absent \in Nat
  BY <1>1, <1>2 DEF Works, S!Absent
<1>4. es' \in [Property -> Nat] /\ \A q \in Property : es'[q] \in V[q]
  BY <1>1, <1>3 DEF InFlight
<1> HIDE DEF removed
<1>5. rest \subseteq Property /\ \A q \in rest : S!Absent \in V[q]
  BY <1>1, <1>2 DEF Works, WorkerState
<1> HIDE DEF rest
<1>6. y \in WorkerState /\ y.pc = "orphans" /\ y.todo = rest /\ y.claims = worker[w].claims
  BY <1>1, <1>2, <1>5 DEF WorkerState
<1> HIDE DEF y
<1>7. Works(y, V)
  BY <1>2, <1>5, <1>6 DEF Works, Relaying
<1>8. Works(x, V)
  BY <1>7, IdleWorks
<1> HIDE DEF x
<1> QED
  BY <1>1, <1>4, <1>8, WorkerSteps DEF InFlight

\* A worker dies and forgets its claims.
LEMMA CrashKeeps ==
  ASSUME NEW V \in Versions, InFlight(V), NEW w \in Worker, S!Crash(w)
  PROVE  InFlight(V)'
<1>1. /\ worker' = [worker EXCEPT ![w] = S!Idle] /\ UNCHANGED es
      /\ outbox' = S!Readable(outbox, worker')
  BY DEF S!Crash
<1>2. outbox' \in Seq(Fresh(V))
  BY <1>1, ReadableFresh DEF InFlight
<1>3. Works(S!Idle, V)
  BY IdleWorks
<1> QED
  BY <1>1, <1>2, <1>3, WorkerSteps DEF InFlight

\* What is in flight stays within V as long as the table does.
LEMMA FlightStep ==
  ASSUME NEW V \in Versions, InFlight(V), pg \in [Property -> Nat],
         \A p \in Property : pg[p] \in V[p] /\ pg'[p] \in V[p],
         [S!Next]_search
  PROVE  InFlight(V)'
<1>1. CASE \E p \in Property : S!Create(p) \/ S!Edit(p) \/ S!Remove(p)
  BY <1>1, EditKeeps
<1>2. CASE \E w \in Worker : S!StartRelay(w)
  BY <1>2, StartRelayKeeps
<1>3. CASE \E w \in Worker : S!StartReconcile(w)
  BY <1>3, StartReconcileKeeps
<1>4. CASE \E w \in Worker :
             \/ S!MarkProcessing(w) \/ S!CallIndex(w)
             \/ \E e \in BOOLEAN : S!CallFails(w, e)
  BY <1>4, CallKeeps
<1>5. CASE \E w \in Worker : S!MarkDone(w) \/ S!MarkFailedOrRetry(w)
  BY <1>5, ClaimEnds
<1>6. CASE \E w \in Worker : S!Scroll(w)
  BY <1>6, ScrollKeeps
<1>7. CASE \E w \in Worker, p \in Property : S!Compare(w, p, FALSE) \/ S!Compare(w, p, TRUE)
  <2>1. TRUE \in BOOLEAN /\ FALSE \in BOOLEAN
    OBVIOUS
  <2> QED
    BY <1>7, <2>1, CompareKeeps
<1>8. CASE \E w \in Worker, p \in Property :
             S!RemoveOrphan(w, p, TRUE) \/ S!RemoveOrphan(w, p, FALSE)
  <2>1. TRUE \in BOOLEAN /\ FALSE \in BOOLEAN
    OBVIOUS
  <2> QED
    BY <1>8, <2>1, RemoveOrphanKeeps
<1>9. CASE \E w \in Worker : S!Crash(w)
  BY <1>9, CrashKeeps
<1>10. CASE UNCHANGED search
  BY <1>10, IndexStill DEF search
<1> QED
  BY <1>1, <1>2, <1>3, <1>4, <1>5, <1>6, <1>7, <1>8, <1>9, <1>10 DEF S!Next, S!Runs

\* Every version of a property, up to the one its last edit made, and its own.
Made == [p \in Property |-> 0..versions[p]]
Own == [p \in Property |-> {pg[p]}]

EditsInv ==
  /\ pg \in [Property -> Nat] /\ versions \in [Property -> Nat]
  /\ \A p \in Property : pg[p] \in {S!Absent, versions[p]}
  /\ InFlight(Made)

\* What an edit makes of the table and of the versions.
LEMMA VersionsGrow ==
  ASSUME EditsInv, [S!Next]_search
  PROVE  /\ pg' \in [Property -> Nat] /\ versions' \in [Property -> Nat]
         /\ \A p \in Property : versions[p] <= versions'[p]
         /\ \A p \in Property : pg'[p] \in {S!Absent, versions'[p]}
<1>1. ASSUME NEW p \in Property, S!NewVersion(p)
      PROVE  /\ pg' \in [Property -> Nat] /\ versions' \in [Property -> Nat]
             /\ \A q \in Property : versions[q] <= versions'[q]
             /\ \A q \in Property : pg'[q] \in {S!Absent, versions'[q]}
  <2>1. /\ versions' = [versions EXCEPT ![p] = versions[p] + 1]
        /\ pg' = [pg EXCEPT ![p] = versions'[p]]
    BY <1>1 DEF S!NewVersion
  <2>2. versions' \in [Property -> Nat] /\ versions'[p] \in Nat
    BY <2>1 DEF EditsInv
  <2>3. pg' \in [Property -> Nat]
    BY <2>1, <2>2 DEF EditsInv
  <2>4. ASSUME NEW q \in Property
        PROVE  versions[q] <= versions'[q] /\ pg'[q] \in {S!Absent, versions'[q]}
    <3>1. CASE q = p
      BY <2>1, <3>1 DEF EditsInv
    <3>2. CASE q # p
      BY <2>1, <3>2 DEF EditsInv
    <3> QED
      BY <3>1, <3>2
  <2> QED
    BY <2>2, <2>3, <2>4
<1>2. ASSUME NEW p \in Property, S!Remove(p)
      PROVE  /\ pg' \in [Property -> Nat] /\ versions' \in [Property -> Nat]
             /\ \A q \in Property : versions[q] <= versions'[q]
             /\ \A q \in Property : pg'[q] \in {S!Absent, versions'[q]}
  BY <1>2 DEF EditsInv, S!Remove, S!Absent
<1>3. CASE UNCHANGED <<pg, versions>>
  BY <1>3 DEF EditsInv
<1>4. ASSUME NEW p \in Property, S!Create(p) \/ S!Edit(p)
      PROVE  S!NewVersion(p)
  BY <1>4 DEF S!Create, S!Edit
<1>5. ASSUME NEW w \in Worker,
             \/ S!StartRelay(w) \/ S!StartReconcile(w) \/ S!Runs(w) \/ S!Crash(w)
             \/ \E e \in BOOLEAN : S!CallFails(w, e)
             \/ \E p \in Property : S!Compare(w, p, TRUE) \/ S!RemoveOrphan(w, p, FALSE)
      PROVE  UNCHANGED <<pg, versions>>
  <2>1. S!Runs(w) => UNCHANGED <<pg, versions>>
    BY DEF S!Runs, S!MarkProcessing, S!CallIndex, S!MarkDone, S!MarkFailedOrRetry, S!Scroll,
           S!Compare, S!RemoveOrphan
  <2> QED
    BY <1>5, <2>1 DEF S!StartRelay, S!StartReconcile, S!Crash, S!CallFails, S!Compare,
                      S!RemoveOrphan
<1> QED
  BY <1>1, <1>2, <1>3, <1>4, <1>5 DEF S!Next, search

LEMMA EditsStep == EditsInv /\ [S!Next]_search => EditsInv'
<1> SUFFICES ASSUME EditsInv, [S!Next]_search
             PROVE  EditsInv'
  OBVIOUS
<1>1. PICK V : V = Made'
  OBVIOUS
<1>2. /\ V \in Versions
      /\ \A p \in Property : Made[p] \subseteq V[p] /\ pg[p] \in V[p] /\ pg'[p] \in V[p]
  <2>1. /\ versions' \in [Property -> Nat]
        /\ \A p \in Property : versions[p] <= versions'[p]
        /\ \A p \in Property : pg'[p] \in {S!Absent, versions'[p]}
    BY VersionsGrow
  <2>2. /\ versions \in [Property -> Nat]
        /\ \A p \in Property : pg[p] \in {S!Absent, versions[p]}
    BY DEF EditsInv
  <2>3. V = [p \in Property |-> 0..versions'[p]]
    BY <1>1 DEF Made
  <2>4. \A p \in Property : V[p] = 0..versions'[p] /\ Made[p] = 0..versions[p]
    BY <2>3 DEF Made
  <2>5. ASSUME NEW p \in Property
        PROVE  V[p] \subseteq Nat /\ Made[p] \subseteq V[p] /\ pg[p] \in V[p] /\ pg'[p] \in V[p]
    <3>1. versions[p] \in Nat /\ versions'[p] \in Nat /\ versions[p] <= versions'[p]
      BY <2>1, <2>2
    <3>2. {S!Absent, versions[p], versions'[p]} \subseteq 0..versions'[p]
      BY <3>1 DEF S!Absent
    <3>3. V[p] = 0..versions'[p] /\ Made[p] = 0..versions[p]
      BY <2>4
    <3>4. pg[p] \in 0..versions'[p] /\ pg'[p] \in 0..versions'[p]
      BY <2>1, <2>2, <3>2
    <3> QED
      BY <3>1, <3>3, <3>4
  <2>6. V \in Versions
    BY <2>3, <2>5 DEF Versions
  <2> QED
    BY <2>5, <2>6
<1>3. InFlight(V)
  <2>1. InFlight(Made)
    BY DEF EditsInv
  <2>2. Fresh(Made) \subseteq Fresh(V)
    BY <1>2 DEF Fresh, OutboxRow
  <2>3. Seq(Fresh(Made)) \subseteq Seq(Fresh(V))
    BY <2>2
  <2>4. \A w \in Worker : Works(worker[w], V)
    BY <1>2, <2>1, <2>3 DEF InFlight, Works, WorkerState
  <2> QED
    BY <1>2, <2>1, <2>3, <2>4 DEF InFlight
<1>4. InFlight(V)'
  BY <1>2, <1>3, FlightStep DEF EditsInv
<1>5. InFlight(Made)'
  BY <1>1, <1>4
<1> QED
  BY <1>5, VersionsGrow DEF EditsInv

-----------------------------------------------------------------------------
(* The two side by side.                                                   *)

\* Each service steps by its own next-state relation, whatever the other does.
LEMMA ServicesStep ==
  [ServicesNext]_<<part, vars, search>> => [Next]_vars /\ [S!Next]_search
BY DEF ServicesNext

\* Fiat transfers run as Anchor says, whatever the search index does.
THEOREM AnchorRuns == ServicesSpec => Spec
<1>1. ServicesInit => Init
  BY DEF ServicesInit
<1> QED
  BY <1>1, ServicesStep, PTL DEF ServicesSpec, Spec

\* What holds of fiat transfers alone holds beside the search index.
THEOREM ServicesSafe == ServicesSpec => []CompletedIsSettled /\ TerminalStays
BY AnchorRuns, CompletedIsSettledAlways, TerminalStaysAlways, PTL

\* A document of the index, and every row, claim and snapshot on its way there, is
\* of an edit of its property that was made: no retry, death of a worker or old
\* snapshot makes one up, or one of another property.
THEOREM EditsInvariant == ServicesSpec => []EditsInv
<1>1. ServicesInit => EditsInv
  <2> SUFFICES ASSUME S!Init
               PROVE  EditsInv
    BY DEF ServicesInit
  <2>1. /\ pg = [p \in Property |-> S!Absent] /\ versions = [p \in Property |-> S!Absent]
        /\ es = [p \in Property |-> S!Absent] /\ outbox = <<>>
        /\ worker = [w \in Worker |-> S!Idle]
    BY DEF S!Init
  <2>2. S!Absent \in Nat /\ S!Absent \in 0..S!Absent
    BY DEF S!Absent
  <2>3. \A p \in Property : Made[p] = 0..S!Absent
    BY <2>1 DEF Made
  <2>4. Works(S!Idle, Made) /\ S!Idle \in WorkerState
    BY IdleWorks DEF Works
  <2>5. outbox \in Seq(Fresh(Made))
    BY <2>1
  <2>6. InFlight(Made)
    BY <2>1, <2>2, <2>3, <2>4, <2>5 DEF InFlight
  <2> QED
    BY <2>1, <2>2, <2>6 DEF EditsInv
<1> QED
  BY <1>1, EditsStep, ServicesStep, PTL DEF ServicesSpec

\* The index shows the table, and nothing stale is on its way to it.
Current == es = pg /\ InFlight(Own)

\* Once the index shows the table and nothing stale is in flight, it shows the table
\* until the next edit, whichever calls fail, rows are retried and workers die: the
\* part of IndexConverges that is not about time.
THEOREM IndexStaysCurrent == ServicesSpec => [](Current /\ [][FALSE]_pg => [](es = pg))
<1>1. Current /\ EditsInv /\ [S!Next]_search /\ [FALSE]_pg => Current'
  <2> SUFFICES ASSUME Current, EditsInv, [S!Next]_search, pg' = pg
               PROVE  Current'
    OBVIOUS
  <2>1. PICK V : V = Own
    OBVIOUS
  <2>2. /\ pg \in [Property -> Nat] /\ V \in Versions
        /\ \A p \in Property : V[p] = {pg[p]}
    BY <2>1 DEF EditsInv, Own, Versions
  <2>3. InFlight(V)'
    BY <2>1, <2>2, FlightStep DEF Current
  <2>4. Own' = V
    BY <2>1 DEF Own
  <2>5. es' \in [Property -> Nat] /\ \A p \in Property : es'[p] = pg[p]
    BY <2>2, <2>3 DEF InFlight
  <2>6. es' = pg'
    BY <2>2, <2>5
  <2> QED
    BY <2>3, <2>4, <2>6 DEF Current
<1>2. Current => es = pg
  BY DEF Current
<1> QED
  BY <1>1, <1>2, ServicesStep, EditsInvariant, PTL DEF ServicesSpec
=============================================================================
