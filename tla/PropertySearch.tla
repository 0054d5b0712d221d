---------------------------- MODULE PropertySearch ----------------------------
(***************************************************************************)
(* The search index beside the properties table: every edit stores a row   *)
(* in the outbox in its own transaction; workers drain the outbox into     *)
(* Elasticsearch, and every quarter of an hour compare table and index and *)
(* mend what differs.  Claims take no lock, retries take no account of     *)
(* later rows, snapshots age and workers die.                              *)
(*                                                                         *)
(* A property is the version of its last edit, a document the version it   *)
(* was made from.  Outbox rows that nobody will read again (done, dead, or *)
(* left PROCESSING by a worker that died) are dropped from the model.      *)
(***************************************************************************)
EXTENDS Integers, Sequences

CONSTANTS
  Property,
  Worker,         \* the processes that run the search-index queue
  maxAttempts,    \* SEARCH_OUTBOX_MAX_ATTEMPTS
  MaxVersions,    \* bound: edits of a property
  MaxRows,        \* bound: outbox rows somebody may still read
  MaxFaults       \* bound: failed calls and dead workers

VARIABLES
  pg,             \* properties, by id: a version, or Absent
  versions,       \* the versions given out so far
  outbox,         \* search_outbox, in order of created_at
  es,             \* the documents of the index
  worker,         \* where each worker is, its claims and its snapshot
  faults

vars == <<pg, versions, outbox, es, worker, faults>>

Absent == 0
Idle == [pc |-> "idle", claims |-> <<>>, snapshot |-> [p \in Property |-> Absent],
         todo |-> {}]

IdsOf(seq) == {seq[i].id : i \in DOMAIN seq}
FreeIds == (1..MaxRows) \ (IdsOf(outbox) \cup UNION {IdsOf(worker[w].claims) : w \in Worker})
Room == FreeIds # {}

\* enqueueIndex and enqueueDelete (version Absent), in the edit's transaction.
Enqueue(p, version) ==
  Append(outbox, [id |-> CHOOSE i \in FreeIds : \A j \in FreeIds : i <= j,
                  p |-> p, version |-> version, status |-> "PENDING", attempts |-> 0])

\* The rows at the places of keep, in their order.
Kept(rows, keep) ==
  LET kept[n \in 0..Len(rows)] ==
        IF n = 0 THEN <<>>
        ELSE IF n \in keep THEN Append(kept[n - 1], rows[n]) ELSE kept[n - 1]
  IN  kept[Len(rows)]

Pending(rows) == {i \in DOMAIN rows : rows[i].status = "PENDING"}
Claimed(rows, workers) ==
  {i \in DOMAIN rows : \E w \in Worker : rows[i].id \in IdsOf(workers[w].claims)}

Readable(rows, workers) == Kept(rows, Pending(rows) \cup Claimed(rows, workers))

Fault == faults < MaxFaults /\ faults' = faults + 1

-----------------------------------------------------------------------------
Init ==
  /\ pg = [p \in Property |-> Absent]
  /\ versions = [p \in Property |-> Absent]
  /\ outbox = <<>>
  /\ es = [p \in Property |-> Absent]
  /\ worker = [w \in Worker |-> Idle]
  /\ faults = 0

NewVersion(p) ==
  /\ versions[p] < MaxVersions
  /\ versions' = [versions EXCEPT ![p] = @ + 1]
  /\ pg' = [pg EXCEPT ![p] = versions'[p]]

\* create stores the property and nothing in the outbox.
Create(p) ==
  /\ versions[p] = Absent
  /\ NewVersion(p)
  /\ UNCHANGED <<outbox, es, worker, faults>>

\* update, publish, archive, markAsRented: a property removed since it was read
\* is inserted again.
Edit(p) ==
  /\ versions[p] # Absent /\ Room
  /\ NewVersion(p)
  /\ outbox' = Enqueue(p, pg'[p])
  /\ UNCHANGED <<es, worker, faults>>

Remove(p) ==
  /\ pg[p] # Absent /\ Room
  /\ pg' = [pg EXCEPT ![p] = Absent]
  /\ outbox' = Enqueue(p, Absent)
  /\ UNCHANGED <<versions, es, worker, faults>>

-----------------------------------------------------------------------------
\* drain: the pending rows are read, not locked.
StartRelay(w) ==
  LET pending == Kept(outbox, Pending(outbox))
  IN  /\ worker[w].pc = "idle"
      /\ pending # <<>>
      /\ worker' = [worker EXCEPT ![w].pc = "claimed", ![w].claims = pending]
      /\ UNCHANGED <<pg, versions, outbox, es, faults>>

SetRow(id, status, attempts) ==
  [i \in DOMAIN outbox |->
     IF outbox[i].id = id THEN [outbox[i] EXCEPT !.status = status, !.attempts = attempts]
     ELSE outbox[i]]
StatusOf(id, status) ==
  [i \in DOMAIN outbox |->
     IF outbox[i].id = id THEN [outbox[i] EXCEPT !.status = status] ELSE outbox[i]]

MarkProcessing(w) ==
  /\ worker[w].pc = "claimed"
  /\ outbox' = StatusOf(Head(worker[w].claims).id, "PROCESSING")
  /\ worker' = [worker EXCEPT ![w].pc = "call"]
  /\ UNCHANGED <<pg, versions, es, faults>>

\* indexProperty or removeProperty; an error may hide that it took effect.
CallIndex(w) ==
  LET row == Head(worker[w].claims)
  IN  /\ worker[w].pc = "call"
      /\ es' = [es EXCEPT ![row.p] = row.version]
      /\ worker' = [worker EXCEPT ![w].pc = "called"]
      /\ UNCHANGED <<pg, versions, outbox, faults>>

CallFails(w, effect) ==
  LET row == Head(worker[w].claims)
  IN  /\ worker[w].pc = "call"
      /\ Fault
      /\ es' = IF effect THEN [es EXCEPT ![row.p] = row.version] ELSE es
      /\ worker' = [worker EXCEPT ![w].pc = "failed"]
      /\ UNCHANGED <<pg, versions, outbox>>

NextClaim(w) ==
  LET rest == Tail(worker[w].claims)
  IN  [worker EXCEPT ![w] = IF rest = <<>> THEN Idle
                            ELSE [@ EXCEPT !.pc = "claimed", !.claims = rest]]

MarkDone(w) ==
  /\ worker[w].pc = "called"
  /\ worker' = NextClaim(w)
  /\ outbox' = Readable(StatusOf(Head(worker[w].claims).id, "DONE"), worker')
  /\ UNCHANGED <<pg, versions, es, faults>>

\* The count of attempts is the one the worker claimed the row with.
MarkFailedOrRetry(w) ==
  LET row == Head(worker[w].claims)
      attempts == row.attempts + 1
  IN  /\ worker[w].pc = "failed"
      /\ worker' = NextClaim(w)
      /\ outbox' = Readable(SetRow(row.id, IF attempts >= maxAttempts THEN "FAILED" ELSE "PENDING",
                                   attempts), worker')
      /\ UNCHANGED <<pg, versions, es, faults>>

-----------------------------------------------------------------------------
\* run of the reconcile job: all properties are read at once.
StartReconcile(w) ==
  /\ worker[w].pc = "idle"
  /\ worker' = [worker EXCEPT ![w] = [Idle EXCEPT !.pc = "compare", !.snapshot = pg,
                                       !.todo = {p \in Property : pg[p] # Absent}]]
  /\ UNCHANGED <<pg, versions, outbox, es, faults>>

\* Mutant: only documents that are missing are mended.
MendsMissing(version, doc, unseen) == unseen \/ doc = Absent

\* Each is compared with its document; one that is missing, or that Elasticsearch
\* could not show (unseen), or that differs is put in the outbox as it was read.
Mends(version, doc, unseen) == unseen \/ doc # version

Compare(w, p, unseen) ==
  LET version == worker[w].snapshot[p]
  IN  /\ worker[w].pc = "compare" /\ p \in worker[w].todo
      /\ IF unseen THEN Fault ELSE UNCHANGED faults
      /\ outbox' = IF Mends(version, es[p], unseen) /\ Room THEN Enqueue(p, version) ELSE outbox
      /\ worker' = [worker EXCEPT ![w].todo = @ \ {p}]
      /\ UNCHANGED <<pg, versions, es>>

\* Then the documents of properties that were not read are removed.
Scroll(w) ==
  /\ worker[w].pc = "compare" /\ worker[w].todo = {}
  /\ LET orphans == {p \in Property : es[p] # Absent /\ worker[w].snapshot[p] = Absent}
     IN  worker' = [worker EXCEPT ![w] = IF orphans = {} THEN Idle
                                         ELSE [@ EXCEPT !.pc = "orphans", !.todo = orphans]]
  /\ UNCHANGED <<pg, versions, outbox, es, faults>>

RemoveOrphan(w, p, effect) ==
  LET rest == worker[w].todo \ {p}
  IN  /\ worker[w].pc = "orphans" /\ p \in worker[w].todo
      /\ IF effect THEN UNCHANGED faults ELSE Fault
      /\ es' = IF effect THEN [es EXCEPT ![p] = Absent] ELSE es
      /\ worker' = [worker EXCEPT ![w] = IF rest = {} THEN Idle ELSE [@ EXCEPT !.todo = rest]]
      /\ UNCHANGED <<pg, versions, outbox>>

\* A worker dies, or a statement of its run fails: what it had claimed stays.
Crash(w) ==
  /\ worker[w].pc # "idle"
  /\ Fault
  /\ worker' = [worker EXCEPT ![w] = Idle]
  /\ outbox' = Readable(outbox, worker')
  /\ UNCHANGED <<pg, versions, es>>

-----------------------------------------------------------------------------
Runs(w) ==
  \/ MarkProcessing(w) \/ CallIndex(w) \/ MarkDone(w) \/ MarkFailedOrRetry(w) \/ Scroll(w)
  \/ \E p \in Property : Compare(w, p, FALSE) \/ RemoveOrphan(w, p, TRUE)

Next ==
  \/ \E p \in Property : Create(p) \/ Edit(p) \/ Remove(p)
  \/ \E w \in Worker :
       \/ StartRelay(w) \/ StartReconcile(w) \/ Runs(w) \/ Crash(w)
       \/ \E e \in BOOLEAN : CallFails(w, e)
       \/ \E p \in Property : Compare(w, p, TRUE) \/ RemoveOrphan(w, p, FALSE)

\* Bull repeats both jobs, so each is started again and again; a worker that runs
\* one goes on with it.
Fairness ==
  /\ SF_vars(\E w \in Worker : StartRelay(w))
  /\ SF_vars(\E w \in Worker : StartReconcile(w))
  /\ \A w \in Worker : WF_vars(Runs(w))

Spec == Init /\ [][Next]_vars /\ Fairness

-----------------------------------------------------------------------------
\* Once the edits and the faults stop, the index comes to show every property as
\* it is, and none that was removed, and stays so: no row that was retried late,
\* given up, forgotten by a dead worker or made from an old snapshot has the
\* last word.
IndexConverges == <>[](es = pg)
=============================================================================
