--------------------------- MODULE PropertyRegistry ---------------------------
(***************************************************************************)
(* The property_registry contract, and the table in which the backend      *)
(* mirrors it.  The contract may be called by anyone; the backend submits  *)
(* its own calls, polls for their outcome for as long as the transaction   *)
(* may still be included, and writes its row last.  A contract call is one *)
(* action; a backend request is several.                                   *)
(***************************************************************************)
EXTENDS Integers, FiniteSets

CONSTANTS
  Property,
  Person,         \* landlords, and those who may be the contract's admin
  Request         \* requests to the backend

VARIABLES
  registryAdmin,                \* state.admin, NoOne before initialize
  registryPending,              \* PendingAdmin
  registryPaused,               \* PauseState
  properties, count,            \* DataKey::Property(id), DataKey::PropertyCount
  rows,                         \* property_registry, the backend's table
  transferred,                  \* the ids PropertyHistory has an entry of
  req                           \* the backend's requests

contract == <<registryAdmin, registryPending, registryPaused, properties, count>>
backend == <<rows, transferred, req>>
registryVars == <<contract, backend>>

NoOne == "no one"
NoProperty == [landlord |-> NoOne, verified |-> FALSE]
NoRow == [owner |-> NoOne, verified |-> FALSE]
NewReq == [op |-> "none", p |-> "none", who |-> NoOne, pc |-> "idle", tx |-> "none",
           row |-> NoRow]

Registered == {p \in Property : properties[p] # NoProperty}

-----------------------------------------------------------------------------
RegistryInit ==
  /\ registryAdmin = NoOne /\ registryPending = NoOne /\ registryPaused = FALSE
  /\ properties = [p \in Property |-> NoProperty] /\ count = 0
  /\ rows = [p \in Property |-> NoRow]
  /\ transferred = {}
  /\ req = [r \in Request |-> NewReq]

\* The contract's own calls, signed by whom they name.
Initialize(who) ==
  /\ registryAdmin = NoOne
  /\ registryAdmin' = who
  /\ UNCHANGED <<registryPending, registryPaused, properties, count, backend>>

PauseRegistry(who) ==
  /\ registryAdmin # NoOne /\ who = registryAdmin /\ ~registryPaused
  /\ registryPaused' = TRUE
  /\ UNCHANGED <<registryAdmin, registryPending, properties, count, backend>>

UnpauseRegistry(who) ==
  /\ registryAdmin # NoOne /\ who = registryAdmin /\ registryPaused
  /\ registryPaused' = FALSE
  /\ UNCHANGED <<registryAdmin, registryPending, properties, count, backend>>

ProposeRegistryAdmin(who, new) ==
  /\ registryAdmin # NoOne /\ who = registryAdmin
  /\ registryPending' = new
  /\ UNCHANGED <<registryAdmin, registryPaused, properties, count, backend>>

AcceptRegistryAdmin(who) ==
  /\ registryPending # NoOne /\ who = registryPending
  /\ registryAdmin' = who /\ registryPending' = NoOne
  /\ UNCHANGED <<registryPaused, properties, count, backend>>

\* register_property and verify_property: when they succeed, and what they do.
MayRegister(p) == registryAdmin # NoOne /\ ~registryPaused /\ properties[p] = NoProperty
MayVerify(who, p) ==
  /\ registryAdmin # NoOne /\ ~registryPaused /\ who = registryAdmin
  /\ properties[p] # NoProperty /\ ~properties[p].verified

RegisterProperty(who, p) ==
  /\ MayRegister(p)
  /\ properties' = [properties EXCEPT ![p].landlord = who]
  /\ count' = count + 1
  /\ UNCHANGED <<registryAdmin, registryPending, registryPaused>>

VerifyProperty(who, p) ==
  /\ MayVerify(who, p)
  /\ properties' = [properties EXCEPT ![p].verified = TRUE]
  /\ UNCHANGED <<registryAdmin, registryPending, registryPaused, count>>

\* A call that did not come from the backend.
Direct(who, p) ==
  /\ RegisterProperty(who, p) \/ VerifyProperty(who, p)
  /\ UNCHANGED backend

-----------------------------------------------------------------------------
\* invokeContractFunction: the transaction is prepared, which tries the call, and sent.
Submit(r, op, who, p) ==
  /\ req[r].pc = "idle"
  /\ req' = [req EXCEPT ![r] =
       IF (op = "register" /\ MayRegister(p)) \/ (op = "verify" /\ MayVerify(who, p))
         THEN [NewReq EXCEPT !.op = op, !.p = p, !.who = who, !.pc = "sent", !.tx = "pending"]
         ELSE [NewReq EXCEPT !.pc = "done"]]
  /\ UNCHANGED <<contract, rows, transferred>>

\* The network includes it: it succeeds, or what it was tried on has changed.
Include(r) ==
  LET q == req[r]
  IN  /\ q.tx = "pending"
      /\ \/ /\ q.op = "register" /\ RegisterProperty(q.who, q.p)
            /\ req' = [req EXCEPT ![r].tx = "SUCCESS"]
         \/ /\ q.op = "verify" /\ VerifyProperty(q.who, q.p)
            /\ req' = [req EXCEPT ![r].tx = "SUCCESS"]
         \/ /\ ~(q.op = "register" /\ MayRegister(q.p)) /\ ~(q.op = "verify" /\ MayVerify(q.who, q.p))
            /\ req' = [req EXCEPT ![r].tx = "FAILED"]
            /\ UNCHANGED contract
      /\ UNCHANGED <<rows, transferred>>

\* Mutant: any final status will do.
SeesIncluded(q) == q.tx \in {"SUCCESS", "FAILED"}

Sees(q) == q.tx = "SUCCESS"

\* The poll sees it succeed: a registration's row is made, a verification's is read.
Found(r) ==
  LET q == req[r]
  IN  /\ q.pc = "sent" /\ Sees(q)
      /\ req' = [req EXCEPT ![r].row =
                   IF q.op = "register" THEN [owner |-> q.who, verified |-> FALSE]
                   ELSE [rows[q.p] EXCEPT !.verified = TRUE],
                            ![r].pc =
                   IF q.op = "verify" /\ rows[q.p] = NoRow THEN "done" ELSE "save"]
      /\ UNCHANGED <<contract, rows, transferred>>

\* It fails, or the poll gives up while the transaction may still succeed, or the
\* request dies before it has stored everything.
GiveUp(r) ==
  /\ req[r].pc \in {"sent", "save", "history"}
  /\ req' = [req EXCEPT ![r].pc = "done"]
  /\ UNCHANGED <<contract, rows, transferred>>

\* transferProperty never calls the contract: it reads the row...
Transfer(r, p, to) ==
  /\ req[r].pc = "idle" /\ rows[p] # NoRow
  /\ req' = [req EXCEPT ![r] = [NewReq EXCEPT !.op = "transfer", !.p = p, !.pc = "save",
                                              !.row = [rows[p] EXCEPT !.owner = to]]]
  /\ UNCHANGED <<contract, rows, transferred>>

\* ...and as in the others the whole row is stored as it was read, and changed.
Save(r) ==
  LET q == req[r]
  IN  /\ q.pc = "save"
      /\ rows' = [rows EXCEPT ![q.p] = q.row]
      /\ req' = [req EXCEPT ![r].pc = IF q.op = "transfer" THEN "history" ELSE "done"]
      /\ UNCHANGED <<contract, transferred>>

\* A transfer's entry in the history is stored after the row.
SaveHistory(r) ==
  /\ req[r].pc = "history"
  /\ transferred' = transferred \cup {req[r].p}
  /\ req' = [req EXCEPT ![r].pc = "done"]
  /\ UNCHANGED <<contract, rows>>

-----------------------------------------------------------------------------
RegistryNext ==
  \/ \E who \in Person :
       \/ Initialize(who) \/ PauseRegistry(who) \/ UnpauseRegistry(who)
       \/ AcceptRegistryAdmin(who)
       \/ \E new \in Person : ProposeRegistryAdmin(who, new)
       \/ \E p \in Property : Direct(who, p)
  \/ \E r \in Request :
       \/ Include(r) \/ Found(r) \/ GiveUp(r) \/ Save(r) \/ SaveHistory(r)
       \/ \E p \in Property, who \in Person :
            \/ Transfer(r, p, who)
            \/ \E op \in {"register", "verify"} : Submit(r, op, who, p)

RegistrySpec == RegistryInit /\ [][RegistryNext]_registryVars

-----------------------------------------------------------------------------
Row == [owner: Person \cup {NoOne}, verified: BOOLEAN]

RegistryTypeOK ==
  /\ registryAdmin \in Person \cup {NoOne} /\ registryPending \in Person \cup {NoOne}
  /\ registryPaused \in BOOLEAN
  /\ properties \in [Property -> [landlord: Person \cup {NoOne}, verified: BOOLEAN]]
  /\ count \in Nat
  /\ rows \in [Property -> Row]
  /\ transferred \subseteq Property
  /\ req \in [Request ->
       [op: {"none", "register", "verify", "transfer"}, p: Property \cup {"none"},
        who: Person \cup {NoOne}, pc: {"idle", "sent", "save", "history", "done"},
        tx: {"none", "pending", "SUCCESS", "FAILED"}, row: Row]]

\* What the backend's row says was so on the ledger first: the property is
\* registered, by the row's owner unless a transfer was asked for, and verified if
\* the row says so, whoever else registered the same id meanwhile and whatever
\* stale row a slow request stored.  (The other direction fails: a poll that gives up, or a
\* transfer that overlaps a verification, leaves the row behind for good.)
MirrorIsTrue ==
  \A p \in Property : rows[p] # NoRow =>
    /\ p \in Registered
    /\ rows[p].verified => properties[p].verified
    /\ \/ rows[p].owner = properties[p].landlord
       \/ \E r \in Request : req[r].op = "transfer" /\ req[r].p = p /\ req[r].pc # "save"
=============================================================================
