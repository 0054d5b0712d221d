----------------------------- MODULE Idempotency ------------------------------
(***************************************************************************)
(* IdempotencyService.process (backend/src/common/idempotency): concurrent *)
(* callers on several servers ask to run a function fn under one key.  The *)
(* first to reserve the key runs fn and leaves its result, the others wait *)
(* for that result; a run that fails gives the key back.                   *)
(*                                                                         *)
(* Every await is a step boundary: a Redis command, or the turn of the     *)
(* event loop that the in-memory fallback takes, is one action.  A Redis   *)
(* command may fail before or after it took effect, and a server may crash *)
(* with all the calls it is serving.  The key is the only one: keys do not *)
(* interact.  The value a caller's run of fn produces is named by the      *)
(* caller, and the waits between polls take any time.  store and retrieve, *)
(* which nothing in the backend calls, are left out.                       *)
(***************************************************************************)
EXTENDS Servers

CONSTANTS
  None,           \* no value
  KeyTtl,         \* ttlMs
  WaitTimeout,    \* waitTimeoutMs
  Horizon,        \* bound: no call starts later
  FaultKinds,     \* what may go wrong: "redis", "crash"
  MaxFailures     \* bound: Redis failures and crashes

ASSUME IdempotencyAssumption ==
  /\ KeyTtl \in Nat \ {0} /\ WaitTimeout \in Nat

VARIABLES
  shared,         \* REDIS_CLIENT is provided; otherwise each process keeps a Map
  store,          \* the entry of the key in each place
  at,             \* where each caller is in process
  deadline,       \* until when a caller waits
  answer,         \* the value process returned to a caller
  clock,          \* Date.now()
  failures,       \* how many faults happened
  reservedAt,     \* ghost: when a caller reserved the key
  doneAt,         \* ghost: when a caller's result was stored, or NotYet
  won             \* ghost: the callers whose run of fn succeeded

keyVars == <<shared, store, at, deadline, answer, clock, failures, reservedAt, doneAt, won>>

NotYet == -1
Missing == [mark |-> "missing", value |-> None, expires |-> 0]
Pending == [mark |-> "pending", value |-> None, expires |-> clock + KeyTtl]

\* Mutant: the result inherits what is left of the reservation's lifetime.
LateResult(c, old) == [mark |-> "done", value |-> c, expires |-> old.expires]

Result(c, old) == [mark |-> "done", value |-> c, expires |-> clock + KeyTtl]

StoreOf(c) == IF shared THEN Redis ELSE Home[c]

\* readRaw: an entry past its lifetime is not there.
Entry(p) == IF store[p].expires > clock THEN store[p] ELSE Missing

Running == {"run", "complete", "release"}
Over == {"returned", "threw", "refused", "crashed"}

MoveTo(c, l) == at' = [at EXCEPT ![c] = l]

\* A Redis command is answered, or it fails: the caller then sees an exception
\* and does not know whether the command took effect.
StoreAnswers == UNCHANGED failures
StoreFails ==
  shared /\ "redis" \in FaultKinds /\ failures < MaxFailures /\ failures' = failures + 1

Put(c, e) == store' = [store EXCEPT ![StoreOf(c)] = e]

\* The end of a turn of the loop: give up after the deadline, or sleep and read
\* the key again.
Backoff(c) == MoveTo(c, IF clock >= deadline[c] THEN "refused" ELSE "read")

-----------------------------------------------------------------------------
KeyInit ==
  /\ shared \in BOOLEAN
  /\ store = [p \in Server \cup {Redis} |-> Missing]
  /\ at = [c \in Caller |-> "new"]
  /\ deadline = [c \in Caller |-> 0]
  /\ answer = [c \in Caller |-> None]
  /\ clock = 0
  /\ failures = 0
  /\ reservedAt = [c \in Caller |-> 0]
  /\ doneAt = [c \in Caller |-> NotYet]
  /\ won = {}

StartProcess(c) ==
  /\ at[c] = "new"
  /\ clock <= Horizon
  /\ MoveTo(c, "read")
  /\ deadline' = [deadline EXCEPT ![c] = clock + WaitTimeout]
  /\ UNCHANGED <<shared, store, answer, clock, failures, reservedAt, doneAt, won>>

Read(c) ==
  /\ at[c] = "read"
  /\ \/ /\ Entry(StoreOf(c)).mark = "done"
        /\ StoreAnswers
        /\ MoveTo(c, "returned")
        /\ answer' = [answer EXCEPT ![c] = Entry(StoreOf(c)).value]
     \/ /\ Entry(StoreOf(c)).mark = "missing"
        /\ StoreAnswers
        /\ MoveTo(c, "reserve")
        /\ UNCHANGED answer
     \/ /\ Entry(StoreOf(c)).mark = "pending"
        /\ StoreAnswers
        /\ Backoff(c)
        /\ UNCHANGED answer
     \/ StoreFails /\ MoveTo(c, "threw") /\ UNCHANGED answer
  /\ UNCHANGED <<shared, store, deadline, clock, reservedAt, doneAt, won>>

\* Mutant: SET without NX.
CarelessReserve(c) ==
  /\ at[c] = "reserve"
  /\ StoreAnswers
  /\ Put(c, Pending)
  /\ MoveTo(c, "run")
  /\ reservedAt' = [reservedAt EXCEPT ![c] = clock]
  /\ UNCHANGED <<shared, deadline, answer, clock, doneAt, won>>

\* SET key pending PX ttl NX, or the check-and-set of the Map.
Reserve(c) ==
  /\ at[c] = "reserve"
  /\ \/ /\ Entry(StoreOf(c)) = Missing
        /\ StoreAnswers
        /\ Put(c, Pending)
        /\ MoveTo(c, "run")
        /\ reservedAt' = [reservedAt EXCEPT ![c] = clock]
     \/ /\ Entry(StoreOf(c)) # Missing
        /\ StoreAnswers
        /\ Backoff(c)
        /\ UNCHANGED <<store, reservedAt>>
     \/ /\ StoreFails
        /\ MoveTo(c, "threw")
        /\ \/ UNCHANGED store
           \/ Entry(StoreOf(c)) = Missing /\ Put(c, Pending)
        /\ UNCHANGED reservedAt
  /\ UNCHANGED <<shared, deadline, answer, clock, doneAt, won>>

\* fn succeeds, or it throws.
RunFn(c) ==
  /\ at[c] = "run"
  /\ \/ MoveTo(c, "complete") /\ won' = won \cup {c}
     \/ MoveTo(c, "release") /\ UNCHANGED won
  /\ UNCHANGED <<shared, store, deadline, answer, clock, failures, reservedAt, doneAt>>

\* The result replaces the marker.  A failure here goes the way of a failed fn.
Complete(c) ==
  /\ at[c] = "complete"
  /\ \/ /\ StoreAnswers
        /\ Put(c, Result(c, store[StoreOf(c)]))
        /\ MoveTo(c, "returned")
        /\ answer' = [answer EXCEPT ![c] = c]
        /\ doneAt' = [doneAt EXCEPT ![c] = clock]
     \/ /\ StoreFails
        /\ MoveTo(c, "release")
        /\ UNCHANGED store \/ Put(c, Result(c, store[StoreOf(c)]))
        /\ UNCHANGED <<answer, doneAt>>
  /\ UNCHANGED <<shared, deadline, clock, reservedAt, won>>

\* Mutant: the failed caller rethrows and leaves its marker.
NoRelease(c) ==
  /\ at[c] = "release"
  /\ StoreAnswers
  /\ MoveTo(c, "threw")
  /\ UNCHANGED <<shared, store, deadline, answer, clock, reservedAt, doneAt, won>>

\* DEL of whatever is there; the Map only gives up a pending marker.
ReleaseKey(c) ==
  /\ at[c] = "release"
  /\ MoveTo(c, "threw")
  /\ LET drop == IF shared \/ store[StoreOf(c)].mark = "pending"
                   THEN Put(c, Missing) ELSE UNCHANGED store
     IN  \/ StoreAnswers /\ drop
         \/ StoreFails /\ (UNCHANGED store \/ drop)
  /\ UNCHANGED <<shared, deadline, answer, clock, reservedAt, doneAt, won>>

\* A server dies with the calls it serves and the Map it keeps.
Crash(s) ==
  /\ "crash" \in FaultKinds /\ failures < MaxFailures
  /\ failures' = failures + 1
  /\ at' = [c \in Caller |-> IF Home[c] = s /\ at[c] \notin Over \cup {"new"}
                               THEN "crashed" ELSE at[c]]
  /\ store' = [store EXCEPT ![s] = Missing]
  /\ UNCHANGED <<shared, deadline, answer, clock, reservedAt, doneAt, won>>

TimePasses ==
  /\ clock < MaxTime
  /\ clock' = clock + 1
  /\ UNCHANGED <<shared, store, at, deadline, answer, failures, reservedAt, doneAt, won>>

KeyStep(c) == Read(c) \/ Reserve(c) \/ RunFn(c) \/ Complete(c) \/ ReleaseKey(c)

\* A run is over before its reservation lapses.  The shortest ttlMs in the
\* backend is a day; the requests that fn makes time out in seconds.
Prompt == \A c \in Caller : at[c] \in Running => clock < reservedAt[c] + KeyTtl

KeyNext ==
  \/ \E c \in Caller : StartProcess(c) \/ KeyStep(c)
  \/ \E s \in Server : Crash(s)
  \/ TimePasses /\ Prompt'

KeySpec == KeyInit /\ [][KeyNext]_keyVars

-----------------------------------------------------------------------------
KeyTypeOK ==
  /\ shared \in BOOLEAN
  /\ store \in [Server \cup {Redis} ->
       [mark: {"missing", "pending", "done"}, value: Caller \cup {None}, expires: Nat]]
  /\ at \in [Caller -> {"new", "read", "reserve"} \cup Running \cup Over]
  /\ deadline \in [Caller -> Nat]
  /\ answer \in [Caller -> Caller \cup {None}]
  /\ clock \in Nat /\ failures \in Nat
  /\ reservedAt \in [Caller -> Nat]
  /\ doneAt \in [Caller -> Nat \cup {NotYet}]
  /\ won \subseteq Caller

\* Two callers of the same store never run fn at the same time, through every
\* interleaving, lost reply, crash and lapse of a dead caller's marker.
OneRunner ==
  \A c, d \in Caller :
    c # d /\ StoreOf(c) = StoreOf(d) => ~(at[c] \in Running /\ at[d] \in Running)

\* A result that process has returned is remembered for its whole lifetime: no
\* caller of the same store gets to run fn before that, even as others fail,
\* release and crash (in memory, as long as no process was restarted).
ResultLasts ==
  [][\A c, d \in Caller :
       /\ doneAt[c] # NotYet /\ StoreOf(c) = StoreOf(d)
       /\ at[d] = "reserve" /\ at'[d] = "run"
       /\ shared \/ failures = 0
       => clock >= doneAt[c] + KeyTtl]_keyVars

\* Without faults a marker always has a caller behind it: no failed call leaves
\* the key reserved and its successors waiting for nobody.
NoOrphanMarker ==
  failures = 0 =>
    \A p \in Server \cup {Redis} :
      Entry(p).mark = "pending" =>
        \E c \in Caller : StoreOf(c) = p /\ at[c] \in Running

\* "Run fn at most once per key, even under concurrent callers ... If the winner
\* fails, it releases the reservation": fn succeeds for one caller of a store,
\* while no result lapses and no process is restarted.
AtMostOnce ==
  \A c, d \in won : StoreOf(c) = StoreOf(d) => c = d
=============================================================================
