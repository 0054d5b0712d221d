--------------------------------- MODULE Lock ---------------------------------
(***************************************************************************)
(* LockService (backend/src/common/lock): withLock takes a lock under one  *)
(* key in Redis, retries while it is held, runs a critical section and     *)
(* releases.  A lock lapses after its ttl even if its holder is still at   *)
(* work.  When a Redis command fails, a service in production refuses to   *)
(* work, and one in development falls back to a Map of its own process.    *)
(*                                                                         *)
(* Every await is a step boundary.  A Redis command may fail before or     *)
(* after it took effect.  The token of a lock is drawn anew by acquireLock *)
(* and kept in at most one place, so that it is named by the caller.       *)
(* requireDistributed, which no caller in the backend asks for, has the    *)
(* effect of production on one call and is left out.                       *)
(***************************************************************************)
EXTENDS Servers

CONSTANTS
  Nobody,         \* no holder
  Ttl,            \* ttlMs
  RetryCount,     \* retryCount
  MaxFaults       \* bound: the Redis commands that fail

ASSUME LockAssumption ==
  /\ Nobody \notin Caller
  /\ Ttl \in Nat \ {0}
  /\ {RetryCount, MaxFaults} \subseteq Nat

VARIABLES
  production,     \* failClosedWithoutRedis, and no allowInMemoryFallback
  lock,           \* the lock of the key in each place: its token and lifetime
  healthy,        \* redisHealthy of each server
  pc,             \* where each caller is in withLock
  attempt,        \* the attempts a caller has made
  now,            \* the clock of Redis and of the servers
  faults,         \* how many Redis commands failed
  taken           \* ghost: where and when a caller got its lock

vars == <<production, lock, healthy, pc, attempt, now, faults, taken>>

Place == Server \cup {Redis}
Free == [token |-> Nobody, expires |-> 0]
Ended == {"done", "refused", "unavailable"}

Held(p) == lock[p].token # Nobody /\ lock[p].expires > now

Goto(c, l) == pc' = [pc EXCEPT ![c] = l]
SetHealth(c, b) == healthy' = [healthy EXCEPT ![Home[c]] = b]

Answered == UNCHANGED faults
Failed == faults < MaxFaults /\ faults' = faults + 1

\* The token is stored with its lifetime and the caller goes on.
Take(c, p) ==
  /\ lock' = [lock EXCEPT ![p] = [token |-> c, expires |-> now + Ttl]]
  /\ taken' = [taken EXCEPT ![c] = [place |-> p, at |-> now]]
  /\ Goto(c, "critical")
  /\ UNCHANGED attempt

\* Mutant: a caller retries for as long as it takes.
RetryForever(c) == UNCHANGED <<pc, attempt, taken>>

\* acquireLock returned null: try again after a delay, or give up.
Retry(c) ==
  /\ attempt' = [attempt EXCEPT ![c] = @ + 1]
  /\ Goto(c, IF attempt[c] < RetryCount THEN "acquire" ELSE "refused")
  /\ UNCHANGED taken

\* Mutant: whoever releases takes the lock that is there.
DropAny(c, p) == lock' = [lock EXCEPT ![p] = Free]

\* The release script, or its image on the Map: delete our own token only.
Drop(c, p) ==
  lock' = [lock EXCEPT ![p] = IF lock[p].token = c THEN Free ELSE lock[p]]

-----------------------------------------------------------------------------
Init ==
  /\ production \in BOOLEAN
  /\ lock = [p \in Place |-> Free]
  /\ healthy \in [Server -> BOOLEAN]    \* the ping of onModuleInit
  /\ pc = [c \in Caller |-> "new"]
  /\ attempt = [c \in Caller |-> 0]
  /\ now = 0
  /\ faults = 0
  /\ taken = [c \in Caller |-> [place |-> Redis, at |-> 0]]

Start(c) ==
  /\ pc[c] = "new"
  /\ Goto(c, "acquire")
  /\ UNCHANGED <<production, lock, healthy, attempt, now, faults, taken>>

\* Mutant: SET without NX.
CarelessAcquire(c) ==
  /\ pc[c] = "acquire"
  /\ Answered
  /\ Take(c, Redis)
  /\ SetHealth(c, TRUE)
  /\ UNCHANGED <<production, now>>

\* Mutant: a success does not tell that Redis is back.
UnnoticedAcquire(c) ==
  /\ pc[c] = "acquire"
  /\ Answered
  /\ \/ ~Held(Redis) /\ Take(c, Redis) /\ UNCHANGED healthy
     \/ Held(Redis) /\ Retry(c) /\ UNCHANGED <<lock, healthy>>
  /\ UNCHANGED <<production, now>>

\* SET lock token PX ttl NX is answered.
AcquireInRedis(c) ==
  /\ pc[c] = "acquire"
  /\ Answered
  /\ \/ ~Held(Redis) /\ Take(c, Redis) /\ SetHealth(c, TRUE)
     \/ Held(Redis) /\ Retry(c) /\ UNCHANGED <<lock, healthy>>
  /\ UNCHANGED <<production, now>>

\* The SET fails, and may have stored the token: fail closed, or use the Map.
AcquireWithoutRedis(c) ==
  LET s == Home[c]
      stored == [lock EXCEPT ![Redis] = [token |-> c, expires |-> now + Ttl]]
      After(l) ==
        \/ /\ production
           /\ lock' = l
           /\ Goto(c, "unavailable")
           /\ UNCHANGED <<attempt, taken>>
        \/ /\ ~production /\ ~Held(s)
           /\ lock' = [l EXCEPT ![s] = [token |-> c, expires |-> now + Ttl]]
           /\ taken' = [taken EXCEPT ![c] = [place |-> s, at |-> now]]
           /\ Goto(c, "critical")
           /\ UNCHANGED attempt
        \/ /\ ~production /\ Held(s)
           /\ lock' = l
           /\ Retry(c)
  IN  /\ pc[c] = "acquire"
      /\ Failed
      /\ SetHealth(c, FALSE)
      /\ After(lock) \/ (~Held(Redis) /\ After(stored))
      /\ UNCHANGED <<production, now>>

\* fn returns or throws.
Leave(c) ==
  /\ pc[c] = "critical"
  /\ Goto(c, "release")
  /\ UNCHANGED <<production, lock, healthy, attempt, now, faults, taken>>

\* releaseLock asks Redis only while this server believes it healthy.
Release(c) ==
  LET s == Home[c]
  IN  /\ pc[c] = "release"
      /\ Goto(c, "done")
      /\ \/ healthy[s] /\ Answered /\ Drop(c, Redis) /\ UNCHANGED healthy
         \/ ~healthy[s] /\ Answered /\ Drop(c, s) /\ UNCHANGED healthy
         \/ /\ healthy[s] /\ Failed
            /\ SetHealth(c, FALSE)
            /\ \/ Drop(c, s)
               \/ lock' = [p \in Place |-> IF p \in {s, Redis} /\ lock[p].token = c
                                             THEN Free ELSE lock[p]]
      /\ UNCHANGED <<production, attempt, now, taken>>

Tick ==
  /\ now < MaxTime
  /\ now' = now + 1
  /\ UNCHANGED <<production, lock, healthy, pc, attempt, faults, taken>>

Step(c) ==
  AcquireInRedis(c) \/ AcquireWithoutRedis(c) \/ Leave(c) \/ Release(c)

Next == (\E c \in Caller : Start(c) \/ Step(c)) \/ Tick

Spec == Init /\ [][Next]_vars

-----------------------------------------------------------------------------
TypeOK ==
  /\ production \in BOOLEAN
  /\ lock \in [Place -> [token: Caller \cup {Nobody}, expires: Nat]]
  /\ healthy \in [Server -> BOOLEAN]
  /\ pc \in [Caller -> {"new", "acquire", "critical", "release"} \cup Ended]
  /\ attempt \in [Caller -> Nat]
  /\ now \in Nat
  /\ faults \in Nat
  /\ taken \in [Caller -> [place: Place, at: Nat]]

\* A caller that is in the critical section and whose lock has not lapsed.
Protected(c) == pc[c] = "critical" /\ now < taken[c].at + Ttl

\* In production two callers are never in the critical section together within
\* the lifetimes of their locks, whatever Redis commands fail and whoever else
\* lets its lock lapse; in development the same holds within one store.
Exclusive ==
  \A c, d \in Caller :
    c # d /\ Protected(c) /\ Protected(d) =>
      ~production /\ taken[c].place # taken[d].place

\* Nobody ends a lock that is somebody else's: a live token goes away by the
\* release of its own caller, even when that caller comes late and the lock has
\* passed to others meanwhile.
OwnRelease ==
  [][\A p \in Place :
       Held(p) /\ lock'[p] # lock[p] =>
         \E c \in Caller : lock[p].token = c /\ pc[c] = "release" /\ pc'[c] = "done"]_vars

\* Unless a Redis command failed, what is locked is locked by a caller that is
\* still at work: no lock outlives its critical section.
NoOrphanLock ==
  faults = 0 =>
    \A p \in Place : Held(p) => pc[lock[p].token] \in {"critical", "release"}
=============================================================================
