-------------------------- MODULE CoordinationProofs --------------------------
(***************************************************************************)
(* Exclusion, ownership and the absence of orphans for the Redis lock, for *)
(* every number of callers and servers, every ttl, every number of retries *)
(* and of failures.  The argument is one invariant: the lock of a caller   *)
(* that is in its critical section and in time is still where it put it.   *)
(*                                                                         *)
(* That process never runs fn twice at the same time, that a result lasts  *)
(* its whole lifetime and that no marker is left behind without a fault,   *)
(* for every number of callers and servers, every ttl and any failures.    *)
(* OneRunner is not inductive: it needs that the entry of a caller that    *)
(* runs is still there (Guarded), which rests on runs being prompt; and    *)
(* ResultLasts needs that nobody runs while a result lasts (Lasting).      *)
(***************************************************************************)
EXTENDS MCCoordination, TLAPS

-----------------------------------------------------------------------------
(* The lock.                                                               *)
-----------------------------------------------------------------------------

\* A protected caller's token is in the place where it took the lock, with the
\* lifetime it was given, and in production that place is Redis.
Backed ==
  \A c \in Caller : pc[c] = "critical" =>
    /\ production => taken[c].place = Redis
    /\ now < taken[c].at + Ttl =>
         lock[taken[c].place] = [token |-> c, expires |-> taken[c].at + Ttl]

-----------------------------------------------------------------------------
(* Types.                                                                  *)

\* The initial state has the types.
LEMMA TypeInit == Init => TypeOK
BY ServersAssumption, LockAssumption DEF Init, TypeOK, Free, Place, Ended

\* A caller that takes a lock in some place.
LEMMA TakeTypes ==
  ASSUME TypeOK, NEW c \in Caller, NEW p \in Place,
         NEW l \in [Place -> [token: Caller \cup {Nobody}, expires: Nat]]
  PROVE  /\ [l EXCEPT ![p] = [token |-> c, expires |-> now + Ttl]]
              \in [Place -> [token: Caller \cup {Nobody}, expires: Nat]]
         /\ [taken EXCEPT ![c] = [place |-> p, at |-> now]]
              \in [Caller -> [place: Place, at: Nat]]
BY ServersAssumption, LockAssumption DEF TypeOK

\* A caller that did not get the lock.
LEMMA RetryEffect ==
  ASSUME TypeOK, NEW c \in Caller, Retry(c)
  PROVE  /\ pc' \in [Caller -> {"new", "acquire", "critical", "release"} \cup Ended]
         /\ attempt' \in [Caller -> Nat]
         /\ taken' = taken
         /\ pc'[c] \in {"acquire", "refused"}
         /\ \A d \in Caller \ {c} : pc'[d] = pc[d]
BY DEF TypeOK, Retry, Goto, Ended

\* A caller that gives its token back changes no other lock.
LEMMA DropEffect ==
  ASSUME TypeOK, NEW c \in Caller, NEW p \in Place, Drop(c, p)
  PROVE  /\ lock' \in [Place -> [token: Caller \cup {Nobody}, expires: Nat]]
         /\ \A q \in Place : lock'[q] # lock[q] => q = p /\ lock[q].token = c
BY DEF TypeOK, Drop, Free

\* What the failed SET leaves behind.
LEMMA StoredTypes ==
  ASSUME TypeOK, NEW c \in Caller
  PROVE  [lock EXCEPT ![Redis] = [token |-> c, expires |-> now + Ttl]]
           \in [Place -> [token: Caller \cup {Nobody}, expires: Nat]]
BY TakeTypes DEF TypeOK, Place

\* The failed SET, as one of its two outcomes in Redis and one of its three for
\* the caller.
LEMMA WithoutRedis ==
  ASSUME TypeOK, NEW c \in Caller, AcquireWithoutRedis(c)
  PROVE  \E l \in {lock, [lock EXCEPT ![Redis] =
                            [token |-> c, expires |-> now + Ttl]]} :
           /\ l # lock => ~Held(Redis)
           /\ \/ production /\ lock' = l /\ Goto(c, "unavailable")
                 /\ UNCHANGED <<attempt, taken>>
              \/ /\ ~production /\ ~Held(Home[c])
                 /\ lock' = [l EXCEPT ![Home[c]] =
                               [token |-> c, expires |-> now + Ttl]]
                 /\ taken' = [taken EXCEPT ![c] = [place |-> Home[c], at |-> now]]
                 /\ Goto(c, "critical") /\ UNCHANGED attempt
              \/ ~production /\ Held(Home[c]) /\ lock' = l /\ Retry(c)
BY DEF AcquireWithoutRedis

\* A server loses its faith in Redis.
LEMMA UnhealthyType ==
  ASSUME healthy \in [Server -> BOOLEAN], NEW s \in Server
  PROVE  [healthy EXCEPT ![s] = FALSE] \in [Server -> BOOLEAN]
BY Zenon

\* Every step keeps the types.
LEMMA TypeStep == TypeOK /\ [Next]_vars => TypeOK'
<1> SUFFICES ASSUME TypeOK, [Next]_vars
             PROVE  TypeOK'
  OBVIOUS
<1>1. ASSUME NEW c \in Caller, Start(c)
      PROVE  TypeOK'
  BY <1>1 DEF TypeOK, Start, Goto, Ended
<1>2. ASSUME NEW c \in Caller, AcquireInRedis(c)
      PROVE  TypeOK'
  <2>1. CASE Take(c, Redis) /\ SetHealth(c, TRUE)
    BY <1>2, <2>1, TakeTypes DEF TypeOK, AcquireInRedis, Take, SetHealth, Goto,
                                 Answered, Place
  <2>2. CASE Retry(c) /\ UNCHANGED <<lock, healthy>>
    BY <1>2, <2>2, RetryEffect DEF TypeOK, AcquireInRedis, Answered
  <2> QED
    BY <1>2, <2>1, <2>2 DEF AcquireInRedis
<1>3. ASSUME NEW c \in Caller, AcquireWithoutRedis(c)
      PROVE  TypeOK'
  <2>1. /\ production' \in BOOLEAN /\ now' \in Nat /\ faults' \in Nat
        /\ healthy' \in [Server -> BOOLEAN]
    <3>1. /\ UNCHANGED <<production, now>> /\ faults' = faults + 1
          /\ healthy' = [healthy EXCEPT ![Home[c]] = FALSE]
      BY <1>3 DEF AcquireWithoutRedis, Failed, SetHealth
    <3>2. healthy' \in [Server -> BOOLEAN]
      BY <3>1, UnhealthyType, ServersAssumption, LockAssumption DEF TypeOK
    <3> QED
      BY <3>1, <3>2 DEF TypeOK
  <2>2. PICK l \in {lock, [lock EXCEPT ![Redis] =
                             [token |-> c, expires |-> now + Ttl]]} :
           \/ lock' = l /\ Goto(c, "unavailable") /\ UNCHANGED <<attempt, taken>>
           \/ /\ lock' = [l EXCEPT ![Home[c]] =
                            [token |-> c, expires |-> now + Ttl]]
              /\ taken' = [taken EXCEPT ![c] = [place |-> Home[c], at |-> now]]
              /\ Goto(c, "critical") /\ UNCHANGED attempt
           \/ lock' = l /\ Retry(c)
    BY <1>3, WithoutRedis
  <2>3. l \in [Place -> [token: Caller \cup {Nobody}, expires: Nat]]
    BY <2>2, StoredTypes DEF TypeOK
  <2>4. CASE lock' = l /\ Goto(c, "unavailable") /\ UNCHANGED <<attempt, taken>>
    BY <2>1, <2>3, <2>4 DEF TypeOK, Goto, Ended
  <2>5. CASE /\ lock' = [l EXCEPT ![Home[c]] =
                            [token |-> c, expires |-> now + Ttl]]
             /\ taken' = [taken EXCEPT ![c] = [place |-> Home[c], at |-> now]]
             /\ Goto(c, "critical") /\ UNCHANGED attempt
    <3>1. Home[c] \in Place
      BY ServersAssumption, LockAssumption DEF Place
    <3> QED
      BY <2>1, <2>3, <2>5, <3>1, TakeTypes DEF TypeOK, Goto, Ended
  <2>6. CASE lock' = l /\ Retry(c)
    BY <2>1, <2>3, <2>6, RetryEffect DEF TypeOK
  <2> QED
    BY <2>2, <2>4, <2>5, <2>6
<1>4. ASSUME NEW c \in Caller, Leave(c)
      PROVE  TypeOK'
  BY <1>4 DEF TypeOK, Leave, Goto, Ended
<1>5. ASSUME NEW c \in Caller, Release(c)
      PROVE  TypeOK'
  <2>1. Home[c] \in Place /\ Redis \in Place
    BY ServersAssumption, LockAssumption DEF Place
  <2>2. PICK P \in {{Redis}, {Home[c]}, {Redis, Home[c]}} :
          lock' = [p \in Place |-> IF p \in P /\ lock[p].token = c
                                     THEN Free ELSE lock[p]]
    <3>1. lock = [p \in Place |-> lock[p]]
      BY DEF TypeOK
    <3>2. ASSUME NEW q \in Place, Drop(c, q)
          PROVE  lock' = [p \in Place |-> IF p \in {q} /\ lock[p].token = c
                                            THEN Free ELSE lock[p]]
      BY <3>1, <3>2 DEF Drop
    <3> QED
      BY <1>5, <2>1, <3>2 DEF Release
  <2>3. /\ healthy' = healthy \/ healthy' = [healthy EXCEPT ![Home[c]] = FALSE]
        /\ faults' = faults \/ faults' = faults + 1
    BY <1>5 DEF Release, SetHealth, Failed, Answered
  <2>4. lock' \in [Place -> [token: Caller \cup {Nobody}, expires: Nat]]
    BY <2>2 DEF TypeOK, Free
  <2>5. healthy' \in [Server -> BOOLEAN]
    BY <2>3, UnhealthyType, ServersAssumption, LockAssumption DEF TypeOK
  <2>6. faults' \in Nat
    BY <2>3 DEF TypeOK
  <2> QED
    BY <1>5, <2>4, <2>5, <2>6 DEF TypeOK, Release, Goto, Ended
<1>6. ASSUME Tick
      PROVE  TypeOK'
  BY <1>6 DEF TypeOK, Tick
<1>7. CASE UNCHANGED vars
  BY <1>7 DEF TypeOK, vars
<1> QED
  BY <1>1, <1>2, <1>3, <1>4, <1>5, <1>6, <1>7 DEF Next, Step

-----------------------------------------------------------------------------
(* Exclusion.                                                              *)

\* No lock is taken at the start.
LEMMA BackedInit == Init => Backed
BY DEF Init, Backed

\* Every step keeps the protected callers' tokens where they are.
LEMMA BackedStep == TypeOK /\ Backed /\ [Next]_vars => Backed'
<1> SUFFICES ASSUME TypeOK, Backed, [Next]_vars
             PROVE  Backed'
  OBVIOUS
<1>0. ASSUME NEW c \in Caller, pc'[c] \notin {"critical"}, UNCHANGED <<production, now>>,
             taken' = taken, \A d \in Caller \ {c} : pc'[d] = pc[d],
             \A p \in Place : lock'[p] # lock[p] => ~Held(p) \/ lock[p].token = c
      PROVE  Backed'
  <2> SUFFICES ASSUME NEW d \in Caller, pc'[d] = "critical"
               PROVE  /\ production' => taken'[d].place = Redis
                      /\ now' < taken'[d].at + Ttl =>
                           lock'[taken'[d].place]
                             = [token |-> d, expires |-> taken'[d].at + Ttl]
    BY DEF Backed
  <2>1. d # c /\ pc[d] = "critical"
    BY <1>0
  <2>2. taken[d].place \in Place
    BY DEF TypeOK
  <2>3. d # Nobody
    BY ServersAssumption, LockAssumption
  <2> QED
    BY <1>0, <2>1, <2>2, <2>3 DEF Backed, Held
<1>t. ASSUME NEW c \in Caller, NEW p \in Place, UNCHANGED <<production, now>>,
             production => p = Redis, ~Held(p),
             lock'[p] = [token |-> c, expires |-> now + Ttl],
             \A q \in Place : lock'[q] # lock[q] => ~Held(q),
             taken' = [taken EXCEPT ![c] = [place |-> p, at |-> now]],
             \A d \in Caller \ {c} : pc'[d] = pc[d]
      PROVE  Backed'
  <2> SUFFICES ASSUME NEW d \in Caller, pc'[d] = "critical"
               PROVE  /\ production' => taken'[d].place = Redis
                      /\ now' < taken'[d].at + Ttl =>
                           lock'[taken'[d].place]
                             = [token |-> d, expires |-> taken'[d].at + Ttl]
    BY DEF Backed
  <2>1. CASE d = c
    BY <1>t, <2>1 DEF TypeOK
  <2>2. CASE d # c
    <3>1. pc[d] = "critical" /\ taken'[d] = taken[d] /\ taken[d].place \in Place
      BY <1>t, <2>2 DEF TypeOK
    <3>2. d # Nobody
      BY ServersAssumption, LockAssumption
    <3> QED
      BY <1>t, <3>1, <3>2 DEF Backed, Held
  <2> QED
    BY <2>1, <2>2
<1>1. ASSUME NEW c \in Caller, Start(c)
      PROVE  Backed'
  <2>1. pc'[c] = "acquire" /\ \A d \in Caller \ {c} : pc'[d] = pc[d]
    BY <1>1 DEF TypeOK, Start, Goto
  <2> QED
    BY <1>0, <1>1, <2>1 DEF Start
<1>2. ASSUME NEW c \in Caller, AcquireInRedis(c)
      PROVE  Backed'
  <2>1. CASE ~Held(Redis) /\ Take(c, Redis)
    <3>1. /\ Redis \in Place
          /\ lock'[Redis] = [token |-> c, expires |-> now + Ttl]
          /\ \A q \in Place : lock'[q] # lock[q] => q = Redis
          /\ \A d \in Caller \ {c} : pc'[d] = pc[d]
      BY <2>1 DEF TypeOK, Place, Take, Goto
    <3> QED
      BY <1>2, <1>t, <2>1, <3>1 DEF Take, AcquireInRedis
  <2>2. CASE Retry(c) /\ UNCHANGED lock
    BY <1>0, <1>2, <2>2, RetryEffect DEF AcquireInRedis
  <2> QED
    BY <1>2, <2>1, <2>2 DEF AcquireInRedis
<1>3. ASSUME NEW c \in Caller, AcquireWithoutRedis(c)
      PROVE  Backed'
  <2>1. Home[c] \in Place /\ Redis \in Place /\ Home[c] # Redis
    BY ServersAssumption, LockAssumption DEF Place
  <2>2. PICK l \in {lock, [lock EXCEPT ![Redis] =
                             [token |-> c, expires |-> now + Ttl]]} :
           /\ l # lock => ~Held(Redis)
           /\ \/ production /\ lock' = l /\ Goto(c, "unavailable")
                 /\ UNCHANGED <<attempt, taken>>
              \/ /\ ~production /\ ~Held(Home[c])
                 /\ lock' = [l EXCEPT ![Home[c]] =
                               [token |-> c, expires |-> now + Ttl]]
                 /\ taken' = [taken EXCEPT ![c] = [place |-> Home[c], at |-> now]]
                 /\ Goto(c, "critical") /\ UNCHANGED attempt
              \/ ~production /\ Held(Home[c]) /\ lock' = l /\ Retry(c)
    BY <1>3, WithoutRedis
  <2>3. \A q \in Place : l[q] # lock[q] => q = Redis /\ ~Held(Redis)
    BY <2>1, <2>2 DEF TypeOK
  <2>4. UNCHANGED <<production, now>>
    BY <1>3 DEF AcquireWithoutRedis
  <2>5. CASE lock' = l /\ Goto(c, "unavailable") /\ UNCHANGED taken
    <3>1. pc'[c] = "unavailable" /\ \A d \in Caller \ {c} : pc'[d] = pc[d]
      BY <2>5 DEF TypeOK, Goto
    <3> QED
      BY <1>0, <2>3, <2>4, <2>5, <3>1
  <2>6. CASE /\ ~production /\ ~Held(Home[c])
             /\ lock' = [l EXCEPT ![Home[c]] =
                           [token |-> c, expires |-> now + Ttl]]
             /\ taken' = [taken EXCEPT ![c] = [place |-> Home[c], at |-> now]]
             /\ Goto(c, "critical")
    <3>1. l \in [Place -> [token: Caller \cup {Nobody}, expires: Nat]]
      BY <2>2, StoredTypes DEF TypeOK
    <3>2. /\ lock'[Home[c]] = [token |-> c, expires |-> now + Ttl]
          /\ \A q \in Place : lock'[q] # l[q] => q = Home[c]
      BY <2>1, <2>6, <3>1
    <3>3. \A q \in Place : lock'[q] # lock[q] => ~Held(q)
      BY <2>3, <2>6, <3>2
    <3>4. \A d \in Caller \ {c} : pc'[d] = pc[d]
      BY <2>6 DEF TypeOK, Goto
    <3> QED
      BY <1>t, <2>1, <2>4, <2>6, <3>2, <3>3, <3>4
  <2>7. CASE lock' = l /\ Retry(c)
    BY <1>0, <2>3, <2>4, <2>7, RetryEffect
  <2> QED
    BY <2>2, <2>5, <2>6, <2>7
<1>4. ASSUME NEW c \in Caller, Leave(c)
      PROVE  Backed'
  <2>1. pc'[c] = "release" /\ \A d \in Caller \ {c} : pc'[d] = pc[d]
    BY <1>4 DEF TypeOK, Leave, Goto
  <2> QED
    BY <1>0, <1>4, <2>1 DEF Leave
<1>5. ASSUME NEW c \in Caller, Release(c)
      PROVE  Backed'
  <2>1. pc'[c] = "done" /\ \A d \in Caller \ {c} : pc'[d] = pc[d]
    BY <1>5 DEF TypeOK, Release, Goto
  <2>2. \A p \in Place : lock'[p] # lock[p] => lock[p].token = c
    <3>1. Home[c] \in Place /\ Redis \in Place
      BY ServersAssumption, LockAssumption DEF Place
    <3> QED
      BY <1>5, <3>1, DropEffect DEF Release
  <2> QED
    BY <1>0, <1>5, <2>1, <2>2 DEF Release
<1>6. ASSUME Tick
      PROVE  Backed'
  <2>1. /\ UNCHANGED <<production, lock, pc, taken>> /\ now' = now + 1
    BY <1>6 DEF Tick
  <2>2. \A c \in Caller : taken[c].at \in Nat
    BY DEF TypeOK
  <2>3. now \in Nat /\ Ttl \in Nat
    BY ServersAssumption, LockAssumption DEF TypeOK
  <2>4. ASSUME NEW c \in Caller, now + 1 < taken[c].at + Ttl
        PROVE  now < taken[c].at + Ttl
    BY <2>2, <2>3, <2>4
  <2> QED
    BY <2>1, <2>4 DEF Backed
<1>7. CASE UNCHANGED vars
  BY <1>7 DEF Backed, vars
<1> QED
  BY <1>1, <1>2, <1>3, <1>4, <1>5, <1>6, <1>7 DEF Next, Step

\* Two protected callers with one place would own the same token.
LEMMA BackedExcludes == TypeOK /\ Backed => Exclusive
<1> SUFFICES ASSUME TypeOK, Backed, NEW c \in Caller, NEW d \in Caller, c # d,
                    Protected(c), Protected(d)
             PROVE  ~production /\ taken[c].place # taken[d].place
  BY DEF Exclusive
<1>1. taken[c].place # taken[d].place
  <2>1. /\ lock[taken[c].place] = [token |-> c, expires |-> taken[c].at + Ttl]
        /\ lock[taken[d].place] = [token |-> d, expires |-> taken[d].at + Ttl]
    BY DEF Backed, Protected
  <2>2. lock[taken[c].place].token = c /\ lock[taken[d].place].token = d
    BY <2>1
  <2> QED
    BY <2>2
<1> QED
  BY <1>1 DEF Backed, Protected

\* Callers with live locks exclude each other in production, and elsewhere
\* within a store.
THEOREM ExclusiveAlways == Spec => []Exclusive
<1>1. TypeOK /\ Backed /\ [Next]_vars => TypeOK' /\ Backed'
  BY TypeStep, BackedStep
<1> QED
  BY TypeInit, BackedInit, <1>1, BackedExcludes, PTL DEF Spec

-----------------------------------------------------------------------------
(* Ownership.                                                              *)

\* A live lock changes by its own caller's release alone.
LEMMA OwnStep ==
  ASSUME TypeOK, [Next]_vars, NEW p \in Place, Held(p), lock'[p] # lock[p]
  PROVE  \E c \in Caller : lock[p].token = c /\ pc[c] = "release" /\ pc'[c] = "done"
<1>1. ASSUME NEW c \in Caller, AcquireInRedis(c)
      PROVE  lock'[p] = lock[p]
  BY <1>1 DEF AcquireInRedis, Take, TypeOK, Place
<1>2. ASSUME NEW c \in Caller, AcquireWithoutRedis(c)
      PROVE  lock'[p] = lock[p]
  <2>1. Home[c] \in Place /\ Redis \in Place
    BY ServersAssumption, LockAssumption DEF Place
  <2>2. p = Home[c] => Held(Home[c])
    OBVIOUS
  <2>3. PICK l \in {lock, [lock EXCEPT ![Redis] =
                             [token |-> c, expires |-> now + Ttl]]} :
           /\ l # lock => ~Held(Redis)
           /\ \/ lock' = l
              \/ /\ ~Held(Home[c])
                 /\ lock' = [l EXCEPT ![Home[c]] =
                               [token |-> c, expires |-> now + Ttl]]
    BY <1>2, WithoutRedis
  <2>4. l[p] = lock[p]
    BY <2>1, <2>3 DEF TypeOK
  <2>5. l \in [Place -> [token: Caller \cup {Nobody}, expires: Nat]]
    BY <2>3, StoredTypes DEF TypeOK
  <2> QED
    BY <2>2, <2>3, <2>4, <2>5
<1>3. ASSUME NEW c \in Caller, Release(c)
      PROVE  lock[p].token = c /\ pc[c] = "release" /\ pc'[c] = "done"
  <2>1. Home[c] \in Place /\ Redis \in Place
    BY ServersAssumption, LockAssumption DEF Place
  <2>2. lock[p].token = c
    BY <1>3, <2>1, DropEffect DEF Release
  <2> QED
    BY <1>3, <2>2 DEF Release, Goto, TypeOK
<1> QED
  BY <1>1, <1>2, <1>3 DEF Next, Step, Start, Leave, Tick, vars

\* Nobody ends another caller's live lock.
THEOREM OwnReleaseAlways == Spec => OwnRelease
<1>1. TypeOK /\ [Next]_vars =>
        [\A p \in Place :
           Held(p) /\ lock'[p] # lock[p] =>
             \E c \in Caller : lock[p].token = c /\ pc[c] = "release"
                               /\ pc'[c] = "done"]_vars
  BY OwnStep
<1> QED
  BY TypeInit, TypeStep, <1>1, PTL DEF Spec, OwnRelease

-----------------------------------------------------------------------------
(* Orphans.                                                                *)

\* While no command failed the locks are all in Redis, a held one belongs to a
\* caller at work, and the server of a caller at work believes Redis healthy,
\* so that its release goes there.
AtWork(c) == pc[c] \in {"critical", "release"}

Orderly ==
  faults = 0 =>
    /\ \A s \in Server : lock[s] = Free
    /\ \A c \in Caller : AtWork(c) => healthy[Home[c]]
    /\ Held(Redis) => AtWork(lock[Redis].token)

\* Nobody is at work at the start, and nothing is locked.
LEMMA OrderlyInit == Init => Orderly
BY ServersAssumption, LockAssumption DEF Init, Orderly, AtWork, Held, Free, Place

\* A server regains its faith in Redis, and no server loses it.
LEMMA HealthyEffect ==
  ASSUME healthy \in [Server -> BOOLEAN], NEW s \in Server,
         healthy' = [healthy EXCEPT ![s] = TRUE]
  PROVE  healthy'[s] /\ \A q \in Server : healthy[q] => healthy'[q]
BY Zenon

\* A step in which no command failed keeps the locks in order.
LEMMA OrderlyStep == TypeOK /\ Orderly /\ [Next]_vars => Orderly'
<1> SUFFICES ASSUME TypeOK, Orderly, [Next]_vars, faults' = 0
             PROVE  Orderly'
  BY DEF Orderly
<1>0. /\ Redis \in Place /\ Server \subseteq Place /\ Redis \notin Server
      /\ \A c \in Caller : Home[c] \in Server
  BY ServersAssumption, LockAssumption DEF Place
<1>n. \A n \in Nat : n + 1 # 0
  OBVIOUS
<1>1. ASSUME NEW c \in Caller, Start(c)
      PROVE  Orderly'
  BY <1>1 DEF TypeOK, Orderly, Start, Goto, AtWork, Held
<1>2. ASSUME NEW c \in Caller, AcquireInRedis(c)
      PROVE  Orderly'
  <2>1. faults = 0 /\ UNCHANGED now /\ pc[c] = "acquire"
    BY <1>2 DEF AcquireInRedis, Answered
  <2>2. CASE Take(c, Redis) /\ SetHealth(c, TRUE)
    <3>1. healthy'[Home[c]] /\ \A q \in Server : healthy[q] => healthy'[q]
      BY <2>2, <1>0, HealthyEffect DEF SetHealth, TypeOK
    <3>2. /\ \A s \in Server : lock'[s] = lock[s]
          /\ lock'[Redis].token = c /\ pc'[c] = "critical"
          /\ \A d \in Caller \ {c} : pc'[d] = pc[d]
      BY <1>0, <2>2 DEF Take, Goto, TypeOK
    <3>3. ASSUME NEW d \in Caller, AtWork(d)'
          PROVE  healthy'[Home[d]]
      BY <1>0, <2>1, <3>1, <3>2, <3>3 DEF Orderly, AtWork
    <3> QED
      BY <2>1, <3>2, <3>3 DEF Orderly, AtWork
  <2>3. CASE Retry(c) /\ UNCHANGED <<lock, healthy>>
    <3>1. /\ pc'[c] \in {"acquire", "refused"}
          /\ \A d \in Caller \ {c} : pc'[d] = pc[d]
      BY <2>3, RetryEffect
    <3>2. \A d \in Caller : AtWork(d) => AtWork(d)'
      BY <2>1, <3>1 DEF AtWork
    <3>3. \A d \in Caller : AtWork(d)' => AtWork(d)
      BY <3>1 DEF AtWork
    <3>4. Held(Redis) => lock[Redis].token \in Caller
      BY <1>0 DEF Held, TypeOK
    <3>5. Held(Redis)' => Held(Redis)
      BY <2>1, <2>3 DEF Held
    <3>6. ASSUME Held(Redis)'
          PROVE  AtWork(lock[Redis].token)'
      <4>1. lock[Redis].token \in Caller /\ AtWork(lock[Redis].token)
        BY <2>1, <3>4, <3>5, <3>6 DEF Orderly
      <4> QED
        BY <2>3, <3>2, <4>1 DEF AtWork
    <3> QED
      BY <2>1, <2>3, <3>3, <3>6 DEF Orderly, AtWork
  <2> QED
    BY <1>2, <2>2, <2>3 DEF AcquireInRedis
<1>3. ASSUME NEW c \in Caller, AcquireWithoutRedis(c)
      PROVE  FALSE
  BY <1>3, <1>n DEF AcquireWithoutRedis, Failed, TypeOK
<1>4. ASSUME NEW c \in Caller, Leave(c)
      PROVE  Orderly'
  BY <1>4 DEF TypeOK, Orderly, Leave, Goto, AtWork, Held
<1>5. ASSUME NEW c \in Caller, Release(c)
      PROVE  Orderly'
  <2>1. faults = 0 /\ UNCHANGED <<now, healthy>> /\ pc[c] = "release"
    BY <1>5, <1>n DEF Release, Answered, Failed, TypeOK
  <2>2. healthy[Home[c]]
    BY <2>1 DEF Orderly, AtWork
  <2>3. Drop(c, Redis)
    BY <1>5, <1>n, <2>2 DEF Release, Failed, TypeOK
  <2>4. pc'[c] = "done" /\ \A d \in Caller \ {c} : pc'[d] = pc[d]
    BY <1>5 DEF Release, Goto, TypeOK
  <2>5. /\ \A s \in Server : lock'[s] = lock[s]
        /\ lock'[Redis] = IF lock[Redis].token = c THEN Free ELSE lock[Redis]
    BY <1>0, <2>3 DEF Drop, TypeOK
  <2>6. Held(Redis)' => Held(Redis) /\ lock'[Redis] = lock[Redis]
                        /\ lock[Redis].token \in Caller \ {c}
    BY <1>0, <2>1, <2>5 DEF Held, Free, TypeOK
  <2> QED
    BY <2>1, <2>4, <2>5, <2>6 DEF Orderly, AtWork
<1>6. ASSUME Tick
      PROVE  Orderly'
  <2>1. UNCHANGED <<lock, healthy, pc>> /\ faults = 0 /\ now' = now + 1
    BY <1>6 DEF Tick
  <2>2. Held(Redis)' => Held(Redis)
    BY <1>0, <2>1 DEF Held, TypeOK
  <2> QED
    BY <2>1, <2>2 DEF Orderly, AtWork
<1>7. CASE UNCHANGED vars
  BY <1>7 DEF vars, Orderly, AtWork, Held
<1> QED
  BY <1>1, <1>2, <1>3, <1>4, <1>5, <1>6, <1>7 DEF Next, Step

\* What is locked in an undisturbed system is in use.
THEOREM NoOrphanLockAlways == Spec => []NoOrphanLock
<1>1. TypeOK /\ Orderly => NoOrphanLock
  <2> SUFFICES ASSUME TypeOK, Orderly, faults = 0, NEW p \in Place, Held(p)
               PROVE  pc[lock[p].token] \in {"critical", "release"}
    BY DEF NoOrphanLock
  <2>1. p = Redis
    BY DEF Orderly, Held, Free, Place
  <2> QED
    BY <2>1 DEF Orderly, AtWork
<1>2. TypeOK /\ Orderly /\ [Next]_vars => TypeOK' /\ Orderly'
  BY TypeStep, OrderlyStep
<1> QED
  BY TypeInit, OrderlyInit, <1>1, <1>2, PTL DEF Spec

-----------------------------------------------------------------------------
(* Idempotency keys.                                                       *)
-----------------------------------------------------------------------------

USE ServersAssumption, IdempotencyAssumption

\* The entry of a caller at work outlives its run.
Guarded ==
  \A c \in Caller : at[c] \in Running =>
    /\ reservedAt[c] <= clock /\ clock < reservedAt[c] + KeyTtl
    /\ store[StoreOf(c)].mark # "missing"
    /\ store[StoreOf(c)].expires >= reservedAt[c] + KeyTtl

\* A result was stored, is not due to lapse, and no Map was lost.
Lasts(c) == doneAt[c] # NotYet /\ (shared \/ failures = 0) /\ clock < doneAt[c] + KeyTtl

\* While a result lasts it is there, and nobody is at work.
Lasting ==
  \A c \in Caller : Lasts(c) =>
    /\ store[StoreOf(c)].mark = "done" /\ store[StoreOf(c)].expires >= doneAt[c] + KeyTtl
    /\ \A d \in Caller : StoreOf(d) = StoreOf(c) => at[d] \notin Running

Safe == KeyTypeOK /\ OneRunner /\ Guarded /\ Lasting

-----------------------------------------------------------------------------
(* Types.                                                                  *)

\* The initial state has the types.
LEMMA KeyTypeInit == KeyInit => KeyTypeOK
BY DEF KeyInit, KeyTypeOK, Missing, NotYet, Running, Over

\* A caller keeps its entry in one of the stores.
LEMMA PlaceType ==
  ASSUME NEW c \in Caller
  PROVE  StoreOf(c) \in Server \cup {Redis}
BY DEF StoreOf

\* The entries that callers write.
LEMMA EntryTypes ==
  ASSUME KeyTypeOK, NEW c \in Caller, NEW old
  PROVE  {Missing, Pending, Result(c, old)} \subseteq
           [mark: {"missing", "pending", "done"}, value: Caller \cup {None}, expires: Nat]
BY DEF KeyTypeOK, Missing, Pending, Result

\* Writing an entry keeps the type of the stores.
LEMMA PutType ==
  ASSUME KeyTypeOK, NEW c \in Caller, NEW e, Put(c, e),
         e \in [mark: {"missing", "pending", "done"}, value: Caller \cup {None}, expires: Nat]
  PROVE  store' \in [Server \cup {Redis} ->
           [mark: {"missing", "pending", "done"}, value: Caller \cup {None}, expires: Nat]]
BY PlaceType DEF KeyTypeOK, Put

\* Every step keeps the types.
LEMMA KeyTypeStep == KeyTypeOK /\ [KeyNext]_keyVars => KeyTypeOK'
<1> SUFFICES ASSUME KeyTypeOK, [KeyNext]_keyVars
             PROVE  KeyTypeOK'
  OBVIOUS
<1>0. StoreFails => failures' \in Nat
  BY DEF StoreFails, KeyTypeOK
<1>1. ASSUME NEW c \in Caller, StartProcess(c)
      PROVE  KeyTypeOK'
  BY <1>1 DEF KeyTypeOK, StartProcess, MoveTo, Running, Over
<1>2. ASSUME NEW c \in Caller, Read(c)
      PROVE  KeyTypeOK'
  <2>1. StoreOf(c) \in Server \cup {Redis}
    BY PlaceType
  <2>2. Entry(StoreOf(c)).value \in Caller \cup {None}
    BY <2>1 DEF Entry, Missing, KeyTypeOK
  <2>3. failures' \in Nat
    BY <1>0, <1>2 DEF Read, StoreAnswers, KeyTypeOK
  <2>4. at' \in [Caller -> {"new", "read", "reserve"} \cup Running \cup Over]
    BY <1>2 DEF Read, MoveTo, Backoff, KeyTypeOK, Over
  <2>5. answer' \in [Caller -> Caller \cup {None}]
    BY <1>2, <2>2 DEF Read, KeyTypeOK
  <2> QED
    BY <1>2, <2>3, <2>4, <2>5 DEF Read, KeyTypeOK
<1>3. ASSUME NEW c \in Caller, Reserve(c)
      PROVE  KeyTypeOK'
  <2>1. failures' \in Nat
    BY <1>0, <1>3 DEF Reserve, StoreAnswers, KeyTypeOK
  <2>2. at' \in [Caller -> {"new", "read", "reserve"} \cup Running \cup Over]
    BY <1>3 DEF Reserve, MoveTo, Backoff, KeyTypeOK, Running, Over
  <2>3. store' \in [Server \cup {Redis} ->
          [mark: {"missing", "pending", "done"}, value: Caller \cup {None}, expires: Nat]]
    BY <1>3, EntryTypes, PutType DEF Reserve, KeyTypeOK
  <2>4. reservedAt' \in [Caller -> Nat]
    BY <1>3 DEF Reserve, KeyTypeOK
  <2> QED
    BY <1>3, <2>1, <2>2, <2>3, <2>4 DEF Reserve, KeyTypeOK
<1>4. ASSUME NEW c \in Caller, RunFn(c)
      PROVE  KeyTypeOK'
  BY <1>4 DEF RunFn, KeyTypeOK, MoveTo, Running
<1>5. ASSUME NEW c \in Caller, Complete(c)
      PROVE  KeyTypeOK'
  <2>1. failures' \in Nat
    BY <1>0, <1>5 DEF Complete, StoreAnswers, KeyTypeOK
  <2>2. at' \in [Caller -> {"new", "read", "reserve"} \cup Running \cup Over]
    BY <1>5 DEF Complete, MoveTo, KeyTypeOK, Running, Over
  <2>3. store' \in [Server \cup {Redis} ->
          [mark: {"missing", "pending", "done"}, value: Caller \cup {None}, expires: Nat]]
    BY <1>5, EntryTypes, PutType DEF Complete, KeyTypeOK
  <2>4. answer' \in [Caller -> Caller \cup {None}] /\ doneAt' \in [Caller -> Nat \cup {NotYet}]
    <3>1. CASE UNCHANGED <<answer, doneAt>>
      BY <3>1 DEF KeyTypeOK
    <3>2. CASE /\ answer' = [answer EXCEPT ![c] = c]
               /\ doneAt' = [doneAt EXCEPT ![c] = clock]
      BY <3>2 DEF KeyTypeOK
    <3> QED
      BY <1>5, <3>1, <3>2 DEF Complete
  <2> QED
    BY <1>5, <2>1, <2>2, <2>3, <2>4 DEF Complete, KeyTypeOK
<1>6. ASSUME NEW c \in Caller, ReleaseKey(c)
      PROVE  KeyTypeOK'
  <2>1. failures' \in Nat
    BY <1>0, <1>6 DEF ReleaseKey, StoreAnswers, KeyTypeOK
  <2>2. store' = store \/ Put(c, Missing)
    BY <1>6 DEF ReleaseKey
  <2>3. store' \in [Server \cup {Redis} ->
          [mark: {"missing", "pending", "done"}, value: Caller \cup {None}, expires: Nat]]
    BY <2>2, EntryTypes, PutType DEF KeyTypeOK
  <2> QED
    BY <1>6, <2>1, <2>3 DEF ReleaseKey, MoveTo, KeyTypeOK, Over
<1>7. ASSUME NEW s \in Server, Crash(s)
      PROVE  KeyTypeOK'
  BY <1>7 DEF Crash, KeyTypeOK, Missing, Over
<1>8. CASE TimePasses /\ Prompt'
  BY <1>8 DEF TimePasses, KeyTypeOK
<1>9. CASE UNCHANGED keyVars
  BY <1>9 DEF keyVars, KeyTypeOK
<1> QED
  BY <1>1, <1>2, <1>3, <1>4, <1>5, <1>6, <1>7, <1>8, <1>9 DEF KeyNext, KeyStep

-----------------------------------------------------------------------------
(* One runner.                                                             *)

\* Nobody runs in the initial state.
LEMMA SafeInit == KeyInit => Safe
BY KeyTypeInit DEF KeyInit, Safe, OneRunner, Guarded, Lasting, Lasts, NotYet, Running

\* Where the key reads as free, nobody is at work and no result lasts.
LEMMA FreeKey ==
  ASSUME Safe, NEW c \in Caller, Entry(StoreOf(c)) = Missing,
         NEW d \in Caller, StoreOf(d) = StoreOf(c)
  PROVE  at[d] \notin Running /\ ~Lasts(d)
<1>1. store[StoreOf(c)].expires \in Nat /\ clock \in Nat /\ KeyTtl \in Nat
      /\ reservedAt[d] \in Nat /\ doneAt[d] \in Nat \cup {NotYet}
  BY PlaceType DEF Safe, KeyTypeOK
<1>2. store[StoreOf(c)].expires > clock => store[StoreOf(c)].mark = "missing"
  BY DEF Entry, Missing
<1> QED
  BY <1>1, <1>2 DEF Safe, Guarded, Lasting, Lasts, NotYet

\* A step that starts no run, stores no result, and leaves the entries of those
\* still at work and the results that last.
LEMMA Harmless ==
  ASSUME Safe, KeyTypeOK',
         UNCHANGED <<shared, reservedAt, doneAt>>,
         \A d \in Caller : at'[d] \in Running =>
           /\ at[d] \in Running
           /\ reservedAt[d] <= clock' /\ clock' < reservedAt[d] + KeyTtl
           /\ store'[StoreOf(d)].mark # "missing"
           /\ store'[StoreOf(d)].expires >= reservedAt[d] + KeyTtl,
         \A d \in Caller : Lasts(d)' =>
           Lasts(d) /\ store'[StoreOf(d)] = store[StoreOf(d)]
  PROVE  Safe'
<1>1. \A d \in Caller : StoreOf(d)' = StoreOf(d)
  BY DEF StoreOf
<1>2. OneRunner'
  BY <1>1 DEF Safe, OneRunner
<1>3. Guarded'
  BY <1>1 DEF Guarded
<1>4. Lasting'
  BY <1>1 DEF Safe, Lasting
<1> QED
  BY <1>2, <1>3, <1>4 DEF Safe

\* One that leaves the store and the clock alone, too.
LEMMA Quiet ==
  ASSUME Safe, KeyTypeOK',
         UNCHANGED <<shared, store, clock, reservedAt, doneAt>>,
         failures' = 0 => failures = 0,
         \A d \in Caller : at'[d] \in Running => at[d] \in Running
  PROVE  Safe'
<1>1. \A d \in Caller : at'[d] \in Running =>
        /\ reservedAt[d] <= clock' /\ clock' < reservedAt[d] + KeyTtl
        /\ store'[StoreOf(d)].mark # "missing"
        /\ store'[StoreOf(d)].expires >= reservedAt[d] + KeyTtl
  BY DEF Safe, Guarded
<1>2. \A d \in Caller : Lasts(d)' => Lasts(d)
  BY DEF Lasts
<1> QED
  BY <1>1, <1>2, Harmless

\* Or writes an entry where nobody else is at work and no result lasts.
LEMMA Written ==
  ASSUME Safe, KeyTypeOK',
         NEW c \in Caller, NEW e, Put(c, e),
         UNCHANGED <<shared, clock, reservedAt, doneAt>>,
         failures' = 0 => failures = 0,
         \A d \in Caller : at'[d] \in Running => at[d] \in Running,
         \A d \in Caller \ {c} : StoreOf(d) = StoreOf(c) => at[d] \notin Running,
         \A d \in Caller : StoreOf(d) = StoreOf(c) => ~Lasts(d),
         at'[c] \in Running => e.mark # "missing" /\ e.expires >= reservedAt[c] + KeyTtl
  PROVE  Safe'
<1>1. /\ store'[StoreOf(c)] = e
      /\ \A d \in Caller : StoreOf(d) # StoreOf(c) => store'[StoreOf(d)] = store[StoreOf(d)]
  BY PlaceType DEF Put, Safe, KeyTypeOK
<1>2. ASSUME NEW d \in Caller, at'[d] \in Running
      PROVE  /\ reservedAt[d] <= clock' /\ clock' < reservedAt[d] + KeyTtl
             /\ store'[StoreOf(d)].mark # "missing"
             /\ store'[StoreOf(d)].expires >= reservedAt[d] + KeyTtl
  BY <1>1, <1>2 DEF Safe, Guarded
<1>3. ASSUME NEW d \in Caller, Lasts(d)'
      PROVE  Lasts(d) /\ store'[StoreOf(d)] = store[StoreOf(d)]
  BY <1>1, <1>3 DEF Lasts
<1> QED
  BY <1>2, <1>3, Harmless

\* A failed Redis command is counted.
LEMMA FailedCounts == KeyTypeOK /\ (StoreFails \/ StoreAnswers) => (failures' = 0 => failures = 0)
BY DEF KeyTypeOK, StoreFails, StoreAnswers

\* Every step keeps the invariant.
LEMMA SafeStep == Safe /\ [KeyNext]_keyVars => Safe'
<1> SUFFICES ASSUME Safe, [KeyNext]_keyVars
             PROVE  Safe'
  OBVIOUS
<1>0. KeyTypeOK /\ KeyTypeOK'
  BY KeyTypeStep DEF Safe
<1>1. ASSUME NEW c \in Caller, StartProcess(c)
      PROVE  Safe'
  BY <1>0, <1>1, Quiet DEF StartProcess, MoveTo, KeyTypeOK, Running
<1>2. ASSUME NEW c \in Caller, Read(c)
      PROVE  Safe'
  <2>1. /\ UNCHANGED <<shared, store, clock, reservedAt, doneAt>>
        /\ StoreFails \/ StoreAnswers
        /\ \A d \in Caller : at'[d] \in Running => at[d] \in Running
    BY <1>0, <1>2 DEF Read, MoveTo, Backoff, KeyTypeOK, Running
  <2> QED
    BY <1>0, <2>1, FailedCounts, Quiet
<1>3. ASSUME NEW c \in Caller, Reserve(c)
      PROVE  Safe'
  <2>0. UNCHANGED <<shared, clock, doneAt>> /\ (StoreFails \/ StoreAnswers)
    BY <1>3 DEF Reserve
  <2>1. CASE /\ Entry(StoreOf(c)) = Missing /\ StoreAnswers /\ Put(c, Pending)
             /\ MoveTo(c, "run") /\ reservedAt' = [reservedAt EXCEPT ![c] = clock]
    <3>1. /\ at'[c] = "run" /\ reservedAt'[c] = clock
          /\ \A d \in Caller \ {c} : at'[d] = at[d] /\ reservedAt'[d] = reservedAt[d]
      BY <1>0, <2>1 DEF MoveTo, KeyTypeOK
    <3>2. /\ store'[StoreOf(c)] = Pending
          /\ \A d \in Caller : StoreOf(d) # StoreOf(c) => store'[StoreOf(d)] = store[StoreOf(d)]
      BY <1>0, <2>1, PlaceType DEF Put, KeyTypeOK
    <3>3. \A d \in Caller : StoreOf(d) = StoreOf(c) => at[d] \notin Running /\ ~Lasts(d)
      BY <2>1, FreeKey
    <3>4. \A d \in Caller : StoreOf(d)' = StoreOf(d) /\ (Lasts(d)' <=> Lasts(d))
      BY <2>0, <2>1 DEF StoreOf, Lasts, StoreAnswers
    <3>5. OneRunner'
      BY <3>1, <3>3, <3>4 DEF OneRunner, Safe
    <3>6. Guarded'
      <4>1. Pending.mark # "missing" /\ Pending.expires >= clock + KeyTtl
            /\ clock <= clock /\ clock < clock + KeyTtl
        BY <1>0 DEF Pending, KeyTypeOK
      <4>2. ASSUME NEW d \in Caller, at'[d] \in Running
            PROVE  /\ reservedAt'[d] <= clock /\ clock < reservedAt'[d] + KeyTtl
                   /\ store'[StoreOf(d)].mark # "missing"
                   /\ store'[StoreOf(d)].expires >= reservedAt'[d] + KeyTtl
        <5>1. CASE d = c
          BY <3>1, <3>2, <4>1, <5>1
        <5>2. CASE d # c
          BY <3>1, <3>2, <3>3, <4>2, <5>2 DEF Safe, Guarded
        <5> QED
          BY <5>1, <5>2
      <4> QED
        BY <2>0, <3>4, <4>2 DEF Guarded
    <3>7. Lasting'
      <4>1. ASSUME NEW d \in Caller, Lasts(d)
            PROVE  /\ StoreOf(d) # StoreOf(c) /\ store'[StoreOf(d)] = store[StoreOf(d)]
                   /\ \A e \in Caller : StoreOf(e) = StoreOf(d) => at'[e] \notin Running
        BY <3>1, <3>2, <3>3, <4>1 DEF Safe, Lasting
      <4> QED
        BY <2>0, <3>4, <4>1 DEF Safe, Lasting
    <3> QED
      BY <1>0, <3>5, <3>6, <3>7 DEF Safe
  <2>2. CASE ~MoveTo(c, "run") /\ UNCHANGED reservedAt
    <3>1. \A d \in Caller : at'[d] \in Running => at[d] \in Running
      BY <1>0, <1>3, <2>2 DEF Reserve, MoveTo, Backoff, KeyTypeOK, Running
    <3>2. CASE UNCHANGED store
      BY <1>0, <2>0, <2>2, <3>1, <3>2, FailedCounts, Quiet
    <3>3. CASE Entry(StoreOf(c)) = Missing /\ Put(c, Pending)
      <4>1. \A d \in Caller : StoreOf(d) = StoreOf(c) => at[d] \notin Running /\ ~Lasts(d)
        BY <3>3, FreeKey
      <4> QED
        BY <1>0, <2>0, <2>2, <3>1, <3>3, <4>1, FailedCounts, Written
    <3> QED
      BY <1>3, <2>2, <3>2, <3>3 DEF Reserve
  <2> QED
    <3>1. CASE MoveTo(c, "run")
      <4>1. ~MoveTo(c, "threw") /\ ~Backoff(c)
        BY <1>0, <3>1 DEF MoveTo, Backoff, KeyTypeOK
      <4> QED
        BY <1>3, <2>1, <4>1 DEF Reserve
    <3>2. CASE ~MoveTo(c, "run")
      BY <1>3, <2>2, <3>2 DEF Reserve
    <3> QED
      BY <3>1, <3>2
<1>4. ASSUME NEW c \in Caller, RunFn(c)
      PROVE  Safe'
  BY <1>0, <1>4, Quiet DEF RunFn, MoveTo, KeyTypeOK, Running
<1>5. ASSUME NEW c \in Caller, Complete(c)
      PROVE  Safe'
  <2>0. /\ UNCHANGED <<shared, clock, reservedAt>> /\ (StoreFails \/ StoreAnswers)
        /\ at[c] \in Running
        /\ at'[c] \in {"returned", "release"} /\ \A d \in Caller \ {c} : at'[d] = at[d]
    BY <1>0, <1>5 DEF Complete, MoveTo, KeyTypeOK, Running
  <2>1. \A d \in Caller : StoreOf(d) = StoreOf(c) => ~Lasts(d) /\ (d # c => at[d] \notin Running)
    BY <2>0 DEF Safe, Lasting, OneRunner
  <2>2. /\ Result(c, store[StoreOf(c)]).mark = "done"
        /\ Result(c, store[StoreOf(c)]).expires = clock + KeyTtl
        /\ clock + KeyTtl >= reservedAt[c] + KeyTtl
    BY <1>0, <2>0 DEF Result, Safe, Guarded, KeyTypeOK
  <2>3. CASE /\ StoreAnswers /\ Put(c, Result(c, store[StoreOf(c)])) /\ MoveTo(c, "returned")
             /\ doneAt' = [doneAt EXCEPT ![c] = clock]
    <3>1. /\ at'[c] = "returned" /\ doneAt'[c] = clock
          /\ \A d \in Caller \ {c} : doneAt'[d] = doneAt[d]
      BY <1>0, <2>3 DEF MoveTo, KeyTypeOK
    <3>2. /\ store'[StoreOf(c)] = Result(c, store[StoreOf(c)])
          /\ \A d \in Caller : StoreOf(d) # StoreOf(c) => store'[StoreOf(d)] = store[StoreOf(d)]
      BY <1>0, <2>3, PlaceType DEF Put, KeyTypeOK
    <3>3. \A d \in Caller : /\ StoreOf(d)' = StoreOf(d)
                            /\ d # c => (Lasts(d)' <=> Lasts(d))
      BY <2>0, <2>3, <3>1 DEF StoreOf, Lasts, StoreAnswers
    <3>4. OneRunner'
      BY <2>0, <3>1, <3>3 DEF OneRunner, Safe, Running
    <3>5. Guarded'
      <4>1. ASSUME NEW d \in Caller, at'[d] \in Running
            PROVE  at[d] \in Running /\ store'[StoreOf(d)] = store[StoreOf(d)]
        BY <2>0, <2>1, <3>1, <3>2, <4>1 DEF Running
      <4> QED
        BY <2>0, <3>3, <4>1 DEF Safe, Guarded
    <3>6. Lasting'
      <4>1. ASSUME NEW d \in Caller, Lasts(d)'
            PROVE  /\ store'[StoreOf(d)].mark = "done"
                   /\ store'[StoreOf(d)].expires >= doneAt'[d] + KeyTtl
                   /\ \A e \in Caller : StoreOf(e) = StoreOf(d) => at'[e] \notin Running
        <5>1. CASE d = c
          <6>1. \A e \in Caller : StoreOf(e) = StoreOf(d) => at'[e] \notin Running
            BY <2>0, <2>1, <3>1, <5>1 DEF Running
          <6> QED
            BY <1>0, <2>2, <3>1, <3>2, <5>1, <6>1 DEF KeyTypeOK
        <5>2. CASE d # c
          <6>1. Lasts(d) /\ StoreOf(d) # StoreOf(c)
            BY <2>1, <3>3, <4>1, <5>2
          <6> QED
            BY <2>0, <3>1, <3>2, <5>2, <6>1 DEF Safe, Lasting
        <5> QED
          BY <5>1, <5>2
      <4> QED
        BY <3>3, <4>1 DEF Lasting
    <3> QED
      BY <1>0, <3>4, <3>5, <3>6 DEF Safe
  <2>4. CASE /\ StoreFails /\ UNCHANGED doneAt
             /\ UNCHANGED store \/ Put(c, Result(c, store[StoreOf(c)]))
    <3>1. \A d \in Caller : at'[d] \in Running => at[d] \in Running
      BY <2>0
    <3>2. CASE UNCHANGED store
      BY <1>0, <2>0, <2>4, <3>1, <3>2, FailedCounts, Quiet
    <3>3. CASE Put(c, Result(c, store[StoreOf(c)]))
      BY <1>0, <2>0, <2>1, <2>2, <2>4, <3>1, <3>3, FailedCounts, Written
    <3> QED
      BY <2>4, <3>2, <3>3
  <2> QED
    BY <1>5, <2>3, <2>4 DEF Complete
<1>6. ASSUME NEW c \in Caller, ReleaseKey(c)
      PROVE  Safe'
  <2>0. /\ UNCHANGED <<shared, clock, reservedAt, doneAt>> /\ (StoreFails \/ StoreAnswers)
        /\ at[c] \in Running
        /\ at'[c] = "threw" /\ \A d \in Caller \ {c} : at'[d] = at[d]
        /\ UNCHANGED store \/ Put(c, Missing)
    BY <1>0, <1>6 DEF ReleaseKey, MoveTo, KeyTypeOK, Running
  <2>1. \A d \in Caller : StoreOf(d) = StoreOf(c) => ~Lasts(d) /\ (d # c => at[d] \notin Running)
    BY <2>0 DEF Safe, Lasting, OneRunner
  <2>2. at'[c] \notin Running
    BY <2>0 DEF Running
  <2>3. \A d \in Caller : at'[d] \in Running => at[d] \in Running
    BY <2>0
  <2>4. CASE UNCHANGED store
    BY <1>0, <2>0, <2>3, <2>4, FailedCounts, Quiet
  <2>5. CASE Put(c, Missing)
    BY <1>0, <2>0, <2>1, <2>2, <2>3, <2>5, FailedCounts, Written
  <2> QED
    BY <2>0, <2>4, <2>5
<1>7. ASSUME NEW s \in Server, Crash(s)
      PROVE  Safe'
  <2>1. /\ UNCHANGED <<shared, clock, reservedAt, doneAt>> /\ failures' # 0
        /\ \A p \in Server \cup {Redis} : p # s => store'[p] = store[p]
    BY <1>0, <1>7 DEF Crash, KeyTypeOK
  <2>2. ASSUME NEW d \in Caller, at'[d] \in Running
        PROVE  at[d] \in Running /\ store'[StoreOf(d)] = store[StoreOf(d)]
    <3>1. at[d] \in Running /\ Home[d] # s
      BY <1>0, <1>7, <2>2 DEF Crash, Over, Running, KeyTypeOK
    <3> QED
      BY <2>1, <3>1, PlaceType DEF StoreOf
  <2>3. ASSUME NEW d \in Caller, Lasts(d)'
        PROVE  Lasts(d) /\ store'[StoreOf(d)] = store[StoreOf(d)]
    <3>1. shared /\ Lasts(d)
      BY <2>1, <2>3 DEF Lasts
    <3> QED
      BY <2>1, <3>1, PlaceType DEF StoreOf
  <2>4. \A d \in Caller : at'[d] \in Running =>
          /\ at[d] \in Running
          /\ reservedAt[d] <= clock' /\ clock' < reservedAt[d] + KeyTtl
          /\ store'[StoreOf(d)].mark # "missing"
          /\ store'[StoreOf(d)].expires >= reservedAt[d] + KeyTtl
    BY <2>1, <2>2 DEF Safe, Guarded
  <2> QED
    BY <1>0, <2>1, <2>3, <2>4, Harmless
<1>8. CASE TimePasses /\ Prompt'
  <2>1. /\ UNCHANGED <<shared, store, at, failures, reservedAt, doneAt>> /\ clock' = clock + 1
    BY <1>8 DEF TimePasses
  <2>2. \A d \in Caller : at'[d] \in Running =>
          /\ at[d] \in Running
          /\ reservedAt[d] <= clock' /\ clock' < reservedAt[d] + KeyTtl
          /\ store'[StoreOf(d)].mark # "missing"
          /\ store'[StoreOf(d)].expires >= reservedAt[d] + KeyTtl
    BY <1>0, <1>8, <2>1 DEF Prompt, Safe, Guarded, KeyTypeOK
  <2>3. \A d \in Caller : Lasts(d)' => Lasts(d)
    BY <1>0, <2>1 DEF Lasts, KeyTypeOK, NotYet
  <2> QED
    BY <1>0, <2>1, <2>2, <2>3, Harmless
<1>9. CASE UNCHANGED keyVars
  BY <1>0, <1>9, Quiet DEF keyVars
<1> QED
  BY <1>1, <1>2, <1>3, <1>4, <1>5, <1>6, <1>7, <1>8, <1>9 DEF KeyNext, KeyStep

-----------------------------------------------------------------------------
(* The theorems.                                                           *)

\* Two callers of one store never run fn at the same time.
THEOREM OneRunnerAlways == KeySpec => []OneRunner
<1>1. Safe => OneRunner
  BY DEF Safe
<1>2. KeyInit => Safe
  BY SafeInit
<1>3. Safe /\ [KeyNext]_keyVars => Safe'
  BY SafeStep
<1> QED
  BY <1>1, <1>2, <1>3, PTL DEF KeySpec

\* A result that was returned is not run again in its lifetime.
THEOREM ResultLastsAlways == KeySpec => ResultLasts
<1>1. ASSUME Safe, [KeyNext]_keyVars
      PROVE  [\A c, d \in Caller :
                /\ doneAt[c] # NotYet /\ StoreOf(c) = StoreOf(d)
                /\ at[d] = "reserve" /\ at'[d] = "run"
                /\ shared \/ failures = 0
                => clock >= doneAt[c] + KeyTtl]_keyVars
  <2>1. ASSUME NEW c \in Caller, NEW d \in Caller,
               StoreOf(c) = StoreOf(d), at[d] = "reserve", at'[d] = "run"
        PROVE  ~Lasts(c)
    <3>1. ASSUME NEW e \in Caller,
                 StartProcess(e) \/ Read(e) \/ RunFn(e) \/ Complete(e) \/ ReleaseKey(e)
          PROVE  FALSE
      BY <1>1, <2>1, <3>1 DEF Safe, KeyTypeOK, StartProcess, Read, RunFn, Complete, ReleaseKey, MoveTo, Backoff
    <3>2. ASSUME NEW e \in Caller, Reserve(e)
          PROVE  ~Lasts(c)
      <4>1. e = d /\ Entry(StoreOf(d)) = Missing
        BY <1>1, <2>1, <3>2 DEF Safe, KeyTypeOK, Reserve, MoveTo, Backoff
      <4> QED
        BY <1>1, <2>1, <4>1, FreeKey
    <3>3. ASSUME NEW s \in Server, Crash(s)
          PROVE  FALSE
      BY <1>1, <2>1, <3>3 DEF Crash, Safe, KeyTypeOK
    <3>4. ~(TimePasses /\ Prompt') /\ ~UNCHANGED keyVars
      BY <2>1 DEF TimePasses, keyVars
    <3> QED
      BY <1>1, <3>1, <3>2, <3>3, <3>4 DEF KeyNext, KeyStep
  <2>2. \A c \in Caller : doneAt[c] \in Nat \cup {NotYet} /\ clock \in Nat /\ KeyTtl \in Nat
    BY <1>1 DEF Safe, KeyTypeOK
  <2> QED
    BY <2>1, <2>2 DEF Lasts, NotYet
<1>2. KeyInit => Safe
  BY SafeInit
<1>3. Safe /\ [KeyNext]_keyVars => Safe'
  BY SafeStep
<1> QED
  BY <1>1, <1>2, <1>3, PTL DEF KeySpec, ResultLasts

\* A marker without a fault has its caller.
LEMMA MarkerStep ==
  ASSUME KeyTypeOK, NoOrphanMarker, [KeyNext]_keyVars
  PROVE  NoOrphanMarker'
<1> SUFFICES ASSUME failures' = 0, NEW p \in Server \cup {Redis}, Entry(p)'.mark = "pending"
             PROVE  \E c \in Caller : StoreOf(c)' = p /\ at'[c] \in Running
  BY DEF NoOrphanMarker
<1>0. /\ failures = 0 /\ ~StoreFails /\ UNCHANGED shared
      /\ \A c \in Caller : StoreOf(c)' = StoreOf(c)
  BY DEF KeyTypeOK, StoreFails, KeyNext, KeyStep, StartProcess, Read, Reserve, RunFn, Complete,
         ReleaseKey, Crash,
         TimePasses, keyVars, StoreAnswers, StoreOf
<1>1. ASSUME UNCHANGED store, clock' >= clock,
             \A c \in Caller : at[c] \in Running => at'[c] \in Running
      PROVE  \E c \in Caller : StoreOf(c)' = p /\ at'[c] \in Running
  <2>1. Entry(p).mark = "pending"
    <3>1. clock' \in Int /\ clock \in Nat /\ store[p].expires \in Nat
      BY KeyTypeStep DEF KeyTypeOK
    <3> QED
      BY <1>1, <3>1 DEF Entry, Missing
  <2> QED
    BY <1>0, <1>1, <2>1 DEF NoOrphanMarker
<1>2. ASSUME NEW c \in Caller, NEW e, Put(c, e), UNCHANGED clock,
             StoreOf(c) = p => e.mark # "pending" \/ at'[c] \in Running,
             \A d \in Caller \ {c} : at'[d] = at[d]
      PROVE  \E d \in Caller : StoreOf(d)' = p /\ at'[d] \in Running
  <2>1. CASE StoreOf(c) = p
    <3>1. store'[p] = e
      BY <1>2, <2>1 DEF Put, KeyTypeOK
    <3>2. e.mark = "pending"
      BY <3>1 DEF Entry, Missing
    <3> QED
      BY <1>0, <1>2, <2>1, <3>2
  <2>2. CASE StoreOf(c) # p
    <3>1. store'[p] = store[p]
      BY <1>2, <2>2 DEF Put, KeyTypeOK
    <3>2. Entry(p).mark = "pending"
      BY <1>2, <3>1 DEF Entry, Missing
    <3> QED
      BY <1>0, <1>2, <2>2, <3>2 DEF NoOrphanMarker
  <2> QED
    BY <2>1, <2>2
<1>3. ASSUME NEW c \in Caller, StartProcess(c) \/ Read(c) \/ RunFn(c)
      PROVE  \E d \in Caller : StoreOf(d)' = p /\ at'[d] \in Running
  <2>1. \A d \in Caller : at[d] \in Running => at'[d] \in Running
    BY <1>3 DEF StartProcess, Read, RunFn, MoveTo, Backoff, Running, KeyTypeOK
  <2>2. UNCHANGED store /\ clock' >= clock
    BY <1>3 DEF StartProcess, Read, RunFn, KeyTypeOK
  <2> QED
    BY <1>1, <2>1, <2>2
<1>4. ASSUME NEW c \in Caller, Reserve(c)
      PROVE  \E d \in Caller : StoreOf(d)' = p /\ at'[d] \in Running
  <2>1. UNCHANGED clock /\ clock' >= clock /\ at[c] \notin Running
        /\ \A d \in Caller \ {c} : at'[d] = at[d]
    BY <1>4 DEF Reserve, MoveTo, Backoff, KeyTypeOK, Running
  <2>2. CASE Put(c, Pending) /\ MoveTo(c, "run")
    <3>1. at'[c] \in Running
      BY <2>2 DEF MoveTo, KeyTypeOK, Running
    <3> QED
      BY <1>2, <2>1, <2>2, <3>1
  <2>3. CASE UNCHANGED store
    BY <1>1, <2>1, <2>3
  <2> QED
    BY <1>0, <1>4, <2>2, <2>3 DEF Reserve
<1>5. ASSUME NEW c \in Caller, Complete(c)
      PROVE  \E d \in Caller : StoreOf(d)' = p /\ at'[d] \in Running
  <2>1. /\ Put(c, Result(c, store[StoreOf(c)])) /\ UNCHANGED clock
        /\ \A d \in Caller \ {c} : at'[d] = at[d]
    BY <1>0, <1>5 DEF Complete, MoveTo, KeyTypeOK
  <2> QED
    BY <1>2, <2>1 DEF Result
<1>6. ASSUME NEW c \in Caller, ReleaseKey(c)
      PROVE  \E d \in Caller : StoreOf(d)' = p /\ at'[d] \in Running
  <2>1. UNCHANGED clock /\ \A d \in Caller \ {c} : at'[d] = at[d]
    BY <1>6 DEF ReleaseKey, MoveTo, KeyTypeOK
  <2>2. CASE Put(c, Missing)
    BY <1>2, <2>1, <2>2 DEF Missing
  <2>3. CASE UNCHANGED store /\ store[StoreOf(c)].mark # "pending"
    <3>1. Entry(p).mark = "pending" /\ store[p].mark = "pending"
      BY <2>1, <2>3 DEF Entry, Missing
    <3> QED
      BY <1>0, <2>1, <2>3, <3>1 DEF NoOrphanMarker
  <2> QED
    BY <1>0, <1>6, <2>2, <2>3 DEF ReleaseKey
<1>7. ASSUME NEW s \in Server, Crash(s)
      PROVE  FALSE
  BY <1>7 DEF Crash, KeyTypeOK
<1>8. CASE TimePasses /\ Prompt'
  BY <1>1, <1>8 DEF TimePasses, KeyTypeOK
<1>9. CASE UNCHANGED keyVars
  BY <1>1, <1>9 DEF keyVars, KeyTypeOK
<1> QED
  BY <1>3, <1>4, <1>5, <1>6, <1>7, <1>8, <1>9 DEF KeyNext, KeyStep

\* Without faults no marker is left behind.
THEOREM NoOrphanMarkerAlways == KeySpec => []NoOrphanMarker
<1>1. KeyInit => KeyTypeOK /\ NoOrphanMarker
  BY KeyTypeInit DEF KeyInit, NoOrphanMarker, Entry, Missing
<1>2. KeyTypeOK /\ NoOrphanMarker /\ [KeyNext]_keyVars => KeyTypeOK' /\ NoOrphanMarker'
  BY KeyTypeStep, MarkerStep
<1> QED
  BY <1>1, <1>2, PTL DEF KeySpec

-----------------------------------------------------------------------------
(* The two side by side.                                                   *)
-----------------------------------------------------------------------------

\* Each of the two runs by its own specification, and so keeps what it promises.
THEOREM CoordinationSafe ==
  CoordinationSpec =>
    /\ [](Exclusive /\ NoOrphanLock /\ OneRunner /\ NoOrphanMarker)
    /\ OwnRelease /\ ResultLasts
<1>1. CoordinationInit => Init /\ KeyInit
  BY DEF CoordinationInit
<1>2. [CoordinationNext]_<<part, vars, keyVars>> => [Next]_vars /\ [KeyNext]_keyVars
  BY DEF CoordinationNext
<1>3. CoordinationSpec => Spec /\ KeySpec
  BY <1>1, <1>2, PTL DEF CoordinationSpec, Spec, KeySpec
<1> QED
  BY <1>3, ExclusiveAlways, NoOrphanLockAlways, OneRunnerAlways, NoOrphanMarkerAlways,
     OwnReleaseAlways, ResultLastsAlways, PTL

=============================================================================
