---------------------------- MODULE ContractProofs ----------------------------
(***************************************************************************)
(* Proofs about the contracts that share no state with the escrow, and     *)
(* about the escrow's call limiter.                                        *)
(*                                                                         *)
(* The limiter, for any accounts, limits and length of a day.  The         *)
(* invariant sums the log: a user's window carries what its counter says,  *)
(* the day before a window lies within one earlier window, and so no day   *)
(* carries more than two of them.                                          *)
(*                                                                         *)
(* Governance, for any accounts, delays and numbers of proposals and       *)
(* timelocked actions.  The invariant says that a proposal's counter is    *)
(* the number of different people who approved it, that the signatures     *)
(* asked for can be gathered, and that a queued change of the admin waits  *)
(* as long as it must.                                                     *)
(*                                                                         *)
(* dispute_resolution, for any arbiters, times, ratings and bounds: the    *)
(* counters of a dispute are its voters, a ruling is final whichever of    *)
(* the three ways it came about, and an appeal is decided by a bench none  *)
(* of whom voted by head.                                                  *)
(*                                                                         *)
(* property_registry: the backend's table never says what the ledger does  *)
(* not, for any properties, people and number of overlapping requests.     *)
(* The invariant says of the row each request is about to store what the   *)
(* property asks of the rows stored, and that the ledger takes nothing     *)
(* back.                                                                   *)
(*                                                                         *)
(* At the end, the four side by side, as they are model-checked.           *)
(***************************************************************************)
EXTENDS MCContracts, SumProofs

-----------------------------------------------------------------------------
(* The call limiter.                                                       *)
-----------------------------------------------------------------------------

Ledgers == 0..MaxTime

LastOfDay(t) == IF t + Day <= MaxTime THEN t + Day - 1 ELSE MaxTime

\* The calls from one ledger to another, and the ledger before one.
Within(l, a, b) == SumOver(l, a..b)
Before(t) == t - 1

\* What the log and the counter of a user say together.  The calls of the window
\* are the count; the day before the window, wherever it began, lies within one
\* earlier window; and no day carries more than two windows let through.
Windowed(l, d, r, n) ==
  /\ d = 0 => \A t \in Ledgers : l[t] = 0
  /\ d > 0 =>
       /\ r \in 0..n /\ d <= MaxPerDay
       /\ \A t \in Ledgers : t >= r + Day => l[t] = 0
       /\ Within(l, r, MaxTime) = d
       /\ \A t \in Ledgers : r - t < Day => Within(l, t, Before(r)) <= MaxPerDay
  /\ \A t \in Ledgers : Within(l, t, LastOfDay(t)) <= 2 * MaxPerDay

LogTypeOK == RateTypeOK /\ log \in [Address -> [Ledgers -> Nat]]

\* No ledger has calls before it is built.
NoFuture == \A u \in Address, t \in Ledgers : t > now => log[u][t] = 0

\* The calls of all users in a ledger.
CallsIn(l, t) == SumOver([u \in Address |-> l[u][t]], Address)

LogInv ==
  /\ LogTypeOK /\ NoFuture
  /\ blockCalls = CallsIn(log, now) /\ \A t \in Ledgers : CallsIn(log, t) <= MaxPerBlock
  /\ \A u \in Address : Windowed(log[u], userCalls[u].daily, userCalls[u].reset, now)

\* The ledgers of an interval are finitely many, and their counts naturals.
LEMMA LedgerSums ==
  ASSUME NEW l \in [Ledgers -> Nat], NEW a \in Nat, NEW b \in Int, b <= MaxTime
  PROVE  /\ IsFiniteSet(a..b)
         /\ a..b \in SUBSET Ledgers
         /\ \A t \in a..b : l[t] \in Nat /\ l[t] \in Int
         /\ Within(l, a, b) \in Nat
<1>1. a..b \in SUBSET Ledgers
  BY RateLimitAssumption DEF Ledgers
<1>2. IsFiniteSet(a..b)
  <2>1. a \in Int /\ b \in Int
    OBVIOUS
  <2> QED
    BY <2>1, FS_Interval
<1>3. \A t \in a..b : l[t] \in Nat
  BY <1>1
<1>4. Within(l, a, b) \in Nat
  BY <1>2, <1>3, SumNat DEF Within
<1> QED
  BY <1>1, <1>2, <1>3, <1>4

\* Part of an interval carries no more than the whole.
LEMMA LedgerPart ==
  ASSUME NEW l \in [Ledgers -> Nat], NEW a \in Nat, NEW b \in Int, b <= MaxTime,
         NEW c \in Nat, NEW d \in Int, a <= c, d <= b
  PROVE  Within(l, c, d) <= Within(l, a, b)
<1>1. IsFiniteSet(a..b) /\ \A t \in a..b : l[t] \in Nat
  BY LedgerSums
<1>2. c..d \in SUBSET (a..b)
  OBVIOUS
<1> QED
  BY <1>1, <1>2, SumWithin DEF Within

\* Two intervals that meet.
LEMMA LedgerSplit ==
  ASSUME NEW l \in [Ledgers -> Nat], NEW a \in Nat, NEW b \in Int, b <= MaxTime,
         NEW m \in Int, a <= m, m <= b
  PROVE  Within(l, a, b) = Within(l, a, Before(m)) + Within(l, m, b)
<1>1. IsFiniteSet(a..b) /\ \A t \in a..b : l[t] \in Int
  BY LedgerSums
<1>2. a..(m - 1) \in SUBSET (a..b) /\ (a..b) \ (a..(m - 1)) = m..b
  OBVIOUS
<1> QED
  BY <1>1, <1>2, SumUnion DEF Within, Before

\* One more call in a ledger.
LEMMA LedgerCount ==
  ASSUME NEW l \in [Ledgers -> Nat], NEW a \in Nat, NEW b \in Int, b <= MaxTime,
         NEW n \in Ledgers
  PROVE  LET m == [l EXCEPT ![n] = @ + 1]
         IN  Within(m, a, b) = Within(l, a, b) + IF n \in a..b THEN 1 ELSE 0
<1> DEFINE m == [l EXCEPT ![n] = @ + 1]
           S == a..b
<1>1. m \in [Ledgers -> Nat]
  OBVIOUS
<1>2. IsFiniteSet(S) /\ S \in SUBSET Ledgers /\ SumOver(l, S) \in Nat
  BY LedgerSums DEF Within
<1>3. /\ \A t \in S : l[t] \in Int /\ m[t] \in Int
      /\ \A t \in S : t # n => m[t] = l[t]
      /\ m[n] - l[n] = 1
  BY <1>1, <1>2
<1> HIDE DEF m, S
<1>4. CASE n \in S
  <2>1. SumOver(m, S) = SumOver(l, S) + (m[n] - l[n])
    BY <1>2, <1>3, <1>4, SumChange
  <2> QED
    BY <1>3, <1>4, <2>1 DEF m, S, Within
<1>5. CASE n \notin S
  <2>1. \A t \in S : l[t] = m[t]
    BY <1>3, <1>5
  <2>2. SumOver(l, S) = SumOver(m, S)
    BY <1>2, <2>1, SumSame
  <2> QED
    BY <1>2, <1>5, <2>2 DEF m, S, Within
<1> QED
  BY <1>4, <1>5

\* A day is an interval of ledgers of at most its length.
LEMMA DayOfLedgers ==
  ASSUME NEW t \in Ledgers
  PROVE  /\ t \in Nat /\ LastOfDay(t) \in Int
         /\ LastOfDay(t) <= MaxTime /\ LastOfDay(t) < t + Day /\ t <= LastOfDay(t)
BY RateLimitAssumption DEF Ledgers, LastOfDay

\* A call that is let through keeps the windows of its user.
LEMMA WindowedCall ==
  ASSUME LogTypeOK, NEW u \in Address, NoFuture,
         Windowed(log[u], userCalls[u].daily, userCalls[u].reset, now),
         Window(u).daily < MaxPerDay
  PROVE  LET l == [log[u] EXCEPT ![now] = @ + 1]
         IN  Windowed(l, Window(u).daily + 1, Window(u).reset, now)
<1> DEFINE k == log[u]
           l == [k EXCEPT ![now] = @ + 1]
           d == Window(u).daily + 1
           r == Window(u).reset
           e == userCalls[u].daily
           q == userCalls[u].reset
<1>1. /\ now \in Ledgers /\ MaxTime \in Nat /\ Day \in Nat \ {0} /\ MaxPerDay \in Nat
      /\ k \in [Ledgers -> Nat] /\ l \in [Ledgers -> Nat]
      /\ e \in Nat /\ q \in Nat
      /\ \A t \in Ledgers : t > now => k[t] = 0
  BY RateLimitAssumption DEF LogTypeOK, RateTypeOK, Ledgers, NoFuture
<1>2. \/ e > 0 /\ now - q < Day /\ d = e + 1 /\ r = q
      \/ (e = 0 \/ now - q >= Day) /\ d = 1 /\ r = now
  BY <1>1 DEF Window, LogTypeOK, RateTypeOK
<1>3. Windowed(k, e, q, now) /\ d <= MaxPerDay /\ d \in Nat /\ r \in Nat
  <2>1. d \in Nat /\ r \in Nat /\ Window(u).daily \in Int
    BY <1>1 DEF Window, LogTypeOK, RateTypeOK, Ledgers
  <2>2. d <= MaxPerDay
    BY <1>1, <2>1
  <2> QED
    BY <2>1, <2>2
<1>4. \A t \in Ledgers : t # now => l[t] = k[t]
  BY <1>1
<1>5. \A a \in Nat, b \in Int : b <= MaxTime =>
        Within(l, a, b) = Within(k, a, b) + IF now \in a..b THEN 1 ELSE 0
  BY <1>1, LedgerCount
<1>6. \A a \in Nat, b \in Int : b <= MaxTime =>
        Within(l, a, b) \in Nat /\ Within(k, a, b) \in Nat
  BY <1>1, LedgerSums
<1> HIDE DEF k, l, d, r, e, q
<1>7. r \in 0..now
  BY <1>1, <1>2, <1>3 DEF Windowed, Ledgers
<1>8. \A t \in Ledgers : t >= r + Day => l[t] = 0
  <2> SUFFICES ASSUME NEW t \in Ledgers, t >= r + Day
               PROVE  l[t] = 0
    OBVIOUS
  <2>1. t # now
    BY <1>1, <1>2, <1>7 DEF Ledgers
  <2>2. CASE r = q /\ e > 0
    BY <1>3, <1>4, <2>1, <2>2 DEF Windowed
  <2>3. CASE r = now
    <3>1. t > now
      BY <1>1, <2>3 DEF Ledgers
    <3> QED
      BY <1>1, <1>4, <2>1, <3>1
  <2> QED
    BY <1>2, <2>2, <2>3
<1>9. Within(l, r, MaxTime) = d
  <2>1. now \in r..MaxTime
    BY <1>1, <1>7 DEF Ledgers
  <2>2. Within(l, r, MaxTime) = Within(k, r, MaxTime) + 1
    BY <1>1, <1>3, <1>5, <2>1
  <2>3. CASE e > 0 /\ now - q < Day /\ d = e + 1 /\ r = q
    BY <1>3, <2>2, <2>3 DEF Windowed
  <2>4. CASE (e = 0 \/ now - q >= Day) /\ d = 1 /\ r = now
    <3>1. \A t \in now..MaxTime : k[t] = 0
      <4> SUFFICES ASSUME NEW t \in now..MaxTime
                   PROVE  k[t] = 0
        OBVIOUS
      <4>1. t \in Ledgers /\ (t > now \/ t = now)
        BY <1>1 DEF Ledgers
      <4>2. CASE e = 0
        BY <1>3, <4>1, <4>2 DEF Windowed
      <4>3. CASE e > 0 /\ now - q >= Day
        <5>1. t >= q + Day
          BY <1>1, <4>1, <4>3 DEF Ledgers
        <5> QED
          BY <1>3, <4>1, <4>3, <5>1 DEF Windowed
      <4> QED
        BY <1>1, <2>4, <4>2, <4>3
    <3>2. IsFiniteSet(now..MaxTime)
      BY <1>1, LedgerSums DEF Ledgers
    <3>3. Within(k, now, MaxTime) = 0
      BY <3>1, <3>2, SumZero DEF Within
    <3> QED
      BY <2>2, <2>4, <3>3
  <2> QED
    BY <1>2, <2>3, <2>4
<1>10. ASSUME NEW t \in Ledgers, r - t < Day
       PROVE  Within(l, t, Before(r)) <= MaxPerDay
  <2>0. t \in Nat /\ Before(r) \in Int /\ Before(r) <= MaxTime /\ now \notin t..Before(r)
    BY <1>1, <1>3, <1>7 DEF Ledgers, Before
  <2>1. Within(l, t, Before(r)) = Within(k, t, Before(r))
    <3>1. Within(l, t, Before(r)) = Within(k, t, Before(r)) + 0
      BY <1>5, <2>0
    <3>2. Within(k, t, Before(r)) \in Nat
      BY <1>6, <2>0
    <3> QED
      BY <3>1, <3>2
  <2>2. CASE e > 0 /\ r = q
    BY <1>3, <1>10, <2>1, <2>2 DEF Windowed
  <2>3. CASE (e = 0 \/ now - q >= Day) /\ r = now
    <3>1. CASE e = 0
      <4>1. \A s \in t..Before(r) : k[s] = 0
        BY <1>1, <1>3, <2>0, <3>1 DEF Windowed, Ledgers
      <4>2. IsFiniteSet(t..Before(r))
        BY <1>1, <2>0, LedgerSums
      <4>3. Within(k, t, Before(r)) = 0
        BY <4>1, <4>2, SumZero DEF Within
      <4> QED
        BY <1>1, <2>1, <4>3
    <3>2. CASE e > 0 /\ now - q >= Day
      <4>1. q <= t
        BY <1>1, <1>10, <2>0, <2>3, <3>2 DEF Ledgers
      <4>2. Within(k, t, Before(r)) <= Within(k, q, MaxTime)
        BY <1>1, <2>0, <4>1, LedgerPart
      <4>3. Within(k, q, MaxTime) = e /\ e <= MaxPerDay
        BY <1>3, <3>2 DEF Windowed
      <4>4. Within(k, t, Before(r)) \in Nat
        BY <1>6, <2>0
      <4> QED
        BY <1>1, <2>1, <4>2, <4>3, <4>4
    <3> QED
      BY <1>1, <2>3, <3>1, <3>2
  <2> QED
    BY <1>2, <2>2, <2>3
<1>11. ASSUME NEW t \in Ledgers
       PROVE  Within(l, t, LastOfDay(t)) <= 2 * MaxPerDay
  <2> DEFINE b == LastOfDay(t)
  <2>1. /\ t \in Nat /\ b \in Int
        /\ b <= MaxTime /\ b < t + Day /\ t <= b
    BY DayOfLedgers
  <2> HIDE DEF b
  <2>2. CASE now \notin t..b
    <3>1. Within(l, t, b) = Within(k, t, b) + 0 /\ Within(k, t, b) \in Nat
      BY <1>5, <1>6, <2>1, <2>2
    <3>2. Within(l, t, b) = Within(k, t, b)
      BY <3>1
    <3> QED
      BY <1>3, <3>2 DEF Windowed, b
  <2>3. CASE now \in t..b /\ r <= t
    <3>1. Within(l, t, b) <= Within(l, r, MaxTime)
      BY <1>1, <1>3, <2>1, <2>3, LedgerPart
    <3>2. Within(l, t, b) \in Nat
      BY <1>6, <2>1
    <3> QED
      BY <1>1, <1>3, <1>9, <3>1, <3>2 DEF b
  <2>4. CASE now \in t..b /\ t < r
    <3>0. now \in Int /\ now <= b /\ r \in Int /\ r <= now /\ Day \in Int
      BY <1>1, <1>7, <2>1, <2>4 DEF Ledgers
    <3>1. r \in Int /\ t <= r /\ r <= b /\ r - t < Day
      BY <2>1, <2>4, <3>0
    <3>2. Within(l, t, b) = Within(l, t, Before(r)) + Within(l, r, b)
      BY <1>1, <2>1, <3>1, LedgerSplit
    <3>3. Within(l, t, Before(r)) <= MaxPerDay
      BY <1>10, <3>1
    <3>4. Within(l, r, b) <= Within(l, r, MaxTime)
      BY <1>1, <1>3, <2>1, LedgerPart
    <3>5. Before(r) \in Int /\ Before(r) <= MaxTime
      BY <1>1, <2>1, <3>1 DEF Before
    <3>6. Within(l, t, Before(r)) \in Nat /\ Within(l, r, b) \in Nat
      BY <1>3, <1>6, <2>1, <3>5
    <3> QED
      BY <1>1, <1>3, <1>9, <3>2, <3>3, <3>4, <3>6 DEF b
  <2>5. r <= t \/ t < r
    BY <1>3, <2>1
  <2> QED
    BY <2>2, <2>3, <2>4, <2>5
<1>12. d # 0
  BY <1>1, <1>2
<1>13. Windowed(l, d, r, now)
  BY <1>12, <1>3, <1>7, <1>8, <1>9, <1>10, <1>11 DEF Windowed
<1> QED
  BY <1>13 DEF l, d, r, k

\* A user who does not call keeps the windows as time passes.
LEMMA WindowedLater ==
  ASSUME NEW l, NEW d, NEW r, NEW n \in Nat, NEW m \in Nat, n <= m, Windowed(l, d, r, n)
  PROVE  Windowed(l, d, r, m)
BY DEF Windowed

\* The calls of a ledger change with those of one user.
Changes(f, e, u) ==
  /\ \A v \in Address : f[v] \in Nat /\ e[v] \in Nat
  /\ \A v \in Address : v # u => e[v] = f[v]

\* A count that changes for one user changes the sum by as much.
LEMMA SumChanges ==
  ASSUME NEW f, NEW e, NEW u \in Address, Changes(f, e, u)
  PROVE  /\ SumOver(e, Address) = SumOver(f, Address) + (e[u] - f[u])
         /\ SumOver(f, Address) \in Nat
<1>1. \A v \in Address : f[v] \in Int /\ e[v] \in Int
  <2>1. \A i \in Nat : i \in Int
    OBVIOUS
  <2> QED
    BY <2>1, Zenon DEF Changes
<1>2. \A v \in Address : v # u => e[v] = f[v]
  BY DEF Changes
<1>3. SumOver(e, Address) = SumOver(f, Address) + (e[u] - f[u])
  BY <1>1, <1>2, LogAssumption, SumChange
<1>4. \A v \in Address : f[v] \in Nat
  BY DEF Changes
<1>5. SumOver(f, Address) \in Nat
  BY <1>4, LogAssumption, SumNat
<1> QED
  BY <1>3, <1>5

\* The calls of a ledger, after one more of one user in one ledger.
LEMMA CallsInStep ==
  ASSUME NEW l \in [Address -> [Ledgers -> Nat]], NEW u \in Address,
         NEW n \in Ledgers, NEW t \in Ledgers
  PROVE  /\ CallsIn([l EXCEPT ![u][n] = @ + 1], t) = CallsIn(l, t) + IF t = n THEN 1 ELSE 0
         /\ CallsIn(l, t) \in Nat
<1>1. PICK m : m = [l EXCEPT ![u][n] = @ + 1]
  OBVIOUS
<1>2. PICK f : f = [w \in Address |-> l[w][t]]
  OBVIOUS
<1>3. PICK e : e = [w \in Address |-> m[w][t]]
  OBVIOUS
<1>4. CallsIn(l, t) = SumOver(f, Address) /\ CallsIn(m, t) = SumOver(e, Address)
  BY <1>2, <1>3 DEF CallsIn
<1>5. /\ m[u] = [l[u] EXCEPT ![n] = @ + 1]
      /\ \A v \in Address : v # u => m[v] = l[v]
      /\ \A v \in Address : l[v] \in [Ledgers -> Nat]
  BY <1>1
<1>6. \A v \in Address : f[v] \in Nat
  BY <1>2, <1>5
<1>7. \A v \in Address : v # u => e[v] = f[v]
  BY <1>2, <1>3, <1>5
<1>8. e[u] = f[u] + IF t = n THEN 1 ELSE 0
  BY <1>2, <1>3, <1>5
<1>9. e[u] \in Nat
  BY <1>6, <1>8
<1>10. Changes(f, e, u)
  BY <1>6, <1>7, <1>9, Zenon DEF Changes
<1>11. SumOver(e, Address) = SumOver(f, Address) + (e[u] - f[u])
  BY <1>10, SumChanges
<1>12. SumOver(f, Address) \in Nat
  BY <1>10, SumChanges
<1>13. e[u] - f[u] = IF t = n THEN 1 ELSE 0
  BY <1>6, <1>8
<1> QED
  BY <1>1, <1>4, <1>11, <1>12, <1>13

\* Every call, and every new ledger, keeps the invariant.
LEMMA LogStep == LogInv /\ [LogNext]_logVars => LogInv'
<1> SUFFICES ASSUME LogInv, [LogNext]_logVars
             PROVE  LogInv'
  OBVIOUS
<1> USE DEF LogInv
<1>1. ASSUME NEW u \in Address, Call(u)
      PROVE  LogInv'
  <2>1. /\ Window(u).daily < MaxPerDay
        /\ blockCalls < MaxPerBlock /\ blockCalls' = blockCalls + 1
        /\ userCalls' = [userCalls EXCEPT ![u] = [Window(u) EXCEPT !.daily = @ + 1]]
        /\ log' = [log EXCEPT ![u][now] = @ + 1]
        /\ now' = now
    BY <1>1 DEF Call, CheckRateLimit
  <2>2. /\ Window(u) \in [daily: Nat, reset: Nat]
        /\ [Window(u) EXCEPT !.daily = @ + 1] \in [daily: Nat, reset: Nat]
    BY DEF LogTypeOK, RateTypeOK, Window
  <2>3. now \in Ledgers
    BY DEF LogTypeOK, RateTypeOK, Ledgers
  <2>4. LogTypeOK'
    BY <2>1, <2>2, <2>3 DEF LogTypeOK, RateTypeOK
  <2>5. NoFuture'
    BY <2>1, <2>3 DEF NoFuture, LogTypeOK, RateTypeOK, Ledgers
  <2>6. blockCalls' = CallsIn(log', now') /\ \A t \in Ledgers : CallsIn(log', t) <= MaxPerBlock
    <3>1. ASSUME NEW t \in Ledgers
          PROVE  /\ CallsIn(log', t) = CallsIn(log, t) + IF t = now THEN 1 ELSE 0
                 /\ CallsIn(log, t) \in Nat
      <4>1. log \in [Address -> [Ledgers -> Nat]]
        BY DEF LogTypeOK
      <4>2. /\ CallsIn([log EXCEPT ![u][now] = @ + 1], t)
                 = CallsIn(log, t) + IF t = now THEN 1 ELSE 0
            /\ CallsIn(log, t) \in Nat
        BY <2>3, <4>1, CallsInStep
      <4> QED
        BY <2>1, <4>2
    <3>2. CallsIn(log', now') = CallsIn(log, now) + 1
      BY <2>1, <2>3, <3>1
    <3>3. blockCalls \in Nat /\ MaxPerBlock \in Nat
      BY RateLimitAssumption DEF LogTypeOK, RateTypeOK
    <3>4. CallsIn(log', now') = blockCalls' /\ CallsIn(log', now') <= MaxPerBlock
      BY <2>1, <3>2, <3>3
    <3>5. ASSUME NEW t \in Ledgers
          PROVE  CallsIn(log', t) <= MaxPerBlock
      <4>1. CASE t = now
        <5>1. CallsIn(log', t) = CallsIn(log, now) + 1 /\ CallsIn(log, now) = blockCalls
          BY <3>1, <4>1
        <5> QED
          BY <2>1, <3>3, <5>1
      <4>2. CASE t # now
        <5>1. CallsIn(log', t) = CallsIn(log, t) + 0 /\ CallsIn(log, t) \in Nat
          BY <3>1, <4>2
        <5> QED
          BY <3>3, <5>1
      <4> QED
        BY <4>1, <4>2
    <3> QED
      BY <3>4, <3>5
  <2>7. ASSUME NEW v \in Address
        PROVE  Windowed(log[v], userCalls[v].daily, userCalls[v].reset, now)'
    <3>1. CASE v = u
      <4> DEFINE l == [log[u] EXCEPT ![now] = @ + 1]
                 d == Window(u).daily + 1
                 r == Window(u).reset
      <4>1. Windowed(l, d, r, now)
        BY <2>1, WindowedCall
      <4>2. log'[u] = l /\ userCalls'[u].daily = d /\ userCalls'[u].reset = r
        BY <2>1, <2>2 DEF LogTypeOK, RateTypeOK
      <4> HIDE DEF l, d, r
      <4> QED
        BY <2>1, <3>1, <4>1, <4>2 DEF Windowed
    <3>2. CASE v # u
      <4>1. log'[v] = log[v] /\ userCalls'[v] = userCalls[v]
        BY <2>1, <3>2 DEF LogTypeOK, RateTypeOK
      <4> QED
        BY <2>1, <4>1
    <3> QED
      BY <3>1, <3>2
  <2> QED
    BY <2>4, <2>5, <2>6, <2>7
<1>2. ASSUME Tick, UNCHANGED log
      PROVE  LogInv'
  <2>1. /\ now' = now + 1 /\ now \in Nat /\ now' \in Ledgers
        /\ blockCalls' = 0 /\ log' = log /\ userCalls' = userCalls
    BY <1>2, RateLimitAssumption DEF Tick, LogTypeOK, RateTypeOK, Ledgers
  <2>2. LogTypeOK' /\ NoFuture'
    BY <2>1 DEF LogTypeOK, RateTypeOK, NoFuture, Ledgers
  <2>3. \A t \in Ledgers : CallsIn(log', t) = CallsIn(log, t)
    BY <2>1 DEF CallsIn
  <2>4. CallsIn(log', now') = 0
    <3>1. \A u \in Address : [v \in Address |-> log'[v][now']][u] = 0
      BY <2>1 DEF NoFuture, Ledgers
    <3>2. SumOver([v \in Address |-> log'[v][now']], Address) = 0
      BY <3>1, LogAssumption, SumZero
    <3> QED
      BY <3>2 DEF CallsIn
  <2>5. \A u \in Address : Windowed(log[u], userCalls[u].daily, userCalls[u].reset, now)'
    <3>1. now <= now' /\ now' \in Nat
      BY <2>1
    <3> QED
      BY <2>1, <3>1, WindowedLater
  <2> QED
    BY <2>1, <2>2, <2>3, <2>4, <2>5
<1>3. CASE UNCHANGED logVars
  <2>1. /\ now' = now /\ blockCalls' = blockCalls /\ log' = log /\ userCalls' = userCalls
    BY <1>3 DEF logVars, rateVars
  <2> QED
    BY <2>1 DEF LogTypeOK, RateTypeOK, NoFuture, CallsIn, Windowed
<1> QED
  BY <1>1, <1>2, <1>3 DEF LogNext

\* Nobody called at first.
LEMMA LogInitInv == LogInit => LogInv
<1> SUFFICES ASSUME LogInit
             PROVE  LogInv
  OBVIOUS
<1>1. LogTypeOK /\ NoFuture /\ blockCalls = 0 /\ now \in Ledgers
  BY RateLimitAssumption DEF LogInit, RateInit, LogTypeOK, RateTypeOK, NoFuture, Ledgers
<1>2. \A u \in Address, t \in Ledgers : log[u][t] = 0
  BY DEF LogInit, Ledgers
<1>3. ASSUME NEW t \in Ledgers
      PROVE  CallsIn(log, t) = 0
  <2>1. \A u \in Address : [v \in Address |-> log[v][t]][u] = 0
    BY <1>2
  <2> QED
    BY <2>1, LogAssumption, SumZero DEF CallsIn
<1>4. ASSUME NEW u \in Address
      PROVE  Windowed(log[u], userCalls[u].daily, userCalls[u].reset, now)
  <2>1. ASSUME NEW t \in Ledgers
        PROVE  Within(log[u], t, LastOfDay(t)) = 0
    <3>1. t \in Nat /\ LastOfDay(t) \in Int /\ LastOfDay(t) <= MaxTime
      BY DayOfLedgers
    <3>2. /\ IsFiniteSet(t..LastOfDay(t))
          /\ t..LastOfDay(t) \in SUBSET Ledgers
      BY <1>1, <3>1, LedgerSums DEF LogTypeOK
    <3> QED
      BY <1>2, <3>2, SumZero DEF Within
  <2>2. userCalls[u].daily = 0
    BY DEF LogInit, RateInit
  <2> QED
    BY <1>2, <2>1, <2>2, RateLimitAssumption DEF Windowed
<1> QED
  BY <1>1, <1>3, <1>4, RateLimitAssumption DEF LogInv

\* What the invariant says of the block limit and of the days.
LEMMA LogInvCaps == LogInv => RateCaps
<1> SUFFICES ASSUME LogInv
             PROVE  LedgerCap /\ DayCap
  BY DEF RateCaps
<1> USE DEF LogInv
<1>1. LedgerCap
  BY DEF LedgerCap, CallsIn, Total, SumOver, Ledgers
<1>2. \A u \in Address, t \in Ledgers : CallsOf(u, t) = Within(log[u], t, LastOfDay(t))
  BY DEF CallsOf, Total, Within, SumOver, LastOfDay
<1>3. ASSUME NEW u \in Address, userCalls[u].daily > 0
      PROVE  /\ CallsOf(u, userCalls[u].reset) = userCalls[u].daily
             /\ userCalls[u].daily <= MaxPerDay
  <2> DEFINE l == log[u]
             d == userCalls[u].daily
             r == userCalls[u].reset
             b == LastOfDay(r)
  <2>1. /\ d <= MaxPerDay
        /\ \A t \in Ledgers : t >= r + Day => l[t] = 0
        /\ Within(l, r, MaxTime) = d
        /\ r \in Ledgers /\ MaxTime \in Nat /\ Day \in Nat \ {0}
        /\ l \in [Ledgers -> Nat]
    BY <1>3, RateLimitAssumption DEF Windowed, LogTypeOK, RateTypeOK, Ledgers
  <2>2. CallsOf(u, r) = Within(l, r, b)
    BY <1>2, <2>1
  <2>3. r \in Nat /\ b \in Int /\ b <= MaxTime /\ r <= b /\ (b = MaxTime \/ b = r + Day - 1)
    BY <2>1, DayOfLedgers DEF LastOfDay
  <2> HIDE DEF l, d, r, b
  <2>4. CASE b = MaxTime
    BY <2>1, <2>2, <2>4 DEF l, d, r
  <2>5. CASE b # MaxTime
    <3> DEFINE m == b + 1
    <3>1. /\ m \in Int /\ m \in Nat /\ r <= m /\ m <= MaxTime /\ Before(m) = b
          /\ MaxTime \in Int /\ MaxTime <= MaxTime
      BY <2>1, <2>3, <2>5 DEF Before
    <3>3. \A t \in m..MaxTime : l[t] = 0
      BY <2>1, <2>3, <2>5 DEF Ledgers
    <3> HIDE DEF m
    <3>2. Within(l, r, MaxTime) = Within(l, r, b) + Within(l, m, MaxTime)
      <4>1. Within(l, r, MaxTime) = Within(l, r, Before(m)) + Within(l, m, MaxTime)
        BY <2>1, <2>3, <3>1, LedgerSplit
      <4> QED
        BY <3>1, <4>1
    <3>4. IsFiniteSet(m..MaxTime) /\ Within(l, r, b) \in Nat
      BY <2>1, <2>3, <3>1, LedgerSums
    <3>5. Within(l, m, MaxTime) = 0
      BY <3>3, <3>4, SumZero DEF Within
    <3>6. CallsOf(u, r) = d
      BY <2>1, <2>2, <3>2, <3>4, <3>5
    <3> QED
      BY <2>1, <3>6 DEF d, r
  <2> QED
    BY <2>4, <2>5
<1> QED
  BY <1>1, <1>2, <1>3 DEF DayCap, Windowed, Ledgers

\* The block's counter is the calls of its ledger, and every user's log is windowed.
THEOREM LogInvariant == LogSpec => []LogInv
BY LogInitInv, LogStep, PTL DEF LogSpec

\* No ledger carries more calls than the block limit, and no day of a user more
\* than twice the daily limit, however calls and ledgers follow each other, for
\* any accounts, limits and length of a day.
THEOREM RateCapsAlways == LogSpec => []RateCaps
BY LogInvariant, LogInvCaps, PTL

-----------------------------------------------------------------------------
(* Governance.                                                             *)
-----------------------------------------------------------------------------

CountsAreApprovals ==
  \A p \in DOMAIN proposals : proposals[p].count = Cardinality(proposals[p].approvals)

CanBeSigned ==
  multisig # NoMultisig => multisig.required \in 1..Cardinality(multisig.admins)

DelaysKept ==
  \A a \in DOMAIN actions :
    actions[a].matter.kind = "update_admin" =>
      actions[a].eta >= actions[a].queuedAt + MinDelay["update_admin"]

GovInv == TypeOK /\ CountsAreApprovals /\ CanBeSigned /\ DelaysKept

-----------------------------------------------------------------------------
(* The pause.                                                              *)

\* The two records, which are Boolean, agree.
PauseInv == PauseRecordsAgree /\ configPaused \in BOOLEAN

\* Storing a configuration or setting the pause keeps the records together.
LEMMA ApplyPauseAgrees ==
  ASSUME PauseInv, NEW kind, ApplyPause(kind)
  PROVE  PauseInv'
<1>1. ASSUME NEW b \in BOOLEAN, SetPause(b)
      PROVE  PauseInv'
  BY <1>1, Zenon DEF SetPause, PauseInv, PauseRecordsAgree
<1>2. ASSUME NEW b \in BOOLEAN, ApplyConfig(b)
      PROVE  PauseInv'
  <2>1. CASE b = TRUE /\ configPaused = TRUE
    BY <1>2, <2>1, Zenon DEF ApplyConfig, PauseInv, PauseRecordsAgree
  <2>2. CASE b = TRUE /\ configPaused = FALSE
    BY <1>2, <2>2, Zenon DEF ApplyConfig, PauseInv, PauseRecordsAgree
  <2>3. CASE b = FALSE /\ configPaused = TRUE
    BY <1>2, <2>3, Zenon DEF ApplyConfig, PauseInv, PauseRecordsAgree
  <2>4. CASE b = FALSE /\ configPaused = FALSE
    BY <1>2, <2>4, Zenon DEF ApplyConfig, PauseInv, PauseRecordsAgree
  <2> QED
    BY <2>1, <2>2, <2>3, <2>4, Zenon DEF PauseInv
<1> QED
  BY <1>1, <1>2, Zenon DEF ApplyPause

\* The records stay Boolean.
LEMMA PauseTypes ==
  ASSUME configPaused \in BOOLEAN, pauseState \in BOOLEAN, NEW kind, ApplyPause(kind)
  PROVE  configPaused' \in BOOLEAN /\ pauseState' \in BOOLEAN
BY Zenon DEF ApplyPause, SetPause, ApplyConfig

\* A change of the configuration by the admin, which asks whether the contract is
\* paused by either record, keeps them together as well.
LEMMA UpdateConfigAgrees ==
  ASSUME PauseInv, NEW b \in BOOLEAN, UpdateConfig(b)
  PROVE  PauseInv'
<1>1. IsPaused <=> configPaused
  BY Zenon DEF IsPaused, PauseInv, PauseRecordsAgree
<1>2. ApplyConfig(b)
  BY <1>1, Zenon DEF UpdateConfig, ApplyConfig
<1>3. ApplyPause(IF b THEN "config_paused" ELSE "config_running")
  <2>1. CASE b = TRUE
    BY <1>2, <2>1, Zenon DEF ApplyPause
  <2>2. CASE b = FALSE
    BY <1>2, <2>2, Zenon DEF ApplyPause
  <2> QED
    BY <2>1, <2>2, Zenon
<1> QED
  BY <1>3, ApplyPauseAgrees

\* Whatever direct calls, proposals and timelocked actions follow each other, the
\* two records of the pause agree.
THEOREM PauseRecordsAgreeAlways == Spec => []PauseRecordsAgree
<1>1. Init => PauseInv
  BY Zenon DEF Init, PauseInv, PauseRecordsAgree
<1>2. PauseInv /\ [Next]_vars => PauseInv'
  <2> SUFFICES ASSUME PauseInv, [Next]_vars
               PROVE  PauseInv'
    OBVIOUS
  <2>1. CASE UNCHANGED pauseVars
    BY <2>1, Zenon DEF PauseInv, PauseRecordsAgree, pauseVars
  <2>2. ASSUME NEW b \in BOOLEAN, SetPause(b)
        PROVE  PauseInv'
    BY <2>2, Zenon DEF SetPause, PauseInv, PauseRecordsAgree
  <2>3. ASSUME NEW b \in BOOLEAN, UpdateConfig(b)
        PROVE  PauseInv'
    BY <2>3, UpdateConfigAgrees
  <2>4. ASSUME NEW who \in Signer, NEW p \in DOMAIN proposals, ExecuteAction(who, p)
        PROVE  PauseInv'
    <3>1. UNCHANGED pauseVars \/ ApplyPause(proposals[p].matter.kind)
      BY <2>4, Zenon DEF ExecuteAction, Apply, pauseVars
    <3> QED
      BY <3>1, <2>1, ApplyPauseAgrees
  <2>5. ASSUME NEW a \in DOMAIN actions, ExecuteTimelockAction(a)
        PROVE  PauseInv'
    <3>1. UNCHANGED pauseVars \/ ApplyPause(actions[a].matter.kind)
      BY <2>5, Zenon DEF ExecuteTimelockAction, pauseVars
    <3> QED
      BY <3>1, <2>1, ApplyPauseAgrees
  <2>6. Pause \/ Unpause => \E b \in BOOLEAN : SetPause(b)
    BY Zenon DEF Pause, Unpause
  <2>7. Next => \/ UNCHANGED pauseVars
                \/ Pause \/ Unpause
                \/ \E b \in BOOLEAN : UpdateConfig(b)
                \/ \E who \in Signer, p \in DOMAIN proposals : ExecuteAction(who, p)
                \/ \E a \in DOMAIN actions : ExecuteTimelockAction(a)
    BY Zenon DEF Next, InitializeMultisig, ProposeAction, ApproveAction, RejectAction,
             QueueTimelockAction, CancelTimelockAction, ClockTick, pauseVars
  <2>8. UNCHANGED vars => UNCHANGED pauseVars
    BY Zenon DEF vars, pauseVars
  <2> QED
    BY <2>1, <2>2, <2>3, <2>4, <2>5, <2>6, <2>7, <2>8
<1> QED
  <2>1. PauseInv => PauseRecordsAgree
    BY DEF PauseInv
  <2> QED
    BY <1>1, <1>2, <2>1, PTL DEF Spec
-----------------------------------------------------------------------------
(* Proposals and the admins.                                               *)

\* An element of the proposals or of the actions is one of the records.
LEMMA ItemTypes ==
  ASSUME TypeOK
  PROVE  /\ \A p \in DOMAIN proposals : proposals[p] \in Proposals
         /\ \A a \in DOMAIN actions : actions[a] \in Actions
BY DEF TypeOK

\* Only finitely many people can have approved.
LEMMA FiniteSets ==
  ASSUME TypeOK
  PROVE  /\ \A S \in SUBSET Signer : IsFiniteSet(S) /\ Cardinality(S) \in Nat
         /\ IsFiniteSet(multisig.admins) /\ Cardinality(multisig.admins) \in Nat
<1>1. \A S \in SUBSET Signer : IsFiniteSet(S) /\ Cardinality(S) \in Nat
  BY GovernanceAssumption, FS_Subset, FS_CardinalityType
<1> QED
  BY <1>1 DEF TypeOK

\* A new proposal has the approval of the one who made it.
LEMMA ProposeKeeps ==
  ASSUME GovInv, NEW who \in Signer, NEW m \in Matter, ProposeAction(who, m)
  PROVE  GovInv'
<1> DEFINE new == [matter |-> m, proposer |-> who, approvals |-> {who}, count |-> 1,
                   state |-> "active", expiry |-> clock + Expiry]
<1>1. /\ proposals' = Append(proposals, new)
      /\ UNCHANGED <<admin, pauseVars, multisig, actions, clock>>
  BY DEF ProposeAction
<1>2. new \in Proposals
  BY GovernanceAssumption DEF GovInv, TypeOK, Proposals
<1>3. TypeOK'
  BY <1>1, <1>2 DEF GovInv, TypeOK, pauseVars
<1>4. CountsAreApprovals'
  <2>1. Cardinality(new.approvals) = new.count
    BY FS_Singleton
  <2> QED
    BY <1>1, <1>2, <2>1 DEF GovInv, TypeOK, CountsAreApprovals
<1> QED
  BY <1>1, <1>3, <1>4 DEF GovInv, CanBeSigned, DelaysKept

\* An approval is counted when it is the first of its admin.
LEMMA ApproveKeeps ==
  ASSUME GovInv, NEW who \in Signer, NEW p \in DOMAIN proposals, ApproveAction(who, p)
  PROVE  GovInv'
<1> DEFINE old == proposals[p]
           new == [old EXCEPT !.approvals = @ \cup {who}, !.count = @ + 1]
<1>1. /\ proposals' = [proposals EXCEPT ![p] = new]
      /\ UNCHANGED <<admin, pauseVars, multisig, actions, clock>>
      /\ who \notin old.approvals
  BY DEF ApproveAction
<1>2. old \in Proposals
  BY ItemTypes DEF GovInv
<1>3. new \in Proposals
  <2> HIDE DEF old
  <2>1. old.approvals \cup {who} \in SUBSET Signer /\ old.count + 1 \in Nat
    BY <1>2 DEF Proposals
  <2> QED
    BY <1>2, <2>1 DEF Proposals
<1>4. TypeOK'
  <2> HIDE DEF new
  <2>1. proposals' \in Seq(Proposals)
    BY <1>1, <1>3 DEF GovInv, TypeOK
  <2> QED
    BY <1>1, <2>1 DEF GovInv, TypeOK, pauseVars
<1>5. Cardinality(new.approvals) = new.count
  <2>1. IsFiniteSet(old.approvals)
    BY <1>2, FiniteSets DEF Proposals, GovInv
  <2>2. Cardinality(old.approvals \cup {who}) = Cardinality(old.approvals) + 1
    BY <1>1, <2>1, FS_AddElement
  <2> QED
    BY <1>2, <2>2 DEF GovInv, CountsAreApprovals, Proposals
<1>6. CountsAreApprovals'
  BY <1>1, <1>5 DEF GovInv, TypeOK, CountsAreApprovals
<1> QED
  BY <1>1, <1>4, <1>6 DEF GovInv, CanBeSigned, DelaysKept

\* A proposal that ends keeps its approvals.
LEMMA EndKeeps ==
  ASSUME GovInv, NEW p \in DOMAIN proposals, NEW s \in {"executed", "removed"},
         proposals' = [proposals EXCEPT ![p].state = s]
  PROVE  proposals' \in Seq(Proposals) /\ CountsAreApprovals'
<1> DEFINE new == [proposals[p] EXCEPT !.state = s]
<1>1. proposals' = [proposals EXCEPT ![p] = new]
  OBVIOUS
<1>2. new \in Proposals
  BY ItemTypes DEF GovInv, Proposals
<1>3. new.count = proposals[p].count /\ new.approvals = proposals[p].approvals
  BY ItemTypes DEF GovInv, Proposals
<1> QED
  BY <1>1, <1>2, <1>3 DEF GovInv, TypeOK, CountsAreApprovals

\* Whatever a proposal does to them, the admins can still sign.
LEMMA ApplyKeeps ==
  ASSUME GovInv, NEW m \in Matter, multisig.admins # {}, Apply(m)
  PROVE  /\ multisig' \in [admins: SUBSET Signer, required: Nat]
         /\ CanBeSigned'
         /\ configPaused' \in BOOLEAN /\ pauseState' \in BOOLEAN
<1>0. /\ multisig \in [admins: SUBSET Signer, required: Nat]
      /\ configPaused \in BOOLEAN /\ pauseState \in BOOLEAN
      /\ multisig.required \in 1..Cardinality(multisig.admins)
      /\ IsFiniteSet(multisig.admins) /\ Cardinality(multisig.admins) \in Nat
  BY FiniteSets DEF GovInv, TypeOK, CanBeSigned, NoMultisig
<1>1. CASE AddAdmin(m.target) /\ m.kind = "add" /\ UNCHANGED pauseVars
  <2>1. m.target \in Signer
    BY <1>1 DEF Matter
  <2>2. Cardinality(multisig.admins \cup {m.target}) = Cardinality(multisig.admins) + 1
    BY <1>0, <1>1, FS_AddElement DEF AddAdmin
  <2> QED
    BY <1>0, <1>1, <2>1, <2>2 DEF AddAdmin, CanBeSigned, pauseVars
<1>2. CASE RemoveAdmin(m.target) /\ UNCHANGED pauseVars
  <2>1. Cardinality(multisig.admins \ {m.target}) = Cardinality(multisig.admins) - 1
    BY <1>0, <1>2, FS_RemoveElement DEF RemoveAdmin
  <2> QED
    BY <1>0, <1>2, <2>1 DEF RemoveAdmin, CanBeSigned, pauseVars
<1>3. CASE UpdateRequired(m.n) /\ UNCHANGED pauseVars
  BY <1>0, <1>3 DEF UpdateRequired, CanBeSigned, pauseVars
<1>4. CASE UNCHANGED <<multisig, pauseVars>>
  BY <1>0, <1>4 DEF CanBeSigned, pauseVars
<1>5. CASE ApplyPause(m.kind) /\ UNCHANGED multisig
  <2>1. configPaused' \in BOOLEAN /\ pauseState' \in BOOLEAN
    BY <1>0, <1>5, PauseTypes
  <2> QED
    BY <1>0, <1>5, <2>1 DEF CanBeSigned
<1> QED
  BY <1>1, <1>2, <1>3, <1>4, <1>5 DEF Apply

\* A proposal is carried out and marked as executed.
LEMMA ExecuteKeeps ==
  ASSUME GovInv, NEW who \in Signer, NEW p \in DOMAIN proposals, ExecuteAction(who, p)
  PROVE  GovInv'
<1>1. /\ multisig.admins # {}
      /\ Apply(proposals[p].matter)
      /\ proposals' = [proposals EXCEPT ![p].state = "executed"]
      /\ UNCHANGED <<admin, actions, clock>>
  BY DEF ExecuteAction
<1>2. proposals[p].matter \in Matter
  BY ItemTypes DEF GovInv, Proposals
<1>3. /\ multisig' \in [admins: SUBSET Signer, required: Nat]
      /\ CanBeSigned'
      /\ configPaused' \in BOOLEAN /\ pauseState' \in BOOLEAN
  BY <1>1, <1>2, ApplyKeeps
<1>4. proposals' \in Seq(Proposals) /\ CountsAreApprovals'
  BY <1>1, EndKeeps
<1> QED
  BY <1>1, <1>3, <1>4 DEF GovInv, TypeOK, DelaysKept

\* A withdrawn proposal changes nothing else.
LEMMA RejectKeeps ==
  ASSUME GovInv, NEW who \in Signer, NEW p \in DOMAIN proposals, RejectAction(who, p)
  PROVE  GovInv'
<1>1. /\ proposals' = [proposals EXCEPT ![p].state = "removed"]
      /\ UNCHANGED <<admin, pauseVars, multisig, actions, clock>>
  BY DEF RejectAction
<1>2. proposals' \in Seq(Proposals) /\ CountsAreApprovals'
  BY <1>1, EndKeeps
<1> QED
  BY <1>1, <1>2 DEF GovInv, TypeOK, CanBeSigned, DelaysKept, pauseVars

\* The number of signatures is one the new admins can gather.
LEMMA InitializeKeeps ==
  ASSUME GovInv, NEW admins \in SUBSET Signer, NEW n, InitializeMultisig(admins, n)
  PROVE  GovInv'
<1>1. /\ n \in 1..Cardinality(admins)
      /\ multisig' = [admins |-> admins, required |-> n]
      /\ UNCHANGED <<admin, pauseVars, proposals, actions, clock>>
  BY DEF InitializeMultisig
<1>2. n \in Nat
  BY <1>1, FiniteSets DEF GovInv
<1> QED
  BY <1>1, <1>2 DEF GovInv, TypeOK, CanBeSigned, DelaysKept, CountsAreApprovals, pauseVars

-----------------------------------------------------------------------------
(* Timelocked actions.                                                     *)

\* A queued change of the admin waits at least its minimum.
LEMMA QueueKeeps ==
  ASSUME GovInv, NEW who, NEW m \in TimelockMatter, NEW d \in Delays,
         QueueTimelockAction(who, m, d)
  PROVE  GovInv'
<1> DEFINE new == [matter |-> m, eta |-> clock + d, queuedAt |-> clock, state |-> "queued"]
<1>1. /\ actions' = Append(actions, new)
      /\ d \in Nat /\ d >= MinDelay[m.kind]
      /\ UNCHANGED <<admin, pauseVars, multisig, proposals, clock>>
  BY GovernanceAssumption DEF QueueTimelockAction
<1>2. new \in Actions
  BY <1>1 DEF GovInv, TypeOK, Actions
<1>3. TypeOK'
  <2> HIDE DEF new
  <2>1. actions' \in Seq(Actions)
    BY <1>1, <1>2 DEF GovInv, TypeOK
  <2> QED
    BY <1>1, <2>1 DEF GovInv, TypeOK, pauseVars
<1>4. new.matter.kind = "update_admin" => new.eta >= new.queuedAt + MinDelay["update_admin"]
  BY <1>1, GovernanceAssumption DEF GovInv, TypeOK
<1>5. DelaysKept'
  BY <1>1, <1>4 DEF GovInv, TypeOK, DelaysKept
<1> QED
  BY <1>1, <1>3, <1>5 DEF GovInv, CanBeSigned, CountsAreApprovals

\* An action that ends keeps its times.
LEMMA EndActionKeeps ==
  ASSUME GovInv, NEW a \in DOMAIN actions, NEW s \in {"executed", "cancelled"},
         actions' = [actions EXCEPT ![a].state = s]
  PROVE  actions' \in Seq(Actions) /\ DelaysKept'
<1> DEFINE new == [actions[a] EXCEPT !.state = s]
<1>1. actions' = [actions EXCEPT ![a] = new]
  OBVIOUS
<1>2. new \in Actions
  BY ItemTypes DEF GovInv, Actions
<1>3. /\ new.matter = actions[a].matter
      /\ new.eta = actions[a].eta /\ new.queuedAt = actions[a].queuedAt
  BY ItemTypes DEF GovInv, Actions
<1> QED
  BY <1>1, <1>2, <1>3 DEF GovInv, TypeOK, DelaysKept

\* A matured action is carried out and marked as executed.
LEMMA ExecuteTimelockKeeps ==
  ASSUME GovInv, NEW a \in DOMAIN actions, ExecuteTimelockAction(a)
  PROVE  GovInv'
<1>1. /\ actions' = [actions EXCEPT ![a].state = "executed"]
      /\ UNCHANGED <<multisig, proposals, clock>>
  BY DEF ExecuteTimelockAction
<1>2. actions' \in Seq(Actions) /\ DelaysKept'
  BY <1>1, EndActionKeeps
<1>3. admin' \in Owner /\ configPaused' \in BOOLEAN /\ pauseState' \in BOOLEAN
  <2>1. /\ admin \in Owner /\ configPaused \in BOOLEAN /\ pauseState \in BOOLEAN
        /\ actions[a].matter \in TimelockMatter
    BY ItemTypes DEF GovInv, TypeOK, Actions
  <2>2. CASE /\ actions[a].matter.kind = "update_admin" /\ admin' = actions[a].matter.target
             /\ UNCHANGED pauseVars
    BY <2>1, <2>2 DEF TimelockMatter, pauseVars
  <2>3. CASE UNCHANGED <<admin, pauseVars>>
    BY <2>1, <2>3 DEF pauseVars
  <2>4. CASE ApplyPause(actions[a].matter.kind) /\ UNCHANGED admin
    BY <2>1, <2>4, PauseTypes
  <2> QED
    BY <2>2, <2>3, <2>4 DEF ExecuteTimelockAction
<1> QED
  BY <1>1, <1>2, <1>3 DEF GovInv, TypeOK, CanBeSigned, CountsAreApprovals

\* A cancelled action changes nothing else.
LEMMA CancelTimelockKeeps ==
  ASSUME GovInv, NEW who, NEW a \in DOMAIN actions, CancelTimelockAction(who, a)
  PROVE  GovInv'
<1>1. /\ actions' = [actions EXCEPT ![a].state = "cancelled"]
      /\ UNCHANGED <<admin, pauseVars, multisig, proposals, clock>>
  BY DEF CancelTimelockAction
<1>2. actions' \in Seq(Actions) /\ DelaysKept'
  BY <1>1, EndActionKeeps
<1> QED
  BY <1>1, <1>2 DEF GovInv, TypeOK, CanBeSigned, CountsAreApprovals, pauseVars

-----------------------------------------------------------------------------
\* Types, the counters of the proposals, the signatures that can be gathered and
\* the delays of the queued changes of the admin, whatever is called.
THEOREM GovernanceInvariant == Spec => []GovInv
<1>1. Init => GovInv
  BY GovernanceAssumption
     DEF Init, GovInv, TypeOK, CountsAreApprovals, CanBeSigned, DelaysKept, NoMultisig
<1>2. GovInv /\ [Next]_vars => GovInv'
  <2> SUFFICES ASSUME GovInv, [Next]_vars
               PROVE  GovInv'
    OBVIOUS
  <2>1. CASE Pause \/ Unpause \/ \E b \in BOOLEAN : UpdateConfig(b)
    <3>1. UNCHANGED <<admin, multisig, proposals, actions, clock>>
      BY <2>1, Zenon DEF Pause, Unpause, UpdateConfig
    <3>2. configPaused' \in BOOLEAN /\ pauseState' \in BOOLEAN
      <4>1. configPaused \in BOOLEAN /\ pauseState \in BOOLEAN
        BY DEF GovInv, TypeOK
      <4> QED
        BY <2>1, <4>1, Zenon DEF Pause, Unpause, UpdateConfig, SetPause
    <3> QED
      BY <3>1, <3>2 DEF GovInv, TypeOK, CountsAreApprovals, CanBeSigned, DelaysKept
  <2>2. CASE \E admins \in SUBSET Signer, n \in 0..Cardinality(Signer) :
               InitializeMultisig(admins, n)
    BY <2>2, InitializeKeeps
  <2>3. CASE \E who \in Signer, m \in Matter : ProposeAction(who, m)
    BY <2>3, ProposeKeeps
  <2>4. CASE \E who \in Signer, p \in DOMAIN proposals :
               ApproveAction(who, p) \/ ExecuteAction(who, p) \/ RejectAction(who, p)
    BY <2>4, ApproveKeeps, ExecuteKeeps, RejectKeeps
  <2>5. CASE \E who \in Owner, m \in TimelockMatter, d \in Delays :
               QueueTimelockAction(who, m, d)
    BY <2>5, QueueKeeps
  <2>6. CASE \E a \in DOMAIN actions : ExecuteTimelockAction(a)
    BY <2>6, ExecuteTimelockKeeps
  <2>7. CASE \E who \in Owner, a \in DOMAIN actions : CancelTimelockAction(who, a)
    BY <2>7, CancelTimelockKeeps
  <2>8. CASE ClockTick
    BY <2>8 DEF ClockTick, GovInv, TypeOK, CountsAreApprovals, CanBeSigned, DelaysKept,
                pauseVars
  <2>9. CASE UNCHANGED vars
    BY <2>9 DEF vars, GovInv, TypeOK, CountsAreApprovals, CanBeSigned, DelaysKept
  <2> QED
    BY <2>1, <2>2, <2>3, <2>4, <2>5, <2>6, <2>7, <2>8, <2>9 DEF Next
<1> QED
  BY <1>1, <1>2, PTL DEF Spec

\* The admins and the signatures they need change only by a proposal that as many
\* different people approved and that had not expired; the admin of the contract
\* only by an action that waited its delay; and the admins can always sign.
THEOREM ChangesAuthorisedAlways == Spec => ChangesAuthorised
<1>1. GovInv /\ GovInv' /\ [Next]_vars =>
        [/\ multisig # NoMultisig /\ multisig' # multisig =>
              \E p \in DOMAIN proposals :
                /\ proposals[p].state = "active" /\ proposals'[p].state = "executed"
                /\ Cardinality(proposals[p].approvals) >= multisig.required
                /\ clock <= proposals[p].expiry
         /\ admin' # admin =>
              \E a \in DOMAIN actions :
                /\ actions[a].state = "queued" /\ actions'[a].state = "executed"
                /\ clock >= actions[a].queuedAt + MinDelay["update_admin"]
         /\ multisig' # NoMultisig =>
              multisig'.required \in 1..Cardinality(multisig'.admins)]_vars
  <2> SUFFICES ASSUME GovInv, GovInv', Next
               PROVE  /\ multisig # NoMultisig /\ multisig' # multisig =>
                           \E p \in DOMAIN proposals :
                             /\ proposals[p].state = "active"
                             /\ proposals'[p].state = "executed"
                             /\ Cardinality(proposals[p].approvals) >= multisig.required
                             /\ clock <= proposals[p].expiry
                      /\ admin' # admin =>
                           \E a \in DOMAIN actions :
                             /\ actions[a].state = "queued"
                             /\ actions'[a].state = "executed"
                             /\ clock >= actions[a].queuedAt + MinDelay["update_admin"]
                      /\ multisig' # NoMultisig =>
                           multisig'.required \in 1..Cardinality(multisig'.admins)
    OBVIOUS
  <2>1. ASSUME multisig # NoMultisig, multisig' # multisig
        PROVE  \E p \in DOMAIN proposals :
                 /\ proposals[p].state = "active" /\ proposals'[p].state = "executed"
                 /\ Cardinality(proposals[p].approvals) >= multisig.required
                 /\ clock <= proposals[p].expiry
    <3>1. PICK who \in Signer, p \in DOMAIN proposals : ExecuteAction(who, p)
      BY <2>1 DEF Next, Pause, Unpause, UpdateConfig, InitializeMultisig, ProposeAction,
                  ApproveAction, RejectAction, QueueTimelockAction, ExecuteTimelockAction,
                  CancelTimelockAction, ClockTick
    <3>2. proposals'[p].state = "executed"
      BY <3>1, ItemTypes DEF ExecuteAction, GovInv, Proposals
    <3>3. Cardinality(proposals[p].approvals) = proposals[p].count
      BY DEF GovInv, CountsAreApprovals
    <3> QED
      BY <3>1, <3>2, <3>3 DEF ExecuteAction, Pending
  <2>2. ASSUME admin' # admin
        PROVE  \E a \in DOMAIN actions :
                 /\ actions[a].state = "queued" /\ actions'[a].state = "executed"
                 /\ clock >= actions[a].queuedAt + MinDelay["update_admin"]
    <3>1. PICK a \in DOMAIN actions : ExecuteTimelockAction(a)
      BY <2>2 DEF Next, Pause, Unpause, UpdateConfig, InitializeMultisig, ProposeAction,
                  ApproveAction, RejectAction, ExecuteAction, QueueTimelockAction,
                  CancelTimelockAction, ClockTick
    <3>2. actions[a].matter.kind = "update_admin"
      BY <2>2, <3>1 DEF ExecuteTimelockAction
    <3>3. /\ actions[a].queuedAt \in Nat /\ actions[a].eta \in Nat /\ clock \in Nat
          /\ actions'[a].state = "executed"
      BY <3>1, ItemTypes DEF ExecuteTimelockAction, GovInv, TypeOK, Actions
    <3>4. clock >= actions[a].queuedAt + MinDelay["update_admin"]
      BY <3>1, <3>2, <3>3, GovernanceAssumption DEF ExecuteTimelockAction, GovInv, DelaysKept
    <3> QED
      BY <3>1, <3>3, <3>4 DEF ExecuteTimelockAction, Queued
  <2>3. multisig' # NoMultisig => multisig'.required \in 1..Cardinality(multisig'.admins)
    BY DEF GovInv, CanBeSigned
  <2> QED
    BY <2>1, <2>2, <2>3
<1> QED
  BY <1>1, GovernanceInvariant, PTL DEF Spec, ChangesAuthorised

-----------------------------------------------------------------------------
(* Disputes.                                                               *)
-----------------------------------------------------------------------------

VotersOf(side) == {a \in Arbiter : vote[a] = side}

Disputes ==
  [raised: {TRUE}, raisedAt: Nat, resolved: BOOLEAN, resolvedAt: Nat,
   landlord: Nat, tenant: Nat, voters: SUBSET Arbiter]

-----------------------------------------------------------------------------
(* Votes by head.                                                          *)

\* The counters are the numbers of voters, of whom there are finitely many, and
\* nobody has voted before there is a dispute.
CountTypes ==
  /\ instant \in Nat
  /\ arbiterList \in Seq(Arbiter)
  /\ active \subseteq ToSet(arbiterList)
  /\ dispute \in {NoDispute} \cup Disputes
  /\ vote \in [Arbiter -> Side \cup {"none"}]

CountInv ==
  /\ CountTypes
  /\ ~dispute.raised => \A a \in Arbiter : vote[a] = "none"
  /\ dispute.raised => IsFiniteSet(VotersOf("landlord")) /\ IsFiniteSet(VotersOf("tenant"))
  /\ VotesCounted

\* A new arbiter on the list leaves the others there.
LEMMA AppendKeeps ==
  ASSUME NEW S, NEW s \in Seq(S), NEW a \in S
  PROVE  ToSet(s) \cup {a} \subseteq ToSet(Append(s, a))
<1>1. /\ DOMAIN Append(s, a) = 1..(Len(s) + 1) /\ DOMAIN s = 1..Len(s) /\ Len(s) \in Nat
      /\ \A i \in 1..Len(s) : Append(s, a)[i] = s[i]
      /\ Append(s, a)[Len(s) + 1] = a
  OBVIOUS
<1>2. a \in ToSet(Append(s, a))
  <2>1. Len(s) + 1 \in DOMAIN Append(s, a)
    BY <1>1
  <2> QED
    BY <1>1, <2>1, Zenon DEF ToSet
<1>3. ASSUME NEW x \in ToSet(s)
      PROVE  x \in ToSet(Append(s, a))
  <2>1. PICK i \in DOMAIN s : s[i] = x
    BY Zenon DEF ToSet
  <2>2. i \in DOMAIN Append(s, a) /\ Append(s, a)[i] = x
    BY <1>1, <2>1
  <2> QED
    BY <2>2, Zenon DEF ToSet
<1> QED
  BY <1>2, <1>3

\* A vote adds its arbiter to the voters of its side and to no other.
LEMMA VoteAdds ==
  ASSUME NEW a \in Arbiter, NEW side \in Side,
         vote \in [Arbiter -> Side \cup {"none"}], vote[a] = "none",
         vote' = [vote EXCEPT ![a] = side]
  PROVE  /\ VotersOf(side)' = VotersOf(side) \cup {a}
         /\ a \notin VotersOf(side)
         /\ \A s \in Side \ {side} : VotersOf(s)' = VotersOf(s)
         /\ {b \in Arbiter : vote'[b] # "none"} = {b \in Arbiter : vote[b] # "none"} \cup {a}
BY DEF VotersOf, Side

\* The initial state has no votes.
LEMMA CountInit == DisputeInit => CountInv
BY FS_EmptySet DEF DisputeInit, CountInv, CountTypes, VotesCounted, NoDispute, ToSet

\* A vote by head is counted once.
LEMMA VoteKeeps ==
  ASSUME CountInv, NEW a \in Arbiter, NEW side \in Side, VoteOnDispute(a, side)
  PROVE  CountInv'
<1>1. /\ vote[a] = "none" /\ vote' = [vote EXCEPT ![a] = side]
      /\ dispute.raised /\ a \in active
      /\ dispute' = [dispute EXCEPT ![side] = @ + 1, !.voters = @ \cup {a}]
      /\ UNCHANGED <<active, arbiterList, instant>>
  BY DEF VoteOnDispute, adminVars, arbiterVars
<1>2. vote \in [Arbiter -> Side \cup {"none"}] /\ dispute \in Disputes
  <2>1. NoDispute.raised = FALSE
    BY DEF NoDispute
  <2> QED
    BY <1>1, <2>1 DEF CountInv, CountTypes
<1>3. /\ VotersOf(side)' = VotersOf(side) \cup {a}
      /\ a \notin VotersOf(side)
      /\ \A s \in Side \ {side} : VotersOf(s)' = VotersOf(s)
      /\ {b \in Arbiter : vote'[b] # "none"} = {b \in Arbiter : vote[b] # "none"} \cup {a}
  BY <1>1, <1>2, VoteAdds
<1>4. /\ IsFiniteSet(VotersOf(side)')
      /\ Cardinality(VotersOf(side)') = Cardinality(VotersOf(side)) + 1
  <2>1. IsFiniteSet(VotersOf(side))
    BY <1>1 DEF CountInv, Side
  <2> QED
    BY <1>3, <2>1, FS_AddElement
<1>5. /\ dispute' \in Disputes
      /\ dispute'.landlord = dispute.landlord + (IF side = "landlord" THEN 1 ELSE 0)
      /\ dispute'.tenant = dispute.tenant + (IF side = "tenant" THEN 1 ELSE 0)
      /\ dispute'.voters = dispute.voters \cup {a}
  <2>1. CASE side = "landlord"
    <3>1. dispute' = [dispute EXCEPT !.landlord = @ + 1, !.voters = @ \cup {a}]
      BY <1>1, <2>1
    <3>2. dispute.landlord + 1 \in Nat /\ dispute.voters \cup {a} \in SUBSET Arbiter
      BY <1>2 DEF Disputes
    <3>3. /\ dispute' \in Disputes
          /\ dispute'.landlord = dispute.landlord + 1
          /\ dispute'.tenant = dispute.tenant
          /\ dispute'.voters = dispute.voters \cup {a}
      BY <1>2, <3>1, <3>2 DEF Disputes
    <3>4. dispute.tenant \in Nat
      BY <1>2 DEF Disputes
    <3> QED
      BY <2>1, <3>3, <3>4
  <2>2. CASE side = "tenant"
    <3>1. dispute' = [dispute EXCEPT !.tenant = @ + 1, !.voters = @ \cup {a}]
      BY <1>1, <2>2
    <3>2. dispute.tenant + 1 \in Nat /\ dispute.voters \cup {a} \in SUBSET Arbiter
      BY <1>2 DEF Disputes
    <3>3. /\ dispute' \in Disputes
          /\ dispute'.tenant = dispute.tenant + 1
          /\ dispute'.landlord = dispute.landlord
          /\ dispute'.voters = dispute.voters \cup {a}
      BY <1>2, <3>1, <3>2 DEF Disputes
    <3>4. dispute.landlord \in Nat
      BY <1>2 DEF Disputes
    <3> QED
      BY <2>2, <3>3, <3>4
  <2> QED
    BY <2>1, <2>2 DEF Side
<1>6. CountTypes'
  BY <1>1, <1>2, <1>5 DEF CountInv, CountTypes
<1>7. IsFiniteSet(VotersOf("landlord"))' /\ IsFiniteSet(VotersOf("tenant"))'
  BY <1>1, <1>3, <1>4 DEF CountInv, Side
<1>8. dispute'.raised /\ VotesCounted'
  <2>1. /\ dispute.landlord = Cardinality(VotersOf("landlord"))
        /\ dispute.tenant = Cardinality(VotersOf("tenant"))
        /\ dispute.voters = {b \in Arbiter : vote[b] # "none"}
        /\ dispute.voters \subseteq ToSet(arbiterList)
        /\ a \in ToSet(arbiterList)
    BY <1>1 DEF CountInv, CountTypes, VotesCounted, VotersOf
  <2>2. /\ dispute'.landlord = Cardinality(VotersOf("landlord"))'
        /\ dispute'.tenant = Cardinality(VotersOf("tenant"))'
    BY <1>2, <1>3, <1>4, <1>5, <2>1 DEF Side, Disputes
  <2>3. /\ dispute'.voters = {b \in Arbiter : vote'[b] # "none"}
        /\ dispute'.voters \subseteq ToSet(arbiterList')
    BY <1>1, <1>3, <1>5, <2>1
  <2> QED
    BY <1>5, <2>2, <2>3 DEF VotesCounted, VotersOf, Disputes
<1> QED
  BY <1>6, <1>7, <1>8 DEF CountInv

\* Registering, stopping and restoring an arbiter leaves the voters on the list.
LEMMA ArbitersKeep ==
  ASSUME CountInv, NEW a \in Arbiter,
         AddArbiter(a) \/ DeactivateArbiter(a) \/ ReactivateArbiter(a)
  PROVE  CountInv'
<1>1. UNCHANGED <<instant, dispute, vote>>
  BY DEF AddArbiter, DeactivateArbiter, ReactivateArbiter, voteVars
<1>2. /\ arbiterList' \in Seq(Arbiter)
      /\ active' \subseteq ToSet(arbiterList')
      /\ ToSet(arbiterList) \subseteq ToSet(arbiterList')
  <2>1. CASE AddArbiter(a)
    <3>1. arbiterList' = Append(arbiterList, a) /\ active' = active \cup {a}
      BY <2>1 DEF AddArbiter
    <3>2. arbiterList' \in Seq(Arbiter)
      BY <3>1 DEF CountInv, CountTypes
    <3>3. ToSet(arbiterList) \cup {a} \subseteq ToSet(arbiterList')
      BY <3>1, AppendKeeps DEF CountInv, CountTypes
    <3> QED
      BY <3>1, <3>2, <3>3 DEF CountInv, CountTypes
  <2>2. CASE DeactivateArbiter(a) \/ ReactivateArbiter(a)
    <3>1. arbiterList' = arbiterList /\ active' \subseteq active \cup {a}
      BY <2>2 DEF DeactivateArbiter, ReactivateArbiter
    <3>2. a \in ToSet(arbiterList)
      BY <2>2 DEF DeactivateArbiter, ReactivateArbiter, Contains, ToSet, CountInv, CountTypes
    <3> QED
      BY <3>1, <3>2 DEF CountInv, CountTypes
  <2> QED
    BY <2>1, <2>2
<1>3. CountTypes'
  BY <1>1, <1>2 DEF CountInv, CountTypes
<1>4. UNCHANGED <<VotersOf("landlord"), VotersOf("tenant")>>
  BY <1>1 DEF VotersOf
<1>5. VotesCounted'
  BY <1>1, <1>2 DEF CountInv, VotesCounted
<1> QED
  BY <1>1, <1>3, <1>4, <1>5 DEF CountInv

\* A new dispute has no votes.
LEMMA RaiseKeeps ==
  ASSUME CountInv, NEW who, RaiseDispute(who)
  PROVE  CountInv'
<1>1. /\ ~dispute.raised
      /\ dispute' = [raised |-> TRUE, raisedAt |-> instant, resolved |-> FALSE, resolvedAt |-> 0,
                     landlord |-> 0, tenant |-> 0, voters |-> {}]
      /\ UNCHANGED <<instant, vote, active, arbiterList>>
  BY DEF RaiseDispute, voteVars, arbiterVars
<1>2. dispute' \in Disputes
  BY <1>1 DEF CountInv, CountTypes, Disputes
<1>3. /\ VotersOf("landlord")' = {} /\ VotersOf("tenant")' = {}
      /\ {a \in Arbiter : vote'[a] # "none"} = {}
  BY <1>1 DEF CountInv, VotersOf
<1>4. VotesCounted'
  BY <1>1, <1>3, FS_EmptySet DEF VotesCounted, VotersOf
<1>5. CountTypes'
  BY <1>1, <1>2 DEF CountInv, CountTypes
<1> QED
  BY <1>1, <1>3, <1>4, <1>5, FS_EmptySet DEF CountInv

\* What a resolution leaves of the dispute.
LEMMA ResolveEffect ==
  ASSUME CountTypes, NEW side, NEW by, Resolve(side, by)
  PROVE  /\ dispute \in Disputes /\ dispute' \in Disputes
         /\ dispute'.resolved
         /\ dispute'.landlord = dispute.landlord /\ dispute'.tenant = dispute.tenant
         /\ dispute'.voters = dispute.voters
         /\ ruling' = [side |-> side, by |-> by]
         /\ UNCHANGED <<instant, vote, active, arbiterList>>
<1>1. /\ dispute.raised
      /\ dispute' = [dispute EXCEPT !.resolved = TRUE, !.resolvedAt = instant]
      /\ ruling' = [side |-> side, by |-> by]
      /\ UNCHANGED <<instant, vote, active, arbiterList>>
  BY DEF Resolve, voteVars, arbiterVars
<1>2. dispute \in Disputes
  <2>1. NoDispute.raised = FALSE
    BY DEF NoDispute
  <2> QED
    BY <1>1, <2>1 DEF CountTypes
<1>3. instant \in Nat
  BY DEF CountTypes
<1>4. /\ dispute' \in Disputes /\ dispute'.resolved
      /\ dispute'.landlord = dispute.landlord /\ dispute'.tenant = dispute.tenant
      /\ dispute'.voters = dispute.voters
  BY <1>1, <1>2, <1>3 DEF Disputes
<1> QED
  BY <1>1, <1>2, <1>4

\* A resolution counts nothing.
LEMMA ResolveKeeps ==
  ASSUME CountInv, NEW side, NEW by, Resolve(side, by)
  PROVE  CountInv'
<1>1. /\ dispute \in Disputes /\ dispute' \in Disputes
      /\ dispute'.landlord = dispute.landlord /\ dispute'.tenant = dispute.tenant
      /\ dispute'.voters = dispute.voters
      /\ UNCHANGED <<instant, vote, active, arbiterList>>
  BY ResolveEffect DEF CountInv
<1>2. dispute.raised /\ dispute'.raised
  BY <1>1 DEF Disputes
<1>3. CountTypes' /\ UNCHANGED <<VotersOf("landlord"), VotersOf("tenant")>>
  BY <1>1 DEF CountInv, CountTypes, VotersOf
<1>4. VotesCounted'
  BY <1>1, <1>2 DEF CountInv, VotesCounted
<1> QED
  BY <1>2, <1>3, <1>4 DEF CountInv

\* The rest of the calls concern neither the dispute nor its voters.
LEMMA OthersKeep ==
  ASSUME CountInv, UNCHANGED <<dispute, vote, active, arbiterList>>, instant' \in Nat
  PROVE  CountInv'
BY DEF CountInv, CountTypes, VotersOf, VotesCounted

\* A resolution of any of the three kinds.
Resolution ==
  \/ Resolve(Outcome, "votes")
  \/ Resolve(Outcome, "timeout")
  \/ Resolve(WeightedOutcome, "weight")

\* What a step may be, as far as the dispute and its voters are concerned.
LEMMA Steps ==
  ASSUME [DisputeNext]_disputeVars
  PROVE  \/ \E a \in Arbiter : AddArbiter(a) \/ DeactivateArbiter(a) \/ ReactivateArbiter(a)
         \/ \E a \in Arbiter, side \in Side : VoteOnDispute(a, side)
         \/ \E who \in Member : RaiseDispute(who)
         \/ Resolution
         \/ /\ UNCHANGED <<dispute, vote, active, arbiterList, ruling>>
            /\ instant' = instant \/ InstantPasses
            /\ \/ UNCHANGED <<weightedVote, weighted>>
               \/ dispute.raised /\ ~dispute.resolved
<1>1. CASE Administer
  BY <1>1 DEF Administer, PauseDisputes, UnpauseDisputes, AcceptDisputeAdmin,
              ProposeDisputeAdmin, SetTimeoutConfig,
              SetArbiterStats, voteVars, arbiterVars
<1>2. CASE \E a \in Arbiter, side \in Side :
             VoteOnDispute(a, side) \/ VoteOnDisputeWeighted(a, side) \/ VoteOnAppeal(a, side)
  BY <1>2 DEF VoteOnDisputeWeighted, VoteOnAppeal, voteVars, arbiterVars
<1>3. CASE \E who \in Member : \/ RaiseDispute(who) \/ ResolveDispute(who)
                               \/ ResolveDisputeWeighted(who) \/ ResolveAppeal(who)
  BY <1>3 DEF ResolveDispute, ResolveDisputeWeighted, ResolveAppeal, Resolution, voteVars,
              arbiterVars
<1>4. CASE ResolveDisputeOnTimeout \/ CreateAppeal \/ CancelAppeal \/ InstantPasses
        \/ UNCHANGED disputeVars
  BY <1>4 DEF ResolveDisputeOnTimeout, CreateAppeal, CancelAppeal, InstantPasses,
              Resolution, voteVars,
              arbiterVars, disputeVars
<1> QED
  BY <1>1, <1>2, <1>3, <1>4 DEF DisputeNext

\* Whatever arbiters come and go and whichever way they vote, the counters of a
\* dispute are the numbers of its voters by head, all of them registered.
THEOREM CountInvariant == DisputeSpec => []CountInv
<1>1. CountInv /\ [DisputeNext]_disputeVars => CountInv'
  <2> SUFFICES ASSUME CountInv, [DisputeNext]_disputeVars
               PROVE  CountInv'
    OBVIOUS
  <2>1. CASE \E a \in Arbiter : AddArbiter(a) \/ DeactivateArbiter(a) \/ ReactivateArbiter(a)
    BY <2>1, ArbitersKeep
  <2>2. CASE \E a \in Arbiter, side \in Side : VoteOnDispute(a, side)
    BY <2>2, VoteKeeps
  <2>3. CASE \E who \in Member : RaiseDispute(who)
    BY <2>3, RaiseKeeps
  <2>4. CASE Resolution
    BY <2>4, ResolveKeeps DEF Resolution
  <2>5. CASE UNCHANGED <<dispute, vote, active,
                         arbiterList>> /\ (instant' = instant \/ InstantPasses)
    <3>1. instant' \in Nat
      BY <2>5 DEF CountInv, CountTypes, InstantPasses
    <3> QED
      BY <2>5, <3>1, OthersKeep
  <2> QED
    BY <2>1, <2>2, <2>3, <2>4, <2>5, Steps
<1> QED
  BY <1>1, CountInit, PTL DEF DisputeSpec

\* The counters of a dispute are the numbers of arbiters who voted that way.
THEOREM VotesCountedAlways == DisputeSpec => []VotesCounted
  BY CountInvariant, PTL DEF CountInv

-----------------------------------------------------------------------------
(* The ruling.                                                             *)

\* There is a ruling exactly when the dispute is resolved, and the votes by head
\* agree with one they or the time decided.
Ruled ==
  ruling # NoRuling =>
    /\ dispute \in Disputes /\ dispute.resolved
    /\ ruling.by # "weight" => Outcome = ruling.side

\* A resolution makes the ruling.
LEMMA ResolveRules ==
  ASSUME CountTypes, Resolution
  PROVE  Ruled'
<1>1. PICK side, by : Resolve(side, by) /\ (by = "weight" \/ side = Outcome)
  BY Zenon DEF Resolution
<1>2. /\ dispute' \in Disputes /\ dispute'.resolved
      /\ dispute'.landlord = dispute.landlord /\ dispute'.tenant = dispute.tenant
      /\ ruling' = [side |-> side, by |-> by]
  BY <1>1, ResolveEffect
<1>3. Outcome' = Outcome
  BY <1>2 DEF Outcome
<1> QED
  BY <1>1, <1>2, <1>3 DEF Ruled

\* Nothing but a resolution touches the ruling or, once there is one, the dispute
\* and its votes.
LEMMA RulingKept ==
  ASSUME CountTypes, Ruled, ruling # NoRuling, [DisputeNext]_disputeVars
  PROVE  UNCHANGED <<ruling, dispute, voteVars>>
<1>1. dispute.raised /\ dispute.resolved
  BY DEF Ruled, Disputes
<1>2. /\ ~\E a \in Arbiter, side \in Side : VoteOnDispute(a, side)
      /\ ~\E who \in Member : RaiseDispute(who)
      /\ ~Resolution
  BY <1>1 DEF VoteOnDispute, RaiseDispute, Resolution, Resolve
<1>3. CASE \E a \in Arbiter : AddArbiter(a) \/ DeactivateArbiter(a) \/ ReactivateArbiter(a)
  BY <1>3 DEF AddArbiter, DeactivateArbiter, ReactivateArbiter
<1>4. CASE /\ UNCHANGED <<dispute, vote, ruling>>
           /\ \/ UNCHANGED <<weightedVote, weighted>>
              \/ dispute.raised /\ ~dispute.resolved
  BY <1>1, <1>4 DEF voteVars
<1> QED
  BY <1>2, <1>3, <1>4, Steps

\* A dispute is resolved once: the ruling, the dispute and the votes stay as they
\* were, and the outcome read later is the ruling unless weights decided.
THEOREM RulingStandsAlways == DisputeSpec => RulingStands
<1>1. DisputeInit => Ruled
  BY DEF DisputeInit, Ruled
<1>2. CountInv /\ Ruled /\ [DisputeNext]_disputeVars => Ruled'
  <2> SUFFICES ASSUME CountInv, Ruled, [DisputeNext]_disputeVars
               PROVE  Ruled'
    OBVIOUS
  <2>1. CASE ruling # NoRuling
    BY <2>1, RulingKept DEF CountInv, Ruled, Outcome
  <2>2. CASE Resolution
    BY <2>2, ResolveRules DEF CountInv
  <2>3. CASE ruling = NoRuling /\ ~Resolution
    <3>1. ruling' = ruling
      BY <2>3, Steps DEF AddArbiter, DeactivateArbiter, ReactivateArbiter, VoteOnDispute,
                         RaiseDispute
    <3> QED
      BY <2>3, <3>1 DEF Ruled
  <2> QED
    BY <2>1, <2>2, <2>3
<1>3. CountInv /\ Ruled /\ [DisputeNext]_disputeVars =>
        [ruling # NoRuling =>
           /\ UNCHANGED <<ruling, dispute, voteVars>>
           /\ dispute'.resolved
           /\ ruling.by # "weight" => Outcome' = ruling.side]_disputeVars
  BY RulingKept DEF CountInv, Ruled, Outcome
<1> QED
  BY <1>1, <1>2, <1>3, CountInvariant, PTL DEF DisputeSpec, RulingStands

-----------------------------------------------------------------------------
(* The appeal.                                                             *)

\* What is known of an appeal: it follows a resolution, after which nobody votes
\* by head, and its bench was chosen among those who had not.
AppealInv ==
  appeal # NoAppeal =>
    /\ appeal \in Appeals /\ appeal.votes \in [appeal.bench -> Side \cup {"none"}]
    /\ dispute.raised /\ dispute.resolved
    /\ Cardinality(appeal.bench) = BenchSize
    /\ \A a \in appeal.bench : vote[a] = "none"
    /\ appeal.status \in {"approved", "rejected"} => AppealVotes("none") = {}
    /\ appeal.feeRefunded <=> appeal.status = "approved"

\* The bench are arbiters on the list who did not vote by head.
LEMMA BenchChosen ==
  ASSUME CountInv, dispute.raised
  PROVE  \A a \in Bench : a \in Arbiter /\ vote[a] = "none"
<1> SUFFICES ASSUME NEW a \in Bench
             PROVE  a \in Arbiter /\ vote[a] = "none"
  OBVIOUS
<1>1. PICK i \in DOMAIN arbiterList : a = arbiterList[i] /\ arbiterList[i] \notin dispute.voters
  BY DEF Bench, First
<1>2. a \in Arbiter
  BY <1>1 DEF CountInv, CountTypes
<1>3. dispute.voters = {b \in Arbiter : vote[b] # "none"}
  BY DEF CountInv, VotesCounted
<1> QED
  BY <1>1, <1>2, <1>3

\* An appeal starts with a bench that has not voted.
LEMMA CreateAppealKeeps ==
  ASSUME CountInv, CreateAppeal
  PROVE  AppealInv'
<1>1. /\ dispute.raised /\ dispute.resolved /\ Cardinality(Bench) = BenchSize
      /\ appeal' = [status |-> "pending", bench |-> Bench,
                    votes |-> [a \in Bench |-> "none"], createdAt |-> instant,
                    feeRefunded |-> FALSE]
      /\ UNCHANGED <<dispute, vote>>
  BY DEF CreateAppeal, voteVars
<1>2. \A a \in Bench : a \in Arbiter /\ vote[a] = "none"
  BY <1>1, BenchChosen
<1>3. instant \in Nat
  BY DEF CountInv, CountTypes
<1>4. Bench \in SUBSET Arbiter
  BY <1>2
<1> DEFINE B == Bench
<1> HIDE DEF B
<1>5. [a \in B |-> "none"] \in [B -> Side \cup {"none"}]
  OBVIOUS
<1>6. appeal' \in Appeals
  BY <1>1, <1>3, <1>4, <1>5 DEF Appeals, Open, B
<1> QED
  BY <1>1, <1>2, <1>5, <1>6 DEF AppealInv, B

\* A member of the bench votes once, while the appeal is open.
LEMMA VoteOnAppealKeeps ==
  ASSUME CountInv, AppealInv, NEW a \in Arbiter, NEW side \in Side, VoteOnAppeal(a, side)
  PROVE  AppealInv'
<1>1. /\ appeal.status \in Open /\ a \in appeal.bench
      /\ appeal' = [appeal EXCEPT !.status = "in_progress", !.votes[a] = side]
      /\ UNCHANGED <<dispute, vote>>
  BY DEF VoteOnAppeal, voteVars
<1>2. appeal # NoAppeal
  BY <1>1 DEF NoAppeal, Open
<1>3. appeal \in Appeals /\ appeal.votes \in [appeal.bench -> Side \cup {"none"}]
  BY <1>2 DEF AppealInv
<1>4. /\ appeal'.bench = appeal.bench /\ appeal'.status = "in_progress"
      /\ appeal'.feeRefunded = appeal.feeRefunded
      /\ appeal'.votes = [appeal.votes EXCEPT ![a] = side]
      /\ appeal'.createdAt = appeal.createdAt
  BY <1>1, <1>3 DEF Appeals
<1>5. appeal'.votes \in [appeal.bench -> Side \cup {"none"}]
  BY <1>3, <1>4
<1>6. appeal' \in Appeals
  <2>1. appeal.bench \in SUBSET Arbiter
    BY <1>3 DEF Appeals
  <2>2. appeal'.votes \in UNION {[b -> Side \cup {"none"}] : b \in SUBSET Arbiter}
    BY <1>5, <2>1
  <2>3. appeal' = [status |-> "in_progress", bench |-> appeal.bench, votes |-> appeal'.votes,
                   createdAt |-> appeal.createdAt, feeRefunded |-> appeal.feeRefunded]
    BY <1>1, <1>3 DEF Appeals
  <2>4. appeal.createdAt \in Nat /\ appeal.feeRefunded \in BOOLEAN
    BY <1>3 DEF Appeals
  <2>5. "in_progress" \in Open \cup {"approved", "rejected", "cancelled"}
    BY DEF Open
  <2> DEFINE v == appeal'.votes
  <2> HIDE DEF v
  <2>6. appeal' = [status |-> "in_progress", bench |-> appeal.bench, votes |-> v,
                   createdAt |-> appeal.createdAt, feeRefunded |-> appeal.feeRefunded]
    BY <2>3 DEF v
  <2>7. v \in UNION {[b -> Side \cup {"none"}] : b \in SUBSET Arbiter}
    BY <2>2 DEF v
  <2> QED
    BY <2>1, <2>4, <2>5, <2>6, <2>7 DEF Appeals
<1>7. ~appeal.feeRefunded
  BY <1>1, <1>2 DEF AppealInv, Open
<1> QED
  BY <1>1, <1>2, <1>4, <1>5, <1>6, <1>7 DEF AppealInv

\* An appeal is decided when all of the bench voted, or withdrawn.
LEMMA EndAppealKeeps ==
  ASSUME CountInv, AppealInv, NEW who, ResolveAppeal(who) \/ CancelAppeal
  PROVE  AppealInv'
<1>1. appeal.status \in Open /\ UNCHANGED <<dispute, vote>>
  BY DEF ResolveAppeal, CancelAppeal, voteVars
<1>2. appeal # NoAppeal
  BY <1>1 DEF NoAppeal, Open
<1>3. appeal \in Appeals /\ appeal.votes \in [appeal.bench -> Side \cup {"none"}]
  BY <1>2 DEF AppealInv
<1>4. CASE ResolveAppeal(who)
  <2> DEFINE won == AppealOutcome # Outcome
  <2>1. /\ AppealVotes("none") = {}
        /\ appeal' = [appeal EXCEPT !.status = IF won THEN "approved" ELSE "rejected",
                                    !.feeRefunded = won]
    BY <1>4 DEF ResolveAppeal
  <2>2. won \in BOOLEAN
    OBVIOUS
  <2> HIDE DEF won
  <2>3. /\ appeal'.bench = appeal.bench /\ appeal'.votes = appeal.votes
        /\ appeal'.status = IF won THEN "approved" ELSE "rejected"
        /\ appeal'.feeRefunded = won
        /\ appeal' \in Appeals
    BY <1>3, <2>1, <2>2 DEF Appeals
  <2>4. AppealVotes("none")' = {}
    BY <2>1, <2>3 DEF AppealVotes
  <2> QED
    BY <1>1, <1>2, <1>3, <2>2, <2>3, <2>4 DEF AppealInv
<1>5. CASE CancelAppeal
  <2>1. /\ appeal'.bench = appeal.bench /\ appeal'.votes = appeal.votes
        /\ appeal'.status = "cancelled" /\ appeal'.feeRefunded = appeal.feeRefunded
        /\ appeal' \in Appeals
    BY <1>3, <1>5 DEF CancelAppeal, Appeals
  <2>2. ~appeal.feeRefunded
    BY <1>1, <1>2 DEF AppealInv, Open
  <2> QED
    BY <1>1, <1>2, <1>3, <2>1, <2>2 DEF AppealInv
<1> QED
  BY <1>4, <1>5

\* Nothing else touches the appeal or, when there is one, the votes by head.
LEMMA AppealRest ==
  ASSUME CountInv, AppealInv, appeal' = appeal, [DisputeNext]_disputeVars
  PROVE  AppealInv'
<1> SUFFICES ASSUME appeal # NoAppeal
             PROVE  AppealInv'
  BY DEF AppealInv
<1>1. dispute.raised /\ dispute.resolved
  BY DEF AppealInv
<1>2. UNCHANGED <<dispute, vote>>
  <2>1. CASE \E a \in Arbiter : AddArbiter(a) \/ DeactivateArbiter(a) \/ ReactivateArbiter(a)
    BY <2>1 DEF AddArbiter, DeactivateArbiter, ReactivateArbiter, voteVars
  <2>2. /\ ~\E a \in Arbiter, side \in Side : VoteOnDispute(a, side)
        /\ ~\E who \in Member : RaiseDispute(who)
        /\ ~Resolution
    BY <1>1 DEF VoteOnDispute, RaiseDispute, Resolution, Resolve
  <2> QED
    BY <2>1, <2>2, Steps
<1> QED
  BY <1>2 DEF AppealInv, AppealVotes

\* What the invariant says of the decision.
LEMMA BenchDecides == AppealInv => AppealByBench
<1> SUFFICES ASSUME AppealInv, appeal # NoAppeal
             PROVE  /\ Cardinality(appeal.bench) = BenchSize
                    /\ appeal.bench \cap {a \in Arbiter : vote[a] # "none"} = {}
                    /\ appeal.status \in {"approved", "rejected"} =>
                         /\ 2 * Cardinality(AppealVotes(AppealOutcome)) >= BenchSize
                         /\ AppealVotes("none") = {}
                    /\ appeal.feeRefunded <=> appeal.status = "approved"
  BY DEF AppealByBench
<1> DEFINE L == AppealVotes("landlord")
           T == AppealVotes("tenant")
<1>1. ASSUME AppealVotes("none") = {}
      PROVE  2 * Cardinality(AppealVotes(AppealOutcome)) >= BenchSize
  <2>1. IsFiniteSet(appeal.bench)
    <3>1. appeal.bench \in SUBSET Arbiter
      BY DEF AppealInv, Appeals
    <3> QED
      BY <3>1, DisputeAssumption, FS_Subset
  <2>2. L \in SUBSET appeal.bench /\ T \in SUBSET appeal.bench
    BY DEF AppealVotes
  <2>3. L \cup T = appeal.bench /\ L \cap T = {}
    BY <1>1 DEF AppealInv, AppealVotes, Side
  <2>4. IsFiniteSet(L) /\ IsFiniteSet(T)
    BY <2>1, <2>2, FS_Subset
  <2>5. AppealOutcome = IF Cardinality(L) > Cardinality(T) THEN "landlord" ELSE "tenant"
    BY DEF AppealOutcome
  <2>6. AppealVotes(AppealOutcome) = IF Cardinality(L) > Cardinality(T) THEN L ELSE T
    BY <2>5
  <2> HIDE DEF L, T
  <2>7. Cardinality(L) \in Nat /\ Cardinality(T) \in Nat
    BY <2>4, FS_CardinalityType
  <2>8. Cardinality(L \cup T) = Cardinality(L) + Cardinality(T) - Cardinality(L \cap T)
    BY <2>4, FS_Union
  <2>9. BenchSize = Cardinality(L) + Cardinality(T)
    <3>1. Cardinality(L \cup T) = BenchSize /\ Cardinality(L \cap T) = 0
      BY <2>3, FS_EmptySet DEF AppealInv
    <3> QED
      BY <2>7, <2>8, <3>1
  <2>10. CASE Cardinality(L) > Cardinality(T)
    <3>1. AppealVotes(AppealOutcome) = L
      BY <2>6, <2>10
    <3> QED
      BY <2>7, <2>9, <2>10, <3>1
  <2>11. CASE ~(Cardinality(L) > Cardinality(T))
    <3>1. AppealVotes(AppealOutcome) = T
      BY <2>6, <2>11
    <3> QED
      BY <2>7, <2>9, <2>11, <3>1
  <2> QED
    BY <2>10, <2>11
<1> QED
  BY <1>1 DEF AppealInv

\* What is known of an appeal stays so, whatever arbiters there are and however
\* large the bench has to be.
THEOREM AppealInvariant == DisputeSpec => []AppealInv
<1>1. DisputeInit => AppealInv
  BY DEF DisputeInit, AppealInv
<1>2. CountInv /\ AppealInv /\ [DisputeNext]_disputeVars => AppealInv'
  <2> SUFFICES ASSUME CountInv, AppealInv, [DisputeNext]_disputeVars
               PROVE  AppealInv'
    OBVIOUS
  <2>1. CASE appeal' = appeal
    BY <2>1, AppealRest
  <2>2. CASE CreateAppeal
    BY <2>2, CreateAppealKeeps
  <2>3. CASE \E a \in Arbiter, side \in Side : VoteOnAppeal(a, side)
    BY <2>3, VoteOnAppealKeeps
  <2>4. CASE CancelAppeal \/ \E who \in Member : ResolveAppeal(who)
    BY <2>4, EndAppealKeeps
  <2>5. CASE Administer
    BY <2>1, <2>5 DEF Administer, PauseDisputes, UnpauseDisputes, AcceptDisputeAdmin,
                ProposeDisputeAdmin, SetTimeoutConfig, AddArbiter, DeactivateArbiter,
                ReactivateArbiter, SetArbiterStats
  <2>6. CASE \/ \E a \in Arbiter, side \in Side :
                  VoteOnDispute(a, side) \/ VoteOnDisputeWeighted(a, side)
             \/ \E who \in Member :
                  RaiseDispute(who) \/ ResolveDispute(who) \/ ResolveDisputeWeighted(who)
             \/ ResolveDisputeOnTimeout \/ InstantPasses
             \/ UNCHANGED disputeVars
    BY <2>1, <2>6 DEF VoteOnDispute, VoteOnDisputeWeighted, RaiseDispute, ResolveDispute,
                ResolveDisputeWeighted, ResolveDisputeOnTimeout, Resolve, InstantPasses,
                disputeVars
  <2> QED
    BY <2>2, <2>3, <2>4, <2>5, <2>6 DEF DisputeNext
<1> QED
  BY <1>1, <1>2, CountInvariant, PTL DEF DisputeSpec

\* An appeal is heard by a full bench of arbiters none of whom voted by head, is
\* decided by all of them and with at least half of them, and pays the fee back
\* exactly when it succeeds, whatever arbiters there are and however large the
\* bench has to be.
THEOREM AppealByBenchAlways == DisputeSpec => []AppealByBench
BY AppealInvariant, BenchDecides, PTL

-----------------------------------------------------------------------------
(* The types of a dispute's records.                                       *)

\* The administration writes what the admin may enter.
LEMMA AdministerTypes ==
  ASSUME DisputeTypeOK, CountTypes', AppealInv', Administer
  PROVE  DisputeTypeOK'
<1>1. UNCHANGED <<weightedVote, weighted, ruling>>
  BY DEF Administer, PauseDisputes, UnpauseDisputes, AcceptDisputeAdmin, ProposeDisputeAdmin,
         SetTimeoutConfig, AddArbiter, DeactivateArbiter, ReactivateArbiter, SetArbiterStats,
         voteVars
<1>2. changes' \in Nat
  BY DEF Administer, PauseDisputes, UnpauseDisputes, AcceptDisputeAdmin, ProposeDisputeAdmin,
         SetTimeoutConfig, AddArbiter, DeactivateArbiter, ReactivateArbiter, SetArbiterStats,
         Change, adminVars, DisputeTypeOK
<1>3. /\ disputeAdmin' \in Candidate /\ disputePending' \in Candidate \cup {Nobody}
      /\ disputePaused' \in BOOLEAN /\ timeout' \in Timeouts
  BY DEF Administer, PauseDisputes, UnpauseDisputes, AcceptDisputeAdmin, ProposeDisputeAdmin,
         SetTimeoutConfig, AddArbiter, DeactivateArbiter, ReactivateArbiter, SetArbiterStats,
         adminVars, DisputeTypeOK
<1>4. stats' \in [Arbiter -> [rating: Nat, resolved: Nat]]
  <2>1. CASE \E a \in Arbiter, r \in Ratings, n \in Experience : SetArbiterStats(a, r, n)
    <3>1. PICK a \in Arbiter, r \in Ratings, n \in Experience :
                 stats' = [stats EXCEPT ![a] = [rating |-> r, resolved |-> n]]
      BY <2>1 DEF SetArbiterStats
    <3>2. [rating |-> r, resolved |-> n] \in [rating: Nat, resolved: Nat]
      BY DisputeAssumption
    <3> QED
      BY <3>1, <3>2 DEF DisputeTypeOK
  <2>2. CASE stats' = stats
    BY <2>2 DEF DisputeTypeOK
  <2> QED
    BY <2>1, <2>2
       DEF Administer, PauseDisputes, UnpauseDisputes, AcceptDisputeAdmin,
           ProposeDisputeAdmin, SetTimeoutConfig, AddArbiter, DeactivateArbiter,
           ReactivateArbiter, arbiterVars
<1> QED
  BY <1>1, <1>2, <1>3, <1>4 DEF DisputeTypeOK, CountTypes, Disputes, AppealInv

\* A weighted vote is stored and added up.
LEMMA WeightedTypes ==
  ASSUME DisputeTypeOK, NEW a \in Arbiter, NEW side \in Side, VoteOnDisputeWeighted(a, side)
  PROVE  /\ weightedVote' \in [Arbiter -> [side: Side \cup {"none"}, weight: Nat]]
         /\ weighted' \in [landlord: Nat, tenant: Nat, voters: Seq(Arbiter)]
<1>1. Weight(a) \in Nat
  <2>1. PICK r \in Nat, n \in Nat : stats[a] = [rating |-> r, resolved |-> n]
    BY DEF DisputeTypeOK
  <2> DEFINE x == r * 2 * n * 2
  <2>2. x \in Nat
    BY <2>1
  <2>3. Weight(a) = IF x \div 100 = 0 THEN 1 ELSE x \div 100
    BY <2>1 DEF Weight
  <2> HIDE DEF x
  <2>4. x \div 100 \in Nat
    BY <2>2
  <2> QED
    BY <2>3, <2>4
<1> DEFINE w == Weight(a)
<1>2. /\ weightedVote' = [weightedVote EXCEPT ![a] = [side |-> side, weight |-> w]]
      /\ weighted' = [weighted EXCEPT ![side] = @ + w, !.voters = Append(@, a)]
  BY DEF VoteOnDisputeWeighted
<1>3. w \in Nat
  BY <1>1
<1> HIDE DEF w
<1>4. Append(weighted.voters, a) \in Seq(Arbiter)
  BY DEF DisputeTypeOK
<1> DEFINE s == Append(weighted.voters, a)
<1> HIDE DEF s
<1>5. PICK l \in Nat, t \in Nat, v \in Seq(Arbiter) :
            weighted = [landlord |-> l, tenant |-> t, voters |-> v]
  BY DEF DisputeTypeOK
<1>6. s \in Seq(Arbiter)
  BY <1>4 DEF s
<1>7. weighted' \in [landlord: Nat, tenant: Nat, voters: Seq(Arbiter)]
  <2>1. CASE side = "landlord"
    <3>1. weighted' = [landlord |-> l + w, tenant |-> t, voters |-> s]
      BY <1>2, <1>5, <2>1 DEF s
    <3> QED
      BY <1>3, <1>5, <1>6, <3>1
  <2>2. CASE side = "tenant"
    <3>1. weighted' = [landlord |-> l, tenant |-> t + w, voters |-> s]
      BY <1>2, <1>5, <2>2 DEF s
    <3> QED
      BY <1>3, <1>5, <1>6, <3>1
  <2> QED
    BY <2>1, <2>2 DEF Side
<1> QED
  BY <1>2, <1>3, <1>7 DEF DisputeTypeOK

\* What the weights decide is what some vote said.
LEMMA RulingTypes ==
  ASSUME DisputeTypeOK, weighted.voters # <<>>
  PROVE  WeightedOutcome \in Side \cup {"none"}
<1>1. Head(weighted.voters) \in Arbiter
  BY DEF DisputeTypeOK
<1> QED
  BY <1>1 DEF WeightedOutcome, DisputeTypeOK, Side

\* The records of a dispute keep their types.
LEMMA DisputeTypesStep ==
  ASSUME DisputeTypeOK, CountTypes', AppealInv', [DisputeNext]_disputeVars
  PROVE  DisputeTypeOK'
<1> DEFINE Rest == UNCHANGED <<disputeAdmin, disputePending, disputePaused, timeout, changes,
                               stats>>
<1>1. CASE Administer
  BY <1>1, AdministerTypes
<1>2. CASE \E a \in Arbiter, side \in Side : VoteOnDisputeWeighted(a, side)
  <2>1. Rest /\ ruling' = ruling
    BY <1>2 DEF VoteOnDisputeWeighted, adminVars, arbiterVars
  <2>2. /\ weightedVote' \in [Arbiter -> [side: Side \cup {"none"}, weight: Nat]]
        /\ weighted' \in [landlord: Nat, tenant: Nat, voters: Seq(Arbiter)]
    <3>1. PICK a \in Arbiter, side \in Side : VoteOnDisputeWeighted(a, side)
      BY <1>2
    <3> QED
      BY <3>1, WeightedTypes
  <2> HIDE DEF Rest
  <2>3. /\ disputeAdmin' \in Candidate /\ disputePending' \in Candidate \cup {Nobody}
        /\ disputePaused' \in BOOLEAN /\ timeout' \in Timeouts /\ changes' \in Nat
    BY <2>1, Zenon DEF DisputeTypeOK, Rest
  <2>4. /\ stats' \in [Arbiter -> [rating: Nat, resolved: Nat]]
        /\ ruling' \in [side: Side \cup {"none"}, by: {"none", "votes", "timeout", "weight"}]
    BY <2>1 DEF DisputeTypeOK, Rest
  <2> QED
    BY <2>2, <2>3, <2>4 DEF DisputeTypeOK, CountTypes, Disputes, AppealInv
<1>3. CASE \/ ResolveDisputeOnTimeout
           \/ \E who \in Member : ResolveDispute(who) \/ ResolveDisputeWeighted(who)
  <2>1. PICK by \in {"votes", "timeout", "weight"} :
               /\ Resolve(IF by = "weight" THEN WeightedOutcome ELSE Outcome, by)
               /\ by = "weight" => weighted.voters # <<>>
    BY <1>3 DEF ResolveDisputeOnTimeout, ResolveDispute, ResolveDisputeWeighted
  <2> DEFINE side == IF by = "weight" THEN WeightedOutcome ELSE Outcome
  <2>2. /\ Rest /\ UNCHANGED <<weightedVote, weighted>>
        /\ ruling' = [side |-> side, by |-> by]
    BY <2>1 DEF Resolve, adminVars, arbiterVars, voteVars
  <2>3. ruling' \in [side: Side \cup {"none"}, by: {"none", "votes", "timeout", "weight"}]
    <3>1. CASE by = "weight"
      BY <2>1, <2>2, <3>1, RulingTypes
    <3>2. CASE by # "weight"
      BY <2>2, <3>2 DEF Outcome, Side
    <3> QED
      BY <3>1, <3>2
  <2> QED
    BY <2>2, <2>3 DEF DisputeTypeOK, CountTypes, Disputes, AppealInv
<1>4. CASE \/ \E a \in Arbiter, side \in Side : VoteOnDispute(a, side) \/ VoteOnAppeal(a, side)
           \/ \E who \in Member : RaiseDispute(who) \/ ResolveAppeal(who)
           \/ CreateAppeal \/ CancelAppeal \/ InstantPasses \/ UNCHANGED disputeVars
  <2>1. Rest /\ UNCHANGED <<weightedVote, weighted, ruling>>
    BY <1>4 DEF VoteOnDispute, VoteOnAppeal, RaiseDispute, ResolveAppeal, CreateAppeal,
                CancelAppeal, InstantPasses, adminVars, arbiterVars, voteVars, disputeVars
  <2> HIDE DEF Rest
  <2>2. /\ disputeAdmin' \in Candidate /\ disputePending' \in Candidate \cup {Nobody}
        /\ disputePaused' \in BOOLEAN /\ timeout' \in Timeouts /\ changes' \in Nat
    BY <2>1, Zenon DEF DisputeTypeOK, Rest
  <2>3. /\ stats' \in [Arbiter -> [rating: Nat, resolved: Nat]]
        /\ weightedVote' \in [Arbiter -> [side: Side \cup {"none"}, weight: Nat]]
    BY <2>1 DEF DisputeTypeOK, Rest
  <2>4. /\ weighted' \in [landlord: Nat, tenant: Nat, voters: Seq(Arbiter)]
        /\ ruling' \in [side: Side \cup {"none"}, by: {"none", "votes", "timeout", "weight"}]
    BY <2>1 DEF DisputeTypeOK
  <2> QED
    BY <2>2, <2>3, <2>4 DEF DisputeTypeOK, CountTypes, Disputes, AppealInv
<1> QED
  BY <1>1, <1>2, <1>3, <1>4 DEF DisputeNext

\* The records of a dispute have their types.
THEOREM DisputeTypes == DisputeSpec => []DisputeTypeOK
<1>1. DisputeInit => DisputeTypeOK
  <2> SUFFICES ASSUME DisputeInit
               PROVE  DisputeTypeOK
    OBVIOUS
  <2>1. CountTypes
    BY CountInit DEF CountInv
  <2>2. /\ stats \in [Arbiter -> [rating: Nat, resolved: Nat]]
        /\ weightedVote \in [Arbiter -> [side: Side \cup {"none"}, weight: Nat]]
    BY DEF DisputeInit, NoVote
  <2>3. weighted \in [landlord: Nat, tenant: Nat, voters: Seq(Arbiter)]
    BY DEF DisputeInit
  <2>4. ruling \in [side: Side \cup {"none"}, by: {"none", "votes", "timeout", "weight"}]
    BY DEF DisputeInit, NoRuling
  <2> QED
    BY <2>1, <2>2, <2>3, <2>4 DEF DisputeInit, DisputeTypeOK, CountTypes, Disputes
<1>2. DisputeTypeOK /\ CountInv' /\ AppealInv' /\ [DisputeNext]_disputeVars => DisputeTypeOK'
  BY DisputeTypesStep DEF CountInv
<1> QED
  BY <1>1, <1>2, CountInvariant, AppealInvariant, PTL DEF DisputeSpec

-----------------------------------------------------------------------------
(* The registry and its mirror.                                            *)
-----------------------------------------------------------------------------

Requests ==
  [op: {"none", "register", "verify", "transfer"}, p: Property \cup {"none"},
   who: Person \cup {NoOne}, pc: {"idle", "sent", "save", "history", "done"},
   tx: {"none", "pending", "SUCCESS", "FAILED"}, row: Row]

Transferred(p) ==
  \E r \in Request : req[r].op = "transfer" /\ req[r].p = p /\ req[r].pc # "save"

\* A row that is true of the property, and its landlord's, but for a transfer.
True(row, p) ==
  row # NoRow =>
    /\ properties[p] # NoProperty
    /\ row.verified => properties[p].verified

Owned(row, p) == row # NoRow => row.owner = properties[p].landlord \/ Transferred(p)

\* What a request has seen: its call is on the ledger, and the row is true that
\* it is about to store.
Seen(q) ==
  /\ q.op # "none" => q.p \in Property
  /\ q.op = "none" => q.pc \in {"idle", "done"} /\ q.tx = "none"
  /\ q.pc = "idle" => q.op = "none"
  /\ q.tx # "none" => q.op \in {"register", "verify"}
  /\ q.tx \in {"pending", "FAILED"} => q.pc \in {"sent", "done"}
  /\ q.tx = "SUCCESS" /\ q.op = "register" /\ q.who # NoOne =>
       properties[q.p].landlord = q.who
  /\ q.tx = "SUCCESS" /\ q.op = "verify" => properties[q.p].verified
  /\ q.pc = "save" =>
       /\ True(q.row, q.p)
       /\ q.op # "transfer" => Owned(q.row, q.p)

Types ==
  /\ properties \in [Property -> [landlord: Person \cup {NoOne}, verified: BOOLEAN]]
  /\ rows \in [Property -> Row]
  /\ req \in [Request -> Requests]

Inv ==
  /\ Types
  /\ \A p \in Property : properties[p].verified => properties[p] # NoProperty
  /\ \A r \in Request : Seen(req[r])
  /\ \A p \in Property : True(rows[p], p) /\ Owned(rows[p], p)

-----------------------------------------------------------------------------
\* The ledger takes nothing back.
Grows ==
  /\ properties' \in [Property -> [landlord: Person \cup {NoOne}, verified: BOOLEAN]]
  /\ \A p \in Property :
       /\ properties[p] # NoProperty =>
            properties'[p] # NoProperty /\ properties'[p].landlord = properties[p].landlord
       /\ properties[p].verified => properties'[p].verified
       /\ properties'[p].verified => properties'[p] # NoProperty

\* Nor does the backend forget a transfer.
Remembers == \A p \in Property : Transferred(p) => Transferred(p)'

\* What was true stays true while the ledger grows.
LEMMA TrueStays ==
  ASSUME Grows, Remembers, NEW row, NEW p \in Property, True(row, p)
  PROVE  True(row, p)' /\ (Owned(row, p) => Owned(row, p)')
BY DEF Grows, Remembers, True, Owned

\* What a request has seen it has seen.
LEMMA SeenStays ==
  ASSUME Grows, Remembers, NEW q \in Requests, Seen(q)
  PROVE  Seen(q)'
<1>1. CASE q.op = "none"
  BY <1>1 DEF Seen
<1>2. CASE q.op # "none"
  <2>1. q.p \in Property
    BY <1>2 DEF Seen
  <2>2. q.tx = "SUCCESS" /\ q.op = "register" /\ q.who # NoOne =>
          properties'[q.p].landlord = q.who
    BY <2>1 DEF Seen, Grows, NoProperty
  <2>3. q.tx = "SUCCESS" /\ q.op = "verify" => properties'[q.p].verified
    BY <2>1 DEF Seen, Grows
  <2>4. q.pc = "save" =>
          True(q.row, q.p)' /\ (q.op # "transfer" => Owned(q.row, q.p)')
    BY <2>1, TrueStays DEF Seen
  <2> QED
    BY <2>1, <2>2, <2>3, <2>4 DEF Seen
<1> QED
  BY <1>1, <1>2

\* A step of the ledger, or of one request that stores nothing.
LEMMA RequestStep ==
  ASSUME Inv, Grows, NEW r \in Request, NEW q \in Requests,
         req' = [req EXCEPT ![r] = q], rows' = rows, Seen(q)',
         req[r].op = "transfer" /\ req[r].pc # "save" =>
           q.op = "transfer" /\ q.p = req[r].p /\ q.pc # "save"
  PROVE  Inv'
<1>1. Types'
  BY DEF Inv, Types, Grows
<1>2. Remembers
  BY DEF Inv, Types, Remembers, Transferred
<1>3. ASSUME NEW s \in Request
      PROVE  Seen(req[s])'
  <2>1. CASE s = r
    BY <2>1 DEF Inv, Types
  <2>2. CASE s # r
    <3>1. req'[s] = req[s] /\ req[s] \in Requests /\ Seen(req[s])
      BY <2>2 DEF Inv, Types
    <3>2. Seen(req[s])' <=> (\A x : x = req[s] => Seen(x)')
      BY <3>1 DEF Seen, True, Owned, Transferred
    <3> QED
      BY <3>1, <3>2, <1>2, SeenStays
  <2> QED
    BY <2>1, <2>2
<1>4. ASSUME NEW p \in Property
      PROVE  True(rows[p], p)' /\ Owned(rows[p], p)'
  BY <1>2, TrueStays DEF Inv, True, Owned
<1> QED
  BY <1>1, <1>3, <1>4 DEF Inv, Grows

\* A step of the ledger by somebody else.
LEMMA LedgerStep ==
  ASSUME Inv, Grows, UNCHANGED backend
  PROVE  Inv'
<1>1. UNCHANGED <<req, rows>>
  BY DEF backend
<1>2. Remembers
  BY <1>1 DEF Remembers, Transferred
<1>3. Types'
  BY <1>1 DEF Inv, Types, Grows
<1>4. ASSUME NEW s \in Request
      PROVE  Seen(req[s])'
  <2>1. req'[s] = req[s] /\ req[s] \in Requests /\ Seen(req[s])
    BY <1>1 DEF Inv, Types
  <2>2. Seen(req[s])' <=> (\A x : x = req[s] => Seen(x)')
    BY <2>1 DEF Seen, True, Owned, Transferred
  <2> QED
    BY <2>1, <2>2, <1>2, SeenStays
<1>5. ASSUME NEW p \in Property
      PROVE  True(rows[p], p)' /\ Owned(rows[p], p)'
  BY <1>1, <1>2, TrueStays DEF Inv, True, Owned
<1> QED
  BY <1>3, <1>4, <1>5 DEF Inv, Grows

\* A call of the contract that leaves the properties alone.
LEMMA NothingGrows == Inv /\ UNCHANGED properties => Grows
BY DEF Inv, Types, Grows

\* Registering gives an unknown property its landlord, verifying verifies it.
LEMMA CallsGrow ==
  ASSUME Inv, NEW who \in Person \cup {NoOne}, NEW p \in Property,
         RegisterProperty(who, p) \/ VerifyProperty(who, p)
  PROVE  /\ Grows
         /\ RegisterProperty(who, p) => properties'[p].landlord = who
         /\ VerifyProperty(who, p) => properties'[p].verified
<1>1. properties \in [Property -> [landlord: Person \cup {NoOne}, verified: BOOLEAN]]
  BY DEF Inv, Types
<1>2. CASE RegisterProperty(who, p)
  <2>1. properties' = [properties EXCEPT ![p] = [properties[p] EXCEPT !.landlord = who]]
    BY <1>2 DEF RegisterProperty
  <2>2. properties[p] = NoProperty
    BY <1>2 DEF RegisterProperty, MayRegister
  <2>3. /\ properties'[p].landlord = who
        /\ properties'[p].verified = FALSE
        /\ properties' \in [Property -> [landlord: Person \cup {NoOne}, verified: BOOLEAN]]
        /\ \A o \in Property \ {p} : properties'[o] = properties[o]
    <3>1. properties[p].verified = FALSE
      BY <2>2 DEF NoProperty
    <3> QED
      BY <1>1, <2>1, <3>1
  <2>4. ~VerifyProperty(who, p)
    BY <2>2 DEF VerifyProperty, MayVerify
  <2> QED
    BY <2>2, <2>3, <2>4 DEF Grows, Inv
<1>3. CASE VerifyProperty(who, p)
  <2>1. properties' = [properties EXCEPT ![p] = [properties[p] EXCEPT !.verified = TRUE]]
    BY <1>3 DEF VerifyProperty
  <2>2. properties[p] # NoProperty
    BY <1>3 DEF VerifyProperty, MayVerify
  <2>3. /\ properties'[p].landlord = properties[p].landlord
        /\ properties'[p].verified = TRUE
        /\ properties' \in [Property -> [landlord: Person \cup {NoOne}, verified: BOOLEAN]]
        /\ \A o \in Property \ {p} : properties'[o] = properties[o]
    BY <1>1, <2>1
  <2>4. properties'[p] # NoProperty
    BY <2>3 DEF NoProperty
  <2>5. ~RegisterProperty(who, p)
    BY <2>2 DEF RegisterProperty, MayRegister
  <2> QED
    BY <2>2, <2>3, <2>4, <2>5 DEF Grows, Inv
<1> QED
  BY <1>2, <1>3

-----------------------------------------------------------------------------
(* The requests.                                                           *)

\* The types of a new request.
LEMMA NewTypes ==
  /\ NoRow \in Row /\ NewReq \in Requests
  /\ NewReq.op = "none" /\ NewReq.pc = "idle" /\ NewReq.tx = "none"
BY DEF NoRow, Row, NewReq, Requests, NoOne

\* A request whose call cannot succeed ends, one whose call was sent has seen nothing.
LEMMA SubmitKeeps ==
  ASSUME Inv, NEW r \in Request, NEW op \in {"register", "verify"}, NEW who \in Person,
         NEW p \in Property, Submit(r, op, who, p)
  PROVE  Inv'
<1> DEFINE sent == [NewReq EXCEPT !.op = op, !.p = p, !.who = who, !.pc = "sent", !.tx = "pending"]
           done == [NewReq EXCEPT !.pc = "done"]
<1>1. PICK q \in {sent, done} : req' = [req EXCEPT ![r] = q]
  BY DEF Submit
<1>2. UNCHANGED <<properties, rows>> /\ req[r].pc = "idle"
  BY DEF Submit, contract
<1>3. q \in Requests /\ Seen(q)'
  <2>1. CASE q = sent
    <3>1. /\ sent \in Requests /\ sent.op = op /\ sent.p = p /\ sent.tx = "pending"
          /\ sent.pc = "sent"
      BY DEF NewReq, Requests, Row, NoRow
    <3> HIDE DEF sent
    <3> QED
      BY <2>1, <3>1 DEF Seen
  <2>2. CASE q = done
    <3>1. /\ done \in Requests /\ done.op = "none" /\ done.pc = "done" /\ done.tx = "none"
      BY DEF NewReq, Requests, Row, NoRow
    <3> HIDE DEF done
    <3> QED
      BY <2>2, <3>1 DEF Seen
  <2> QED
    BY <2>1, <2>2
<1>4. Grows
  BY <1>2, NothingGrows
<1>5. req[r].op # "transfer"
  BY <1>2 DEF Inv, Seen
<1> QED
  BY <1>1, <1>2, <1>3, <1>4, <1>5, RequestStep

\* The network includes the call of a request, or refuses it.
LEMMA IncludeKeeps ==
  ASSUME Inv, NEW r \in Request, Include(r)
  PROVE  Inv'
<1> DEFINE q == req[r]
           After(tx) == [q EXCEPT !.tx = tx]
<1>1. /\ q \in Requests /\ Seen(q) /\ q.tx = "pending" /\ rows' = rows
      /\ q.op \in {"register", "verify"} /\ q.p \in Property /\ q.who \in Person \cup {NoOne}
      /\ q.pc \in {"sent", "done"}
  BY DEF Include, Inv, Types, Seen, Requests
<1>2. \A tx \in {"SUCCESS", "FAILED"} :
        /\ After(tx) \in Requests
        /\ After(tx).op = q.op /\ After(tx).p = q.p /\ After(tx).pc = q.pc
        /\ After(tx).who = q.who /\ After(tx).tx = tx
  BY <1>1 DEF Requests
<1>3. CASE /\ req' = [req EXCEPT ![r].tx = "SUCCESS"]
           /\ \/ q.op = "register" /\ RegisterProperty(q.who, q.p)
              \/ q.op = "verify" /\ VerifyProperty(q.who, q.p)
  <2>1. /\ Grows
        /\ q.op = "register" => properties'[q.p].landlord = q.who
        /\ q.op = "verify" => properties'[q.p].verified
    BY <1>1, <1>3, CallsGrow
  <2>2. req' = [req EXCEPT ![r] = After("SUCCESS")]
    BY <1>3
  <2>3. PICK a : a = After("SUCCESS")
    OBVIOUS
  <2> HIDE DEF After
  <2>4. a \in Requests /\ Seen(a)'
    BY <1>1, <1>2, <2>1, <2>3 DEF Seen
  <2> QED
    BY <1>1, <2>1, <2>2, <2>3, <2>4, RequestStep
<1>4. CASE req' = [req EXCEPT ![r].tx = "FAILED"] /\ UNCHANGED contract
  <2>1. Grows
    BY <1>4, NothingGrows DEF contract
  <2>2. req' = [req EXCEPT ![r] = After("FAILED")]
    BY <1>4
  <2>3. PICK a : a = After("FAILED")
    OBVIOUS
  <2> HIDE DEF After
  <2>4. a \in Requests /\ Seen(a)'
    BY <1>1, <1>2, <2>3 DEF Seen
  <2> QED
    BY <1>1, <2>1, <2>2, <2>3, <2>4, RequestStep
<1> QED
  BY <1>3, <1>4 DEF Include

\* The row of a call that succeeded is true: a registration's landlord is on the
\* ledger, and a verification's row was read while it was.
LEMMA FoundKeeps ==
  ASSUME Inv, NEW r \in Request, Found(r)
  PROVE  Inv'
<1> DEFINE q == req[r]
           row == IF q.op = "register" THEN [owner |-> q.who, verified |-> FALSE]
                  ELSE [rows[q.p] EXCEPT !.verified = TRUE]
           pc == IF q.op = "verify" /\ rows[q.p] = NoRow THEN "done" ELSE "save"
           new == [q EXCEPT !.row = row, !.pc = pc]
<1>1. /\ q \in Requests /\ Seen(q) /\ q.tx = "SUCCESS" /\ UNCHANGED <<properties, rows>>
      /\ q.op \in {"register", "verify"} /\ q.p \in Property /\ q.who \in Person \cup {NoOne}
  BY DEF Found, Sees, Inv, Types, Seen, Requests, contract
<1>2. rows[q.p] \in Row /\ True(rows[q.p], q.p) /\ Owned(rows[q.p], q.p)
  BY <1>1 DEF Inv, Types
<1>3. row \in Row /\ (pc = "save" => True(row, q.p) /\ Owned(row, q.p))
  <2>1. CASE q.op = "register"
    <3>1. row = [owner |-> q.who, verified |-> FALSE]
      BY <2>1
    <3>2. row \in Row /\ row.owner = q.who /\ row.verified = FALSE
      BY <1>1, <3>1 DEF Row
    <3>3. q.who = NoOne => row = NoRow
      BY <3>1 DEF NoRow
    <3>4. q.who # NoOne => properties[q.p].landlord = q.who /\ properties[q.p] # NoProperty
      BY <1>1, <2>1 DEF Seen, NoProperty
    <3> HIDE DEF row
    <3> QED
      BY <3>2, <3>3, <3>4 DEF True, Owned
  <2>2. CASE q.op = "verify"
    <3>1. row = [rows[q.p] EXCEPT !.verified = TRUE]
      BY <2>2
    <3>2. row \in Row /\ row.owner = rows[q.p].owner
      BY <1>2, <3>1 DEF Row
    <3>3. pc = "save" => rows[q.p] # NoRow
      BY <2>2
    <3>4. properties[q.p].verified
      BY <1>1, <2>2 DEF Seen
    <3> HIDE DEF row, pc
    <3> QED
      BY <1>2, <3>2, <3>3, <3>4 DEF True, Owned
  <2> QED
    BY <1>1, <2>1, <2>2
<1>4. req' = [req EXCEPT ![r] = new]
  BY DEF Found
<1>5. pc \in {"done", "save"}
  OBVIOUS
<1> HIDE DEF row, pc
<1>6. /\ new \in Requests /\ new.op = q.op /\ new.p = q.p /\ new.who = q.who /\ new.tx = q.tx
      /\ new.pc = pc /\ new.row = row
  BY <1>1, <1>3, <1>5 DEF Requests
<1>7. PICK a : a = new
  OBVIOUS
<1>8. PICK x : x = row
  OBVIOUS
<1> HIDE DEF new
<1>9. Grows /\ Remembers
  BY <1>1, <1>4, <1>6, NothingGrows DEF Remembers, Transferred, Inv, Types
<1>10. pc = "save" => True(x, a.p)' /\ Owned(x, a.p)'
  BY <1>1, <1>3, <1>6, <1>7, <1>8, <1>9, TrueStays
<1>11. a \in Requests /\ Seen(a)'
  BY <1>1, <1>5, <1>6, <1>7, <1>8, <1>10 DEF Seen
<1> QED
  BY <1>1, <1>4, <1>6, <1>7, <1>9, <1>11, RequestStep

\* A request that gives up has seen what it has seen.
LEMMA GiveUpKeeps ==
  ASSUME Inv, NEW r \in Request, GiveUp(r) \/ SaveHistory(r)
  PROVE  Inv'
<1> DEFINE q == req[r]
           new == [q EXCEPT !.pc = "done"]
<1>1. /\ q \in Requests /\ Seen(q) /\ UNCHANGED <<properties, rows>>
      /\ req' = [req EXCEPT ![r] = new]
  BY DEF GiveUp, SaveHistory, Inv, Types, contract
<1>2. /\ new \in Requests /\ new.op = q.op /\ new.p = q.p /\ new.who = q.who /\ new.tx = q.tx
      /\ new.pc = "done"
  BY <1>1 DEF Requests
<1>3. PICK a : a = new
  OBVIOUS
<1> HIDE DEF new
<1>4. Grows
  BY <1>1, NothingGrows
<1>5. Seen(a)'
  BY <1>1, <1>2, <1>3 DEF Seen
<1> QED
  BY <1>1, <1>2, <1>3, <1>4, <1>5, RequestStep

\* The row a transfer has read is as true as the one in the table.
LEMMA TransferKeeps ==
  ASSUME Inv, NEW r \in Request, NEW p \in Property, NEW to \in Person, Transfer(r, p, to)
  PROVE  Inv'
<1> DEFINE row == [rows[p] EXCEPT !.owner = to]
           new == [NewReq EXCEPT !.op = "transfer", !.p = p, !.pc = "save", !.row = row]
<1>1. /\ rows[p] # NoRow /\ req' = [req EXCEPT ![r] = new] /\ UNCHANGED <<properties, rows>>
      /\ rows[p] \in Row /\ True(rows[p], p) /\ req[r].op = "none"
  BY DEF Transfer, Inv, Types, Seen, contract
<1>2. row \in Row /\ row.verified = rows[p].verified
  BY <1>1 DEF Row
<1>3. True(row, p)
  BY <1>1, <1>2 DEF True
<1> HIDE DEF row
<1>4. /\ new \in Requests /\ new.op = "transfer" /\ new.p = p /\ new.tx = "none"
      /\ new.pc = "save" /\ new.row = row
  BY <1>2 DEF NewReq, Requests, Row, NoRow
<1>5. PICK a : a = new
  OBVIOUS
<1>6. PICK x : x = row
  OBVIOUS
<1> HIDE DEF new
<1>7. Grows
  BY <1>1, NothingGrows
<1>8. True(x, p)'
  BY <1>1, <1>3, <1>6 DEF True
<1>9. Seen(a)'
  BY <1>4, <1>5, <1>6, <1>8 DEF Seen
<1> QED
  BY <1>1, <1>4, <1>5, <1>7, <1>9, RequestStep

\* The row stored was true when it was made and still is.
LEMMA SaveKeeps ==
  ASSUME Inv, NEW r \in Request, Save(r)
  PROVE  Inv'
<1> DEFINE q == req[r]
           new == [q EXCEPT !.pc = IF q.op = "transfer" THEN "history" ELSE "done"]
<1>1. /\ q \in Requests /\ Seen(q) /\ q.pc = "save" /\ properties' = properties
      /\ rows' = [rows EXCEPT ![q.p] = q.row] /\ req' = [req EXCEPT ![r] = new]
      /\ q.p \in Property /\ q.row \in Row
  BY DEF Save, Inv, Types, Seen, Requests, contract
<1>2. /\ new \in Requests /\ new.op = q.op /\ new.p = q.p /\ new.who = q.who /\ new.tx = q.tx
      /\ new.pc = IF q.op = "transfer" THEN "history" ELSE "done"
  BY <1>1 DEF Requests
<1> HIDE DEF new
<1>3. Types'
  BY <1>1, <1>2 DEF Inv, Types
<1>4. Grows /\ Remembers
  BY <1>1, <1>2, NothingGrows DEF Remembers, Transferred, Inv, Types
<1>5. ASSUME NEW s \in Request
      PROVE  Seen(req[s])'
  <2>1. CASE s = r
    <3>1. req'[s] = new
      BY <1>1, <2>1 DEF Inv, Types
    <3> QED
      BY <1>1, <1>2, <3>1 DEF Seen
  <2>2. CASE s # r
    <3>1. req'[s] = req[s] /\ req[s] \in Requests /\ Seen(req[s])
      BY <1>1, <2>2 DEF Inv, Types
    <3>2. Seen(req[s])' <=> (\A x : x = req[s] => Seen(x)')
      BY <3>1 DEF Seen, True, Owned, Transferred
    <3> QED
      BY <3>1, <3>2, <1>4, SeenStays
  <2> QED
    BY <2>1, <2>2
<1>6. ASSUME NEW p \in Property
      PROVE  True(rows[p], p)' /\ Owned(rows[p], p)'
  <2>1. CASE p = q.p
    <3>1. rows'[p] = q.row /\ True(q.row, p)
      BY <1>1, <2>1 DEF Inv, Types, Seen
    <3>2. CASE q.op = "transfer"
      <4>1. Transferred(p)'
        BY <1>1, <1>2, <2>1, <3>2 DEF Transferred, Inv, Types
      <4> QED
        BY <1>1, <3>1, <4>1 DEF True, Owned
    <3>3. CASE q.op # "transfer"
      <4>1. Owned(q.row, p)
        BY <1>1, <2>1, <3>3 DEF Seen
      <4> QED
        BY <1>1, <1>4, <3>1, <4>1 DEF True, Owned, Remembers
    <3> QED
      BY <3>2, <3>3
  <2>2. CASE p # q.p
    <3>1. rows'[p] = rows[p]
      BY <1>1, <2>2 DEF Inv, Types
    <3> QED
      BY <1>1, <1>4, <3>1 DEF Inv, True, Owned, Remembers
  <2> QED
    BY <2>1, <2>2
<1> QED
  BY <1>1, <1>3, <1>5, <1>6 DEF Inv

-----------------------------------------------------------------------------
\* What the requests have seen, and what the rows say, stays true.
THEOREM RegistryInvariant == RegistrySpec => []Inv
<1>1. RegistryInit => Inv
  BY NewTypes DEF RegistryInit, Inv, Types, Seen, True, Owned, NoProperty, Row, NoRow
<1>2. Inv /\ [RegistryNext]_registryVars => Inv'
  <2> SUFFICES ASSUME Inv, [RegistryNext]_registryVars
               PROVE  Inv'
    OBVIOUS
  <2>1. CASE \E who \in Person :
               \/ Initialize(who) \/ PauseRegistry(who) \/ UnpauseRegistry(who)
               \/ AcceptRegistryAdmin(who)
               \/ \E new \in Person : ProposeRegistryAdmin(who, new)
    <3>1. UNCHANGED properties /\ UNCHANGED backend
      BY <2>1 DEF Initialize, PauseRegistry, UnpauseRegistry, AcceptRegistryAdmin,
                  ProposeRegistryAdmin
    <3> QED
      BY <3>1, NothingGrows, LedgerStep
  <2>2. CASE \E who \in Person, p \in Property : Direct(who, p)
    BY <2>2, CallsGrow, LedgerStep DEF Direct
  <2>3. CASE \E r \in Request : Include(r)
    BY <2>3, IncludeKeeps
  <2>4. CASE \E r \in Request : Found(r)
    BY <2>4, FoundKeeps
  <2>5. CASE \E r \in Request : GiveUp(r) \/ SaveHistory(r)
    BY <2>5, GiveUpKeeps
  <2>6. CASE \E r \in Request : Save(r)
    BY <2>6, SaveKeeps
  <2>7. CASE \E r \in Request, p \in Property, who \in Person : Transfer(r, p, who)
    BY <2>7, TransferKeeps
  <2>8. CASE \E r \in Request, p \in Property, who \in Person, op \in {"register", "verify"} :
               Submit(r, op, who, p)
    BY <2>8, SubmitKeeps
  <2>9. CASE UNCHANGED registryVars
    BY <2>9, NothingGrows, LedgerStep DEF registryVars, contract
  <2> QED
    BY <2>1, <2>2, <2>3, <2>4, <2>5, <2>6, <2>7, <2>8, <2>9 DEF RegistryNext
<1> QED
  BY <1>1, <1>2, PTL DEF RegistrySpec

\* Whoever else calls the contract, however requests overlap, give up or die, a
\* row of the table is of a registered property, verified only if the property
\* is, and its landlord's unless a transfer was asked for.
THEOREM MirrorIsTrueAlways == RegistrySpec => []MirrorIsTrue
<1>1. Inv => MirrorIsTrue
  BY DEF Inv, MirrorIsTrue, True, Owned, Registered, Transferred
<1> QED
  BY <1>1, RegistryInvariant, PTL

-----------------------------------------------------------------------------
(* The types of the registry's records.                                    *)

\* The admin's calls and the calls of the contract write people and counts.
LEMMA ContractTypes ==
  ASSUME RegistryTypeOK, NEW who \in Person \cup {NoOne}, NEW p,
         \/ Initialize(who) \/ PauseRegistry(who) \/ UnpauseRegistry(who)
         \/ AcceptRegistryAdmin(who) \/ RegisterProperty(who, p) \/ VerifyProperty(who, p)
         \/ \E new \in Person : ProposeRegistryAdmin(who, new)
  PROVE  /\ registryAdmin' \in Person \cup {NoOne} /\ registryPending' \in Person \cup {NoOne}
         /\ registryPaused' \in BOOLEAN /\ count' \in Nat
<1> USE DEF RegistryTypeOK, Initialize, PauseRegistry, UnpauseRegistry, AcceptRegistryAdmin,
             RegisterProperty, VerifyProperty, ProposeRegistryAdmin
<1>1. registryAdmin' \in Person \cup {NoOne} /\ registryPending' \in Person \cup {NoOne}
  OBVIOUS
<1>2. registryPaused' \in BOOLEAN
  BY Zenon
<1>3. count' \in Nat
  OBVIOUS
<1> QED
  BY <1>1, <1>2, <1>3

\* The history is of properties.
LEMMA HistoryTypes ==
  ASSUME Inv, RegistryTypeOK, NEW r \in Request, SaveHistory(r)
  PROVE  transferred' \subseteq Property
<1>1. req[r].pc = "history" /\ transferred' = transferred \cup {req[r].p} /\ Seen(req[r])
  BY DEF SaveHistory, Inv
<1>2. req[r].p \in Property
  BY <1>1 DEF Seen
<1> QED
  BY <1>1, <1>2 DEF RegistryTypeOK

\* The records of the registry and of its mirror have their types.
THEOREM RegistryTypes == RegistrySpec => []RegistryTypeOK
<1>1. RegistryInit => RegistryTypeOK
  <2> SUFFICES ASSUME RegistryInit
               PROVE  RegistryTypeOK
    OBVIOUS
  <2>1. registryPaused \in BOOLEAN
    BY Zenon DEF RegistryInit
  <2>2. Types
    BY NewTypes DEF RegistryInit, Types, Row, NoProperty, NoRow
  <2>3. count \in Nat /\ transferred \subseteq Property
    BY DEF RegistryInit
  <2>4. registryAdmin \in Person \cup {NoOne} /\ registryPending \in Person \cup {NoOne}
    BY DEF RegistryInit
  <2> QED
    BY <2>1, <2>2, <2>3, <2>4, Zenon DEF RegistryTypeOK, Types, Requests
<1>2. Inv /\ Inv' /\ RegistryTypeOK /\ [RegistryNext]_registryVars => RegistryTypeOK'
  <2> SUFFICES ASSUME Inv, Inv', RegistryTypeOK, [RegistryNext]_registryVars
               PROVE  RegistryTypeOK'
    OBVIOUS
  <2> DEFINE ContractOK == /\ registryAdmin \in Person \cup {NoOne}
                           /\ registryPending \in Person \cup {NoOne}
                           /\ registryPaused \in BOOLEAN /\ count \in Nat
             HistoryOK == transferred \subseteq Property
  <2>1. ContractOK /\ HistoryOK
    BY DEF RegistryTypeOK
  <2>2. ASSUME ContractOK', HistoryOK'
        PROVE  RegistryTypeOK'
    BY <2>2 DEF RegistryTypeOK, Inv, Types, Requests
  <2>3. CASE \E who \in Person :
               \/ Initialize(who) \/ PauseRegistry(who) \/ UnpauseRegistry(who)
               \/ AcceptRegistryAdmin(who)
               \/ \E new \in Person : ProposeRegistryAdmin(who, new)
               \/ \E p \in Property : Direct(who, p)
    <3>1. UNCHANGED transferred
      BY <2>3 DEF Initialize, PauseRegistry, UnpauseRegistry, AcceptRegistryAdmin,
                  ProposeRegistryAdmin, Direct, backend
    <3>2. ContractOK'
      BY <2>3, ContractTypes DEF Direct
    <3> QED
      BY <2>1, <2>2, <3>1, <3>2
  <2>4. CASE \E r \in Request : Include(r)
    <3>1. PICK r \in Request : Include(r)
      BY <2>4
    <3>2. /\ transferred' = transferred
          /\ \/ RegisterProperty(req[r].who, req[r].p) \/ VerifyProperty(req[r].who, req[r].p)
             \/ UNCHANGED contract
      BY <3>1 DEF Include
    <3>3. req[r].who \in Person \cup {NoOne}
      BY DEF RegistryTypeOK
    <3>4. ContractOK'
      <4>1. CASE UNCHANGED contract
        BY <2>1, <4>1 DEF contract
      <4> QED
        BY <3>2, <3>3, <4>1, ContractTypes
    <3> QED
      BY <2>1, <2>2, <3>2, <3>4
  <2>5. CASE \E r \in Request : SaveHistory(r)
    BY <2>1, <2>2, <2>5, HistoryTypes DEF SaveHistory, contract
  <2>6. CASE \/ \E r \in Request : Found(r) \/ GiveUp(r) \/ Save(r)
             \/ \E r \in Request, p \in Property, who \in Person :
                  \/ Transfer(r, p, who)
                  \/ \E op \in {"register", "verify"} : Submit(r, op, who, p)
             \/ UNCHANGED registryVars
    <3>1. UNCHANGED <<contract, transferred>>
      BY <2>6 DEF Found, GiveUp, Save, Transfer, Submit, registryVars, backend
    <3> QED
      BY <2>1, <2>2, <3>1 DEF contract
  <2> QED
    BY <2>3, <2>4, <2>5, <2>6 DEF RegistryNext
<1> QED
  BY <1>1, <1>2, RegistryInvariant, PTL DEF RegistrySpec

-----------------------------------------------------------------------------
(* The four side by side.                                                  *)
-----------------------------------------------------------------------------

\* Each part runs by its own specification, whatever the others are.
THEOREM PartsRun == ContractsSpec => LogSpec /\ DisputeSpec /\ Spec /\ RegistrySpec
<1>1. ContractsInit => LogInit /\ DisputeInit /\ Init /\ RegistryInit
  BY DEF ContractsInit
<1>2. [ContractsNext]_<<part, logVars, disputeVars, vars, registryVars>> =>
        /\ [LogNext]_logVars /\ [DisputeNext]_disputeVars
        /\ [Next]_vars /\ [RegistryNext]_registryVars
  BY DEF ContractsNext
<1> QED
  BY <1>1, <1>2, PTL DEF ContractsSpec, LogSpec, DisputeSpec, Spec, RegistrySpec

\* Whichever part runs, the variables of all four have their types.
THEOREM TypesOKAlways == ContractsSpec => []TypesOK
<1>1. LogInv /\ DisputeTypeOK /\ GovInv /\ RegistryTypeOK => TypesOK
  BY DEF LogInv, LogTypeOK, GovInv, TypesOK
<1> QED
  BY <1>1, PartsRun, LogInvariant, DisputeTypes, GovernanceInvariant, RegistryTypes, PTL

\* What holds of each part alone holds of the four together.
THEOREM ContractsSafe ==
  ContractsSpec =>
    /\ [](RateCaps /\ VotesCounted /\ AppealByBench /\ PauseRecordsAgree /\ MirrorIsTrue)
    /\ RulingStands /\ ChangesAuthorised
BY PartsRun, RateCapsAlways, VotesCountedAlways, AppealByBenchAlways, PauseRecordsAgreeAlways,
   MirrorIsTrueAlways, RulingStandsAlways, ChangesAuthorisedAlways, PTL

=============================================================================
