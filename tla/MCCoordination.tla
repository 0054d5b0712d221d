---------------------------- MODULE MCCoordination ----------------------------
(* The two ways in which the backend's servers coordinate through Redis, side  *)
(* by side: locks and idempotency keys are different keys, so each behaviour   *)
(* is one of the two (part says which).  Three calls: two on one server and    *)
(* one on another.                                                             *)
EXTENDS Lock, Idempotency

VARIABLE part

TwoServers == [c \in Caller |-> IF c = "c3" THEN "s2" ELSE "s1"]

CoordinationInit ==
  /\ part \in {"lock", "key"}
  /\ Init /\ KeyInit
  /\ part = "lock" => ~shared
  /\ part = "key" => ~production /\ healthy = [s \in Server |-> TRUE]

CoordinationNext ==
  /\ UNCHANGED part
  /\ \/ part = "lock" /\ Next /\ UNCHANGED keyVars
     \/ part = "key" /\ KeyNext /\ UNCHANGED vars

Both == <<vars, keyVars>>

\* The event loops turn, Redis answers or fails, fn and the critical section end;
\* and time passes, for callers who wait for a key.
CoordinationFairness ==
  /\ \A c \in Caller : WF_Both(
       \/ part = "lock" /\ Step(c) /\ UNCHANGED keyVars
       \/ part = "key" /\ KeyStep(c) /\ UNCHANGED vars)
  /\ WF_keyVars(part = "key" /\ TimePasses /\ Prompt')

CoordinationSpec ==
  /\ CoordinationInit
  /\ [][CoordinationNext]_<<part, vars, keyVars>>
  /\ CoordinationFairness

\* Every call of withLock and of process ends, with a result, an error or a
\* refusal.
AllCallsEnd == \A c \in Caller :
  (pc[c] # "new" \/ at[c] # "new") ~> (pc[c] \in Ended \/ at[c] \in Over)
=============================================================================
