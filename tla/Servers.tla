-------------------------------- MODULE Servers --------------------------------
(***************************************************************************)
(* The processes of the backend, the calls they serve, and the Redis they  *)
(* share: what locks and idempotency keys have in common.                  *)
(***************************************************************************)
EXTENDS Integers

CONSTANTS
  Caller,         \* the calls with this key
  Server,         \* the processes of the backend
  Home,           \* the server that serves each caller
  Redis,          \* the place of what the servers share
  MaxTime         \* bound: the last instant of a behaviour

ASSUME ServersAssumption ==
  /\ Home \in [Caller -> Server]
  /\ Redis \notin Server
  /\ MaxTime \in Nat
=============================================================================
