---------------------------- MODULE MCIdempotency -----------------------------
(* Three calls with one key: two on one server and one on another. *)
EXTENDS Idempotency

TwoServers == [c \in Caller |-> IF c = "c3" THEN "s2" ELSE "s1"]
=============================================================================
