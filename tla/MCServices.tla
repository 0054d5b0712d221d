------------------------------ MODULE MCServices ------------------------------
(* Two services of the backend that follow a system outside it, side by side:  *)
(* fiat transfers follow an anchor, the search index follows the properties    *)
(* table.  They share nothing, so each behaviour is one of the two (part says  *)
(* which).                                                                     *)
EXTENDS Anchor

CONSTANTS Property, Worker, maxAttempts, MaxVersions, MaxRows, MaxFaults

VARIABLES part, pg, versions, outbox, es, worker, faults

search == <<pg, versions, outbox, es, worker, faults>>

S == INSTANCE PropertySearch

ServicesInit == part \in {"anchor", "search"} /\ Init /\ S!Init

ServicesNext ==
  /\ UNCHANGED part
  /\ \/ part = "anchor" /\ Next /\ UNCHANGED search
     \/ part = "search" /\ S!Next /\ UNCHANGED vars

\* Somebody keeps asking for the status of a request.
Polled == \A q \in Request :
  /\ WF_vars(part = "anchor" /\ Poll(q))
  /\ \A s \in AnchorStatus : WF_vars(part = "anchor" /\ ApplyPoll(q, s))

\* PropertySearch's Fairness, while it is the part that runs.
Repeated ==
  /\ SF_search(part = "search" /\ \E w \in Worker : S!StartRelay(w))
  /\ SF_search(part = "search" /\ \E w \in Worker : S!StartReconcile(w))
  /\ \A w \in Worker : WF_search(part = "search" /\ S!Runs(w))

ServicesSpec ==
  ServicesInit /\ [][ServicesNext]_<<part, vars, search>> /\ Polled /\ Repeated

\* PropertySearch: see the module.
IndexConverges == S!IndexConverges
=============================================================================
