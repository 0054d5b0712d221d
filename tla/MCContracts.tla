----------------------------- MODULE MCContracts ------------------------------
(* Four parts of the contracts side by side: the call limiter, the disputes of *)
(* dispute_resolution, the administration of vespera, and property_registry    *)
(* with the backend's mirror of it.  They share no state, so each behaviour is *)
(* one of the four (part says which); the three accounts of the instance play  *)
(* in all of them.                                                             *)
EXTENDS RateLimitLog, Governance, DisputeResolution, PropertyRegistry

VARIABLE part

\* A timelocked action waits for a ledger at least.
OneLedger == [k \in {"update_admin", "pause", "unpause", "config_paused", "config_running",
                     "rates"} |-> 1]

Symmetry == Permutations(Arbiter)

ContractsInit ==
  /\ part \in {"limiter", "disputes", "governance", "registry"}
  /\ LogInit /\ DisputeInit /\ Init /\ RegistryInit
  /\ admin = "owner"    \* the owners are alike
  /\ part # "governance" => ~configPaused

ContractsNext ==
  /\ UNCHANGED part
  /\ \/ /\ part = "limiter" /\ LogNext
        /\ UNCHANGED <<disputeVars, vars, registryVars>>
     \/ /\ part = "disputes" /\ DisputeNext
        /\ UNCHANGED <<logVars, vars, registryVars>>
     \/ /\ part = "governance" /\ Next
        /\ UNCHANGED <<logVars, disputeVars, registryVars>>
     \/ /\ part = "registry" /\ RegistryNext
        /\ UNCHANGED <<logVars, disputeVars, vars>>

ContractsSpec ==
  ContractsInit
    /\ [][ContractsNext]_<<part, logVars, disputeVars, vars, registryVars>>

\* The variables of the four parts have their types.
TypesOK == RateTypeOK /\ DisputeTypeOK /\ TypeOK /\ RegistryTypeOK
=============================================================================
