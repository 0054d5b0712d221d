----------------------------- MODULE EscrowAdmin -----------------------------
(***************************************************************************)
(* The administration of the escrow contract (escrow/src/escrow_impl.rs):  *)
(* one-time initialization, the two-step transfer of the admin role, the   *)
(* pause flag, the timeout configuration and the link to the user_profile  *)
(* contract.  A call that returns an error reverts, so it is no step.      *)
(***************************************************************************)
EXTENDS Integers

CONSTANTS
  Address,           \* the accounts that call the contract
  NoAddress,         \* an absent address
  Candidates,        \* the addresses offered to initialize and propose_admin
  PauseReasons,      \* the reasons given to pause
  DefaultTimeouts,   \* the TimeoutConfig used while none is stored
  TimeoutChoices     \* the TimeoutConfig values offered to set_timeout_config

TimeoutConfig == [escrow: Nat, dispute: Nat, payment: Nat]

ASSUME EscrowAdminAssumption ==
  /\ NoAddress \notin Address
  /\ Candidates \subseteq Address
  /\ DefaultTimeouts \in TimeoutConfig
  /\ TimeoutChoices \subseteq TimeoutConfig

VARIABLES
  admin,             \* State.admin, NoAddress until initialize
  pendingAdmin,      \* PendingAdmin, NoAddress when absent
  paused,            \* PauseState is stored
  profileContract,   \* UserProfileContractId is stored
  timeouts,          \* the TimeoutConfig in force
  proposer           \* ghost: who made the pending proposal

adminVars == <<admin, pendingAdmin, paused, profileContract, timeouts, proposer>>

AdminInit ==
  /\ admin = NoAddress
  /\ pendingAdmin = NoAddress
  /\ paused = FALSE
  /\ profileContract = FALSE
  /\ timeouts = DefaultTimeouts
  /\ proposer = NoAddress

Initialize(a) ==
  /\ admin = NoAddress
  /\ admin' = a
  /\ UNCHANGED <<pendingAdmin, paused, profileContract, timeouts, proposer>>

SetUserProfileContract(caller) ==
  /\ caller = admin
  /\ profileContract' = TRUE
  /\ UNCHANGED <<admin, pendingAdmin, paused, timeouts, proposer>>

Pause(caller, reason) ==
  /\ caller = admin
  /\ ~paused
  /\ paused' = TRUE
  /\ UNCHANGED <<admin, pendingAdmin, profileContract, timeouts, proposer>>

Unpause(caller) ==
  /\ caller = admin
  /\ paused
  /\ paused' = FALSE
  /\ UNCHANGED <<admin, pendingAdmin, profileContract, timeouts, proposer>>

\* A later proposal replaces the one that is pending.
ProposeAdmin(caller, new) ==
  /\ caller = admin
  /\ pendingAdmin' = new
  /\ proposer' = caller
  /\ UNCHANGED <<admin, paused, profileContract, timeouts>>

\* Mutant: anyone accepts an offer that was made to somebody.
AcceptAdminByAnyone(new) ==
  /\ pendingAdmin # NoAddress
  /\ admin' = new
  /\ pendingAdmin' = NoAddress
  /\ proposer' = NoAddress
  /\ UNCHANGED <<paused, profileContract, timeouts>>

AcceptAdmin(new) ==
  /\ admin # NoAddress
  /\ new = pendingAdmin
  /\ admin' = new
  /\ pendingAdmin' = NoAddress
  /\ proposer' = NoAddress
  /\ UNCHANGED <<paused, profileContract, timeouts>>

SetTimeoutConfig(caller, config) ==
  /\ caller = admin
  /\ config.escrow # 0 /\ config.dispute # 0 /\ config.payment # 0
  /\ timeouts' = config
  /\ UNCHANGED <<admin, pendingAdmin, paused, profileContract, proposer>>

AdminNext ==
  \/ \E a \in Candidates : Initialize(a)
  \/ \E caller \in Address :
       \/ SetUserProfileContract(caller)
       \/ \E reason \in PauseReasons : Pause(caller, reason)
       \/ Unpause(caller)
       \/ \E new \in Candidates : ProposeAdmin(caller, new)
       \/ AcceptAdmin(caller)
       \/ \E config \in TimeoutChoices : SetTimeoutConfig(caller, config)

AdminSpec == AdminInit /\ [][AdminNext]_adminVars

-----------------------------------------------------------------------------
\* Every variable has its type.
AdminTypeOK ==
  /\ admin \in Address \cup {NoAddress}
  /\ pendingAdmin \in Address \cup {NoAddress}
  /\ paused \in BOOLEAN
  /\ profileContract \in BOOLEAN
  /\ timeouts \in TimeoutConfig
  /\ proposer \in Address \cup {NoAddress}

\* An offer of the admin role is always an offer of the admin of the moment:
\* no proposal of a former admin survives the handover, and none exists
\* before the contract is initialized (propose_admin, accept_admin).
ProposalIsCurrent ==
  /\ pendingAdmin # NoAddress => proposer = admin
  /\ admin = NoAddress => pendingAdmin = NoAddress

\* Once set, the admin changes only to the address that the outgoing admin
\* itself proposed, and such a handover leaves no second offer behind.
HandoverByConsent ==
  [][admin' # admin /\ admin # NoAddress =>
       /\ admin' = pendingAdmin
       /\ proposer = admin
       /\ pendingAdmin' = NoAddress]_adminVars
=============================================================================
