------------------------------ MODULE Governance ------------------------------
(***************************************************************************)
(* Who may change the vespera contract: its admin by direct calls, its     *)
(* multi-signature admins by proposals, and anybody once an action the     *)
(* admin queued behind a timelock has matured.  All three write the same   *)
(* two records of whether the contract is paused.  A call is one action.   *)
(*                                                                         *)
(* Of a proposal's payload the properties tell apart whom it adds or       *)
(* removes, how many signatures it asks for and whether it pauses; tokens, *)
(* rate limits and fees are one kind, "other".                             *)
(***************************************************************************)
EXTENDS Integers, Sequences, FiniteSets

CONSTANTS
  Signer,         \* the accounts that may sign
  Owner,          \* the accounts that may be state.admin
  Signatures,     \* the numbers of signatures a proposal may ask for
  Expiry,         \* PROPOSAL_EXPIRY_SECONDS
  MinDelay,       \* get_min_delay, by kind of action
  Delays,         \* the delays an admin may ask for
  MaxItems,       \* bound: proposals and actions ever made
  MaxClock        \* bound: the last instant of a behaviour

ASSUME GovernanceAssumption ==
  /\ IsFiniteSet(Signer)
  /\ Expiry \in Nat
  /\ Delays \subseteq Nat
  /\ MinDelay["update_admin"] \in Nat

VARIABLES
  admin,          \* state.admin
  configPaused,   \* state.config.paused
  pauseState,     \* DataKey::PauseState is there (it always says is_paused)
  multisig,       \* MultiSigConfig, or NoMultisig
  proposals,      \* AdminProposal, by the number in its id
  actions,        \* TimelockAction, by the number in its id
  clock           \* env.ledger().timestamp()

vars == <<admin, configPaused, pauseState, multisig, proposals, actions, clock>>
pauseVars == <<configPaused, pauseState>>

Room == Len(proposals) + Len(actions) < MaxItems

NoMultisig == [admins |-> {}, required |-> 0]

Matter ==
  [kind: {"add", "remove"}, target: Signer, n: {0}] \cup
  [kind: {"required"}, target: {"none"}, n: Signatures] \cup
  [kind: {"pause", "unpause", "config_paused", "config_running", "other"},
   target: {"none"}, n: {0}]

TimelockMatter ==
  [kind: {"update_admin"}, target: Owner] \cup
  [kind: {"pause", "unpause", "config_paused", "config_running", "rates"}, target: {"none"}]

-----------------------------------------------------------------------------
Init ==
  /\ admin \in Owner
  /\ configPaused \in BOOLEAN
  /\ pauseState = configPaused
  /\ multisig = NoMultisig
  /\ proposals = <<>>
  /\ actions = <<>>
  /\ clock = 0

IsPaused == pauseState \/ configPaused

\* Mutant: the record of the pause is left to pause and unpause.
ConfigOnly(b) == configPaused' = b /\ UNCHANGED pauseState

SetPause(b) == pauseState' = b /\ configPaused' = b

\* apply_config_internal: the configuration is stored, then the contract is
\* paused or unpaused if that is a change.
ApplyConfig(b) ==
  /\ configPaused' = b
  /\ pauseState' = IF b /\ ~configPaused THEN TRUE
                   ELSE IF ~b /\ configPaused THEN FALSE
                   ELSE pauseState

\* The kinds of matter that both proposals and timelocked actions may be about.
ApplyPause(kind) ==
  \/ kind = "pause" /\ SetPause(TRUE)
  \/ kind = "unpause" /\ SetPause(FALSE)
  \/ kind = "config_paused" /\ ApplyConfig(TRUE)
  \/ kind = "config_running" /\ ApplyConfig(FALSE)

-----------------------------------------------------------------------------
\* Direct calls of state.admin.
UpdateConfig(b) ==
  /\ configPaused' = b
  /\ pauseState' = IF b /\ ~IsPaused THEN TRUE
                   ELSE IF ~b /\ IsPaused THEN FALSE
                   ELSE pauseState
  /\ UNCHANGED <<admin, multisig, proposals, actions, clock>>

Pause ==
  /\ ~IsPaused
  /\ SetPause(TRUE)
  /\ UNCHANGED <<admin, multisig, proposals, actions, clock>>

Unpause ==
  /\ IsPaused
  /\ SetPause(FALSE)
  /\ UNCHANGED <<admin, multisig, proposals, actions, clock>>

\* initialize_multisig, once, with distinct admins.
InitializeMultisig(admins, required) ==
  /\ multisig = NoMultisig
  /\ admins # {}
  /\ required \in 1..Cardinality(admins)
  /\ multisig' = [admins |-> admins, required |-> required]
  /\ UNCHANGED <<admin, pauseVars, proposals, actions, clock>>

-----------------------------------------------------------------------------
ProposeAction(who, matter) ==
  /\ who \in multisig.admins
  /\ Room
  /\ proposals' = Append(proposals,
       [matter |-> matter, proposer |-> who, approvals |-> {who}, count |-> 1,
        state |-> "active", expiry |-> clock + Expiry])
  /\ UNCHANGED <<admin, pauseVars, multisig, actions, clock>>

Pending(p) == p \in DOMAIN proposals /\ proposals[p].state = "active"

\* Mutant: an admin may approve again.
ApproveAgain(who, p) ==
  /\ who \in multisig.admins
  /\ Pending(p) /\ clock <= proposals[p].expiry
  /\ proposals' = [proposals EXCEPT ![p].approvals = @ \cup {who}, ![p].count = @ + 1]
  /\ UNCHANGED <<admin, pauseVars, multisig, actions, clock>>

ApproveAction(who, p) ==
  /\ who \in multisig.admins
  /\ Pending(p) /\ clock <= proposals[p].expiry
  /\ who \notin proposals[p].approvals
  /\ proposals' = [proposals EXCEPT ![p].approvals = @ \cup {who}, ![p].count = @ + 1]
  /\ UNCHANGED <<admin, pauseVars, multisig, actions, clock>>

\* add_admin_internal, remove_admin_internal, update_required_signatures_internal.
AddAdmin(new) ==
  /\ new \notin multisig.admins
  /\ multisig' = [multisig EXCEPT !.admins = @ \cup {new}]

RemoveAdmin(old) ==
  LET left == multisig.admins \ {old}
  IN  /\ Cardinality(multisig.admins) > 1
      /\ old \in multisig.admins
      /\ multisig' = [admins |-> left,
                      required |-> IF multisig.required > Cardinality(left)
                                     THEN Cardinality(left) ELSE multisig.required]

UpdateRequired(n) ==
  /\ n \in 1..Cardinality(multisig.admins)
  /\ multisig' = [multisig EXCEPT !.required = n]

\* What is proposed happens, or the call fails.
Apply(matter) ==
  \/ matter.kind = "add" /\ AddAdmin(matter.target) /\ UNCHANGED pauseVars
  \/ matter.kind = "remove" /\ RemoveAdmin(matter.target) /\ UNCHANGED pauseVars
  \/ matter.kind = "required" /\ UpdateRequired(matter.n) /\ UNCHANGED pauseVars
  \/ matter.kind = "other" /\ UNCHANGED <<multisig, pauseVars>>
  \/ ApplyPause(matter.kind) /\ UNCHANGED multisig

\* The approvals were admins' when they were given; they are not looked at again.
ExecuteAction(who, p) ==
  /\ who \in multisig.admins
  /\ Pending(p) /\ clock <= proposals[p].expiry
  /\ proposals[p].count >= multisig.required
  /\ Apply(proposals[p].matter)
  /\ proposals' = [proposals EXCEPT ![p].state = "executed"]
  /\ UNCHANGED <<admin, actions, clock>>

\* The proposer withdraws it, if still an admin; the entry is removed.
RejectAction(who, p) ==
  /\ who \in multisig.admins
  /\ Pending(p) /\ proposals[p].proposer = who
  /\ proposals' = [proposals EXCEPT ![p].state = "removed"]
  /\ UNCHANGED <<admin, pauseVars, multisig, actions, clock>>

-----------------------------------------------------------------------------
QueueTimelockAction(who, matter, delay) ==
  /\ who = admin
  /\ Room
  /\ delay >= MinDelay[matter.kind]
  /\ actions' = Append(actions, [matter |-> matter, eta |-> clock + delay,
                                 queuedAt |-> clock, state |-> "queued"])
  /\ UNCHANGED <<admin, pauseVars, multisig, proposals, clock>>

Queued(a) == a \in DOMAIN actions /\ actions[a].state = "queued"

\* Anybody may execute it, whoever the admin is by then.
ExecuteTimelockAction(a) ==
  /\ Queued(a)
  /\ clock >= actions[a].eta
  /\ LET matter == actions[a].matter
     IN  \/ matter.kind = "update_admin" /\ admin' = matter.target /\ UNCHANGED pauseVars
         \/ matter.kind = "rates" /\ UNCHANGED <<admin, pauseVars>>
         \/ ApplyPause(matter.kind) /\ UNCHANGED admin
  /\ actions' = [actions EXCEPT ![a].state = "executed"]
  /\ UNCHANGED <<multisig, proposals, clock>>

CancelTimelockAction(who, a) ==
  /\ who = admin
  /\ Queued(a)
  /\ actions' = [actions EXCEPT ![a].state = "cancelled"]
  /\ UNCHANGED <<admin, pauseVars, multisig, proposals, clock>>

ClockTick ==
  /\ clock < MaxClock /\ clock' = clock + 1
  /\ UNCHANGED <<admin, pauseVars, multisig, proposals, actions>>

-----------------------------------------------------------------------------
Next ==
  \/ Pause \/ Unpause \/ \E b \in BOOLEAN : UpdateConfig(b)
  \/ \E admins \in SUBSET Signer, n \in 0..Cardinality(Signer) : InitializeMultisig(admins, n)
  \/ \E who \in Signer, m \in Matter : ProposeAction(who, m)
  \/ \E who \in Signer, p \in DOMAIN proposals :
       ApproveAction(who, p) \/ ExecuteAction(who, p) \/ RejectAction(who, p)
  \/ \E who \in Owner, m \in TimelockMatter, d \in Delays : QueueTimelockAction(who, m, d)
  \/ \E a \in DOMAIN actions : ExecuteTimelockAction(a)
  \/ \E who \in Owner, a \in DOMAIN actions : CancelTimelockAction(who, a)
  \/ ClockTick

Spec == Init /\ [][Next]_vars

-----------------------------------------------------------------------------
Proposals ==
  [matter: Matter, proposer: Signer, approvals: SUBSET Signer, count: Nat,
   state: {"active", "executed", "removed"}, expiry: Nat]
Actions ==
  [matter: TimelockMatter, eta: Nat, queuedAt: Nat,
   state: {"queued", "executed", "cancelled"}]

TypeOK ==
  /\ admin \in Owner
  /\ configPaused \in BOOLEAN /\ pauseState \in BOOLEAN
  /\ multisig \in [admins: SUBSET Signer, required: Nat]
  /\ proposals \in Seq(Proposals)
  /\ actions \in Seq(Actions)
  /\ clock \in Nat

\* The contract keeps two records of being paused, written by the admin's calls,
\* by proposals and by timelocked actions, with a configuration change among
\* each.  They never disagree, so none of these can leave the contract running
\* for a reader of one record and paused for a reader of the other.
PauseRecordsAgree == pauseState = configPaused

\* The multi-signature admins, and the number of them that must sign, only ever
\* change by a proposal that this many different people approved and that had
\* not expired; the admin only by an action that waited its delay; and neither
\* happens twice.  The admins can always still gather the signatures they need.
ChangesAuthorised ==
  [][/\ multisig # NoMultisig /\ multisig' # multisig =>
          \E p \in DOMAIN proposals :
            /\ proposals[p].state = "active" /\ proposals'[p].state = "executed"
            /\ Cardinality(proposals[p].approvals) >= multisig.required
            /\ clock <= proposals[p].expiry
     /\ admin' # admin =>
          \E a \in DOMAIN actions :
            /\ actions[a].state = "queued" /\ actions'[a].state = "executed"
            /\ clock >= actions[a].queuedAt + MinDelay["update_admin"]
     /\ multisig' # NoMultisig => multisig'.required \in 1..Cardinality(multisig'.admins)]_vars
=============================================================================
