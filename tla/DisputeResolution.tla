-------------------------- MODULE DisputeResolution ---------------------------
(***************************************************************************)
(* The dispute_resolution contract: arbiters vote on the dispute over one  *)
(* agreement, by head or by weight; votes, weights or a timeout resolve    *)
(* it; a bench of other arbiters hears an appeal.  Disputes over different *)
(* agreements share the arbiters and their stats and nothing else.         *)
(*                                                                         *)
(* A call is one action, since a failing one reverts.  The call limiter    *)
(* (dispute_resolution/src/rate_limit.rs, line for line the one in         *)
(* RateLimit) only refuses calls, as a caller who makes none does.  What   *)
(* the rental contract says of the agreement is whatever lets a party      *)
(* raise the dispute.                                                      *)
(***************************************************************************)
EXTENDS Integers, Sequences, SequencesExt

CONSTANTS
  Arbiter,        \* the addresses an admin may register
  Candidate,      \* the addresses that may become admin
  Party,          \* the tenant and the landlord of the agreement
  Outsider,       \* an address that is none of these
  MinVotes,       \* min_votes_required
  BenchSize,      \* APPEAL_MIN_ARBITERS
  AppealWindow,   \* APPEAL_WINDOW_SECONDS
  Timeouts,       \* the dispute_timeout_days an admin may choose
  Ratings,        \* ratings an admin may enter
  Experience,     \* disputes_resolved an admin may enter
  LastInstant,    \* bound: the last instant of a behaviour
  MaxBallots,     \* bound: votes on the dispute, by head and by weight
  MaxChanges      \* bound: calls of the admin that change what is there

\* Accounts have addresses of a fixed width; what an admin enters is unsigned.
ASSUME DisputeAssumption ==
  IsFiniteSet(Arbiter) /\ Ratings \subseteq Nat /\ Experience \subseteq Nat

VARIABLES
  disputeAdmin, disputePending, disputePaused, timeout,
  changes,        \* how many calls of the admin were made
  arbiterList,    \* ArbiterList: in the order of registration
  active,         \* the registered arbiters that are active
  stats,          \* ArbiterStats
  dispute,        \* Dispute, or NoDispute
  vote,           \* Vote: what each arbiter said by head
  weightedVote,   \* WeightedVote: what each said by weight
  weighted,       \* WeightedDisputeVotes
  appeal,         \* DisputeAppeal, or NoAppeal
  instant,        \* env.ledger().timestamp()
  ruling          \* ghost: the outcome the resolving call returned, and how

adminVars == <<disputeAdmin, disputePending, disputePaused, timeout, changes>>
arbiterVars == <<arbiterList, active, stats>>
voteVars == <<vote, weightedVote, weighted>>
disputeVars == <<adminVars, arbiterVars, dispute, voteVars, appeal, instant, ruling>>

Side == {"landlord", "tenant"}
Nobody == "nobody"
NoVote == [side |-> "none", weight |-> 0]
NoDispute == [raised |-> FALSE]
NoAppeal == [status |-> "none"]
NoRuling == [side |-> "none", by |-> "none"]
Open == {"pending", "in_progress"}

Change == changes < MaxChanges /\ changes' = changes + 1
Ballots == Len(weighted.voters) + (IF dispute.raised THEN Cardinality(dispute.voters) ELSE 0)

-----------------------------------------------------------------------------
DisputeInit ==
  /\ disputeAdmin \in Candidate
  /\ disputePending = Nobody
  /\ disputePaused = FALSE
  /\ timeout \in Timeouts
  /\ changes = 0
  /\ arbiterList = <<>>
  /\ active = {}
  /\ stats = [a \in Arbiter |-> [rating |-> 50, resolved |-> 0]]
  /\ dispute = NoDispute
  /\ vote = [a \in Arbiter |-> "none"]
  /\ weightedVote = [a \in Arbiter |-> NoVote]
  /\ weighted = [landlord |-> 0, tenant |-> 0, voters |-> <<>>]
  /\ appeal = NoAppeal
  /\ instant = 0
  /\ ruling = NoRuling

\* The administration: every call is the admin's but AcceptDisputeAdmin.
PauseDisputes ==
  /\ Change
  /\ ~disputePaused /\ disputePaused' = TRUE
  /\ UNCHANGED <<disputeAdmin, disputePending, timeout, arbiterVars, dispute, voteVars,
                 appeal, instant, ruling>>

UnpauseDisputes ==
  /\ disputePaused /\ disputePaused' = FALSE
  /\ UNCHANGED <<disputeAdmin, disputePending, timeout, changes, arbiterVars, dispute,
                 voteVars, appeal, instant, ruling>>

ProposeDisputeAdmin(new) ==
  /\ Change
  /\ disputePending' = new
  /\ UNCHANGED <<disputeAdmin, disputePaused, timeout, arbiterVars, dispute, voteVars,
                 appeal, instant, ruling>>

AcceptDisputeAdmin ==
  /\ disputePending # Nobody
  /\ disputeAdmin' = disputePending
  /\ disputePending' = Nobody
  /\ UNCHANGED <<disputePaused, timeout, changes, arbiterVars, dispute, voteVars,
                 appeal, instant, ruling>>

SetTimeoutConfig(t) ==
  /\ Change
  /\ timeout' = t
  /\ UNCHANGED <<disputeAdmin, disputePending, disputePaused, arbiterVars, dispute,
                 voteVars, appeal, instant, ruling>>

AddArbiter(a) ==
  /\ ~disputePaused
  /\ ~Contains(arbiterList, a)
  /\ arbiterList' = Append(arbiterList, a)
  /\ active' = active \cup {a}
  /\ UNCHANGED <<adminVars, stats, dispute, voteVars, appeal, instant, ruling>>

DeactivateArbiter(a) ==
  /\ a \in active
  /\ active' = active \ {a}
  /\ Change
  /\ UNCHANGED <<disputeAdmin, disputePending, disputePaused, timeout, arbiterList,
                 stats, dispute, voteVars, appeal, instant, ruling>>

\* Mutant: an account that was never registered is made an arbiter.
ReactivateAnyone(a) ==
  /\ a \notin active
  /\ active' = active \cup {a}
  /\ UNCHANGED <<adminVars, arbiterList, stats, dispute, voteVars, appeal, instant, ruling>>

ReactivateArbiter(a) ==
  /\ Contains(arbiterList, a) /\ a \notin active
  /\ active' = active \cup {a}
  /\ UNCHANGED <<adminVars, arbiterList, stats, dispute, voteVars, appeal, instant, ruling>>

SetArbiterStats(a, r, n) ==
  /\ Contains(arbiterList, a)
  /\ r <= 100 /\ n <= 100
  /\ stats' = [stats EXCEPT ![a] = [rating |-> r, resolved |-> n]]
  /\ Change
  /\ UNCHANGED <<disputeAdmin, disputePending, disputePaused, timeout, arbiterList,
                 active, dispute, voteVars, appeal, instant, ruling>>

-----------------------------------------------------------------------------
RaiseDispute(raiser) ==
  /\ ~disputePaused
  /\ ~dispute.raised
  /\ raiser \in Party
  /\ dispute' = [raised |-> TRUE, raisedAt |-> instant, resolved |-> FALSE, resolvedAt |-> 0,
                 landlord |-> 0, tenant |-> 0, voters |-> {}]
  /\ UNCHANGED <<adminVars, arbiterVars, voteVars, appeal, instant, ruling>>

\* Mutant: nobody looks for an earlier vote.
VoteAgain(a, side) ==
  /\ a \in active
  /\ Ballots < MaxBallots
  /\ dispute.raised /\ ~dispute.resolved
  /\ vote' = [vote EXCEPT ![a] = side]
  /\ dispute' = [dispute EXCEPT ![side] = @ + 1, !.voters = @ \cup {a}]
  /\ UNCHANGED <<adminVars, arbiterVars, weightedVote, weighted, appeal, instant, ruling>>

VoteOnDispute(a, side) ==
  /\ a \in active
  /\ Ballots < MaxBallots
  /\ dispute.raised /\ ~dispute.resolved
  /\ vote[a] = "none"
  /\ vote' = [vote EXCEPT ![a] = side]
  /\ dispute' = [dispute EXCEPT ![side] = @ + 1, !.voters = @ \cup {a}]
  /\ UNCHANGED <<adminVars, arbiterVars, weightedVote, weighted, appeal, instant, ruling>>

\* calculate_voting_weight: rating and experience in percent, at least 1.
Weight(a) ==
  LET w == (stats[a].rating * 2 * stats[a].resolved * 2) \div 100
  IN  IF w = 0 THEN 1 ELSE w

VoteOnDisputeWeighted(a, side) ==
  /\ a \in active
  /\ Ballots < MaxBallots
  /\ dispute.raised /\ ~dispute.resolved
  /\ weightedVote[a] = NoVote
  /\ weightedVote' = [weightedVote EXCEPT ![a] = [side |-> side, weight |-> Weight(a)]]
  /\ weighted' = [weighted EXCEPT ![side] = @ + Weight(a), !.voters = Append(@, a)]
  /\ UNCHANGED <<adminVars, arbiterVars, dispute, vote, appeal, instant, ruling>>

-----------------------------------------------------------------------------
\* Dispute::get_outcome, which is also what the first two resolvers return.
Outcome == IF dispute.landlord > dispute.tenant THEN "landlord" ELSE "tenant"

\* ensure_resolver: the admin or one of those assigned.
MayResolve(who, assigned) == who = disputeAdmin \/ who \in assigned

\* Mutant: nobody looks whether the dispute is resolved.
ResolveAgain(side, by) ==
  /\ dispute.raised
  /\ dispute' = [dispute EXCEPT !.resolved = TRUE, !.resolvedAt = instant]
  /\ ruling' = [side |-> side, by |-> by]
  /\ UNCHANGED <<adminVars, arbiterVars, voteVars, appeal, instant>>

Resolve(side, by) ==
  /\ dispute.raised /\ ~dispute.resolved
  /\ dispute' = [dispute EXCEPT !.resolved = TRUE, !.resolvedAt = instant]
  /\ ruling' = [side |-> side, by |-> by]
  /\ UNCHANGED <<adminVars, arbiterVars, voteVars, appeal, instant>>

ResolveDispute(who) ==
  /\ Resolve(Outcome, "votes")
  /\ MayResolve(who, dispute.voters)
  /\ dispute.landlord + dispute.tenant >= MinVotes

ResolveDisputeOnTimeout ==
  /\ Resolve(Outcome, "timeout")
  /\ instant > dispute.raisedAt + timeout

\* The heavier side; a tie goes to the first vote.  (A tie without any vote, as
\* MinVotes = 0 would allow, makes the call fail.)
WeightedOutcome ==
  IF weighted.landlord > weighted.tenant THEN "landlord"
  ELSE IF weighted.landlord < weighted.tenant THEN "tenant"
  ELSE weightedVote[Head(weighted.voters)].side

ResolveDisputeWeighted(who) ==
  /\ weighted.voters # <<>>
  /\ Resolve(WeightedOutcome, "weight")
  /\ MayResolve(who, ToSet(weighted.voters))
  /\ Len(weighted.voters) >= MinVotes

-----------------------------------------------------------------------------
\* The first BenchSize of the able, given by their places on the list.
First(able) ==
  {arbiterList[i] : i \in {j \in able : Cardinality({k \in able : k <= j}) <= BenchSize}}

\* Mutant: the voters on the dispute are not passed over.
AnyBench == First({i \in DOMAIN arbiterList : arbiterList[i] \in active})

\* The first active arbiters on the list that did not vote by head.
Bench == First({i \in DOMAIN arbiterList : arbiterList[i] \in active \ dispute.voters})

\* Anyone may appeal, and the same account may withdraw the appeal.
CreateAppeal ==
  /\ dispute.raised /\ dispute.resolved
  /\ instant <= dispute.resolvedAt + AppealWindow
  /\ appeal = NoAppeal
  /\ Cardinality(Bench) = BenchSize
  /\ appeal' = [status |-> "pending", bench |-> Bench,
                votes |-> [a \in Bench |-> "none"], createdAt |-> instant,
                feeRefunded |-> FALSE]
  /\ UNCHANGED <<adminVars, arbiterVars, dispute, voteVars, instant, ruling>>

VoteOnAppeal(a, side) ==
  /\ appeal.status \in Open
  /\ instant <= appeal.createdAt + AppealWindow
  /\ a \in appeal.bench
  /\ appeal.votes[a] = "none"
  /\ appeal' = [appeal EXCEPT !.status = "in_progress", !.votes[a] = side]
  /\ UNCHANGED <<adminVars, arbiterVars, dispute, voteVars, instant, ruling>>

AppealVotes(side) == {a \in appeal.bench : appeal.votes[a] = side}

AppealOutcome ==
  IF Cardinality(AppealVotes("landlord")) > Cardinality(AppealVotes("tenant"))
    THEN "landlord" ELSE "tenant"

\* Compared with what get_outcome says of the votes by head.  The dispute keeps
\* its resolution; an appeal that succeeds is only recorded.
ResolveAppeal(who) ==
  /\ appeal.status \in Open
  /\ MayResolve(who, appeal.bench)
  /\ AppealVotes("none") = {}
  /\ appeal' = [appeal EXCEPT !.status =
                               IF AppealOutcome # Outcome THEN "approved" ELSE "rejected",
                              !.feeRefunded = AppealOutcome # Outcome]
  /\ UNCHANGED <<adminVars, arbiterVars, dispute, voteVars, instant, ruling>>

CancelAppeal ==
  /\ appeal.status \in Open
  /\ appeal' = [appeal EXCEPT !.status = "cancelled"]
  /\ UNCHANGED <<adminVars, arbiterVars, dispute, voteVars, instant, ruling>>

InstantPasses ==
  /\ instant < LastInstant /\ instant' = instant + 1
  /\ UNCHANGED <<adminVars, arbiterVars, dispute, voteVars, appeal, ruling>>

-----------------------------------------------------------------------------
Member == Arbiter \cup Candidate \cup Party \cup {Outsider}

Administer ==
  \/ PauseDisputes \/ UnpauseDisputes
  \/ AcceptDisputeAdmin
  \/ \E c \in Candidate : ProposeDisputeAdmin(c)
  \/ \E t \in Timeouts : SetTimeoutConfig(t)
  \/ \E a \in Arbiter : AddArbiter(a) \/ DeactivateArbiter(a) \/ ReactivateArbiter(a)
  \/ \E a \in Arbiter, r \in Ratings, n \in Experience : SetArbiterStats(a, r, n)

DisputeNext ==
  \/ Administer
  \/ \E a \in Arbiter, side \in Side :
       \/ VoteOnDispute(a, side)
       \/ VoteOnDisputeWeighted(a, side)
       \/ VoteOnAppeal(a, side)
  \/ \E who \in Member :
       \/ RaiseDispute(who)
       \/ ResolveDispute(who)
       \/ ResolveDisputeWeighted(who)
       \/ ResolveAppeal(who)
  \/ ResolveDisputeOnTimeout
  \/ CreateAppeal
  \/ CancelAppeal
  \/ InstantPasses

DisputeSpec == DisputeInit /\ [][DisputeNext]_disputeVars

-----------------------------------------------------------------------------
Appeals ==
  [status: Open \cup {"approved", "rejected", "cancelled"}, bench: SUBSET Arbiter,
   votes: UNION {[b -> Side \cup {"none"}] : b \in SUBSET Arbiter},
   createdAt: Nat, feeRefunded: BOOLEAN]

DisputeTypeOK ==
  /\ disputeAdmin \in Candidate
  /\ disputePending \in Candidate \cup {Nobody}
  /\ disputePaused \in BOOLEAN
  /\ timeout \in Timeouts
  /\ arbiterList \in Seq(Arbiter)
  /\ active \subseteq ToSet(arbiterList)
  /\ stats \in [Arbiter -> [rating: Nat, resolved: Nat]]
  /\ dispute \in {NoDispute} \cup
       [raised: {TRUE}, raisedAt: Nat, resolved: BOOLEAN, resolvedAt: Nat,
        landlord: Nat, tenant: Nat, voters: SUBSET Arbiter]
  /\ vote \in [Arbiter -> Side \cup {"none"}]
  /\ weightedVote \in [Arbiter -> [side: Side \cup {"none"}, weight: Nat]]
  /\ weighted \in [landlord: Nat, tenant: Nat, voters: Seq(Arbiter)]
  /\ appeal = NoAppeal \/ appeal \in Appeals
  /\ {instant, changes} \subseteq Nat
  /\ ruling \in [side: Side \cup {"none"}, by: {"none", "votes", "timeout", "weight"}]

\* Whatever happens between them (arbiters leave and return, both ballots are
\* used, weights change), the counters of the dispute are the numbers of
\* arbiters who voted that way by head, each once, and an arbiter who has voted
\* is one who was registered.
VotesCounted ==
  dispute.raised =>
    /\ dispute.landlord = Cardinality({a \in Arbiter : vote[a] = "landlord"})
    /\ dispute.tenant = Cardinality({a \in Arbiter : vote[a] = "tenant"})
    /\ dispute.voters = {a \in Arbiter : vote[a] # "none"}
    /\ dispute.voters \subseteq ToSet(arbiterList)

\* The three ways to resolve a dispute exclude each other for good: after the
\* first of them the votes, the weights and the time of the ruling never change
\* again, and, unless weights decided, the outcome read later is the ruling.
RulingStands ==
  [][ruling # NoRuling =>
       /\ UNCHANGED <<ruling, dispute, voteVars>>
       /\ dispute'.resolved
       /\ ruling.by # "weight" => Outcome' = ruling.side]_disputeVars

\* An appeal is heard by a full bench none of whom voted by head, and is decided
\* once, by the votes of all of them; the fee goes back exactly when it succeeds.
AppealByBench ==
  appeal # NoAppeal =>
    /\ Cardinality(appeal.bench) = BenchSize
    /\ appeal.bench \cap {a \in Arbiter : vote[a] # "none"} = {}
    /\ appeal.status \in {"approved", "rejected"} =>
         /\ 2 * Cardinality(AppealVotes(AppealOutcome)) >= BenchSize
         /\ AppealVotes("none") = {}
    /\ appeal.feeRefunded <=> appeal.status = "approved"

\* An appeal succeeds exactly when the bench decides against the ruling.
AppealAgainstRuling ==
  appeal.status \in {"approved", "rejected"} =>
    (appeal.status = "approved" <=> AppealOutcome # ruling.side)
=============================================================================
