------------------------------ MODULE Governance ------------------------------
(***************************************************************************)
(* One governed proposal: create_proposal, cast_vote, execute and the      *)
(* routes that resolve its human approval.  Every record is keyed by the   *)
(* proposal, so proposals do not share state.  Requests run in threads;    *)
(* each read or write of the persistence store is one step, and a request  *)
(* writes the whole proposal from what it read some steps before.  A       *)
(* request may end at any step: the process stops, or a store write or the *)
(* append of an event raises.                                              *)
(***************************************************************************)
EXTENDS Integers, FiniteSets, FiniteSetsExt

CONSTANTS
    Threads,
    Kinds,      \* what the proposal may be: [mode, risk, roles, required]
    Ballots,    \* votes that may be cast: [role, vote, weight, own, threshold]
    MaxVotes,   \* bound: stored votes
    MaxExecutions,   \* bound: executions of the action
    NoBallot

ASSUME GovernanceAssumption ==
    /\ Ballots # {} /\ NoBallot \notin Ballots /\ MaxVotes \in Nat /\ MaxExecutions \in Nat
    /\ \A k \in Kinds : k.required \in Nat
    /\ \A b \in Ballots : b.weight \in Int /\ b.threshold \in Nat

VARIABLES
    kind,        \* the fields of the proposal that no step changes
    proposal,    \* status in governance_proposals
    approval,    \* status in governance_approvals
    votes,       \* governance_votes: how often each ballot is stored
    expired,     \* the proposal is past its expires_at
    lapsed,      \* the approval is past its expires_at
    executions,  \* history: governance.action.executed events
    disturbed,   \* history: requests overlapped or one broke off
    late,        \* history: a vote was cast after the human decision
    at, held, ballot   \* a request: where it is, the status it holds, its vote

state == <<kind, expired, lapsed, executions, disturbed>>
vars == <<state, proposal, approval, votes, late, at, held, ballot>>

Resolutions == {"approved", "rejected", "escalated"}

\* AUTHORIZED_VOTING_ROLES
Authorized == {"planner", "executor", "reviewer", "compliance_reviewer",
               "security_reviewer", "human_approver"}

Init ==
    /\ kind \in Kinds
    /\ proposal = "none" /\ approval = "none"
    /\ votes = [b \in Ballots |-> 0]
    /\ expired = FALSE /\ lapsed = FALSE
    /\ executions = 0 /\ disturbed = FALSE /\ late = FALSE
    /\ at = [t \in Threads |-> "idle"]
    /\ held = [t \in Threads |-> "none"]
    /\ ballot = [t \in Threads |-> NoBallot]

-----------------------------------------------------------------------------
\* Sums over the stored votes, and ConsensusEngine.evaluate.
Number(S) == MapThenSumSet(LAMBDA b : votes[b], S)
Weight(S) == MapThenSumSet(LAMBDA b : votes[b] * b.weight, S)

Approving == {b \in Ballots : b.vote = "approve"}
Rejecting == {b \in Ballots : b.vote = "reject"}
Counted == Approving \cup Rejecting
Escalating == {b \in Ballots : b.vote = "escalate"}
Unauthorized ==
    {b \in Ballots : b.role \notin Authorized \/ b.vote \notin {"approve", "reject", "abstain", "escalate"}}

Risky == kind.risk \in {"high", "critical"}

\* require_human of execute, and the condition for an approval request
Gated == kind.mode = "human_required" \/ Risky

\* security_required and compliance_required evaluate again as a majority that
\* needs their role.
RequiredRoles ==
    kind.roles \cup {r \in {"security_reviewer", "compliance_reviewer"} :
                       kind.mode = (IF r = "security_reviewer" THEN "security_required" ELSE "compliance_required")}

\* Every required role has approved, and there are enough approvals.
Quorum ==
    /\ \A r \in RequiredRoles : \E b \in Approving : b.role = r /\ votes[b] > 0
    /\ Number(Approving) >= kind.required

\* The test of the mode; threshold is the percentage the request carries.
Reached(threshold) ==
    LET total == Max({Number(Counted), kind.required})
        majority == 2 * Number(Approving) > total
    IN  CASE kind.mode = "single_approver" -> TRUE
          [] kind.mode \in {"majority", "security_required", "compliance_required"} -> majority
          [] kind.mode = "supermajority" -> /\ 3 * Number(Approving) >= 2 * total
                                           /\ 100 * Number(Approving) >= threshold * total
          [] kind.mode = "unanimous" -> Number(Rejecting) = 0
          [] kind.mode = "weighted" -> /\ Weight(Counted) > 0
                                      /\ 100 * Weight(Approving) >= threshold * Weight(Counted)

\* A vote stored with a role that may not vote makes every evaluation raise; so
\* does a supermajority of nothing, which divides by zero.
Raises ==
    \/ \E b \in Unauthorized : votes[b] > 0
    \/ /\ kind.mode = "supermajority" /\ Quorum /\ Number(Escalating) = 0
       /\ Max({Number(Counted), kind.required}) = 0

\* The status evaluate returns for the stored votes, in the order of its tests.
evaluate(threshold) ==
    IF expired THEN "expired"
    ELSE IF Risky /\ kind.mode # "human_required" THEN "blocked"
    ELSE IF Raises THEN "raises"
    ELSE IF Number(Escalating) > 0 THEN "escalated"
    ELSE IF Number(Rejecting) > 0 /\ kind.mode \in {"single_approver", "unanimous"} THEN "rejected"
    ELSE IF ~Quorum THEN "pending"
    ELSE IF kind.mode = "human_required" THEN "awaiting_human"
    ELSE IF Reached(threshold) THEN "approved" ELSE "pending"

-----------------------------------------------------------------------------
Goto(t, place) == at' = [at EXCEPT ![t] = place]
Hold(t, status) == held' = [held EXCEPT ![t] = status]

Return(t) ==
    /\ Goto(t, "idle") /\ Hold(t, "none")
    /\ ballot' = [ballot EXCEPT ![t] = NoBallot]

\* A request arrives and makes its first access to the store; that it overlaps
\* with another one is noted.
Begin(t, place, status, b) ==
    /\ at[t] = "idle"
    /\ disturbed' = (disturbed \/ \E u \in Threads : at[u] # "idle")
    /\ ballot' = [ballot EXCEPT ![t] = b]
    /\ Goto(t, place) /\ Hold(t, status)
    /\ UNCHANGED <<kind, expired, lapsed, executions>>

\* get_proposal: an open proposal past its time is put as expired, in a step of
\* its own, before the caller goes on.
Due == expired /\ proposal \notin {"executed", "rejected"}
Seen == IF Due THEN "expired" ELSE proposal

\* create_proposal, once the policy service allows it: the proposal is stored,
\* then an approval is requested if one is needed.
CreateProposal(t) ==
    /\ proposal = "none"
    /\ proposal' = "pending"
    /\ Begin(t, IF Gated THEN "request" ELSE "created", "none", NoBallot)
    /\ UNCHANGED <<approval, votes, late>>

RequestApproval(t) ==
    /\ at[t] \in {"request", "created"}
    /\ approval' = IF at[t] = "request" THEN "pending" ELSE approval
    /\ Return(t)
    /\ UNCHANGED <<state, proposal, votes, late>>

\* The routes, up to the put that get_proposal may have to make or to what comes
\* after it.  Those for votes and execution call get_proposal once more before
\* the service does; that call decides nothing and is another GetRoute.  A
\* request that is refused and writes nothing is no step.
VotesLeft == Number(Ballots)
             + Cardinality({t \in Threads : at[t] = "cast"}) < MaxVotes

VoteRoute(t, b) ==
    /\ proposal # "none"
    /\ VotesLeft
    /\ Seen \notin {"executed", "rejected", "expired"}
    /\ ~(Risky /\ b.own)
    /\ Begin(t, "cast", Seen, b)
    /\ UNCHANGED <<proposal, approval, votes, late>>

\* Mutant of ExecuteRoute: an executed proposal is executed again.
ExecuteAgain(t) ==
    /\ Seen \in {"approved", "executed"}
    /\ Begin(t, "check", Seen, NoBallot)
    /\ UNCHANGED <<proposal, approval, votes, late>>

ExecuteRoute(t) ==
    /\ Seen = "approved"
    /\ Begin(t, "check", Seen, NoBallot)
    /\ UNCHANGED <<proposal, approval, votes, late>>

\* GET of a proposal, or a vote or an execution that is refused as expired.
GetRoute(t) ==
    /\ proposal # "none"
    /\ Due
    /\ Begin(t, "expire", Seen, NoBallot)
    /\ UNCHANGED <<proposal, approval, votes, late>>

\* HumanApprovalQueue.resolve reads and tests the approval, then puts it.
ResolveRoute(t, status) ==
    /\ ~lapsed /\ approval \in {"pending", "escalated"}
    /\ Begin(t, "resolve", status, NoBallot)
    /\ UNCHANGED <<proposal, approval, votes, late>>

PutApproval(t) ==
    /\ at[t] = "resolve"
    /\ approval' = held[t]
    /\ Goto(t, "get")
    /\ UNCHANGED <<state, proposal, votes, late, held, ballot>>

\* Mutant of GetProposal: only a proposal that awaits the human is updated.
GetAwaiting(t) ==
    /\ at[t] = "get"
    /\ IF proposal = "awaiting_human" THEN Goto(t, "put") /\ UNCHANGED <<held, ballot>> ELSE Return(t)
    /\ UNCHANGED <<state, proposal, approval, votes, late>>

\* _resolve_governance_approval does not use the status it reads.
GetProposal(t) ==
    /\ at[t] = "get"
    /\ Goto(t, IF Due THEN "expire_put" ELSE "put")
    /\ UNCHANGED <<state, proposal, approval, votes, late, held, ballot>>

PutExpired(t) ==
    /\ at[t] \in {"expire", "expire_put"}
    /\ proposal' = "expired"
    /\ IF at[t] = "expire" THEN Return(t) ELSE Goto(t, "put") /\ UNCHANGED <<held, ballot>>
    /\ UNCHANGED <<state, approval, votes, late>>

\* cast_vote stores the vote, and then evaluates what is stored.
CastVote(t) ==
    /\ at[t] = "cast"
    /\ votes' = [votes EXCEPT ![ballot[t]] = @ + 1]
    /\ late' = (late \/ approval = "approved")
    /\ Goto(t, "count")
    /\ UNCHANGED <<state, proposal, approval, held, ballot>>

\* A pending result keeps the status that was read.
Count(t) ==
    /\ at[t] = "count"
    /\ LET result == evaluate(ballot[t].threshold)
       IN  IF result = "raises" THEN Return(t)
           ELSE /\ Hold(t, IF result = "pending" THEN held[t] ELSE result)
                /\ Goto(t, "put")
                /\ UNCHANGED ballot
    /\ UNCHANGED <<state, proposal, approval, votes, late>>

\* The put that ends cast_vote and _resolve_governance_approval.
PutProposal(t) ==
    /\ at[t] = "put"
    /\ proposal' = held[t]
    /\ Return(t)
    /\ UNCHANGED <<state, approval, votes, late>>

\* execute: the human approval, the policy service, then the event.
ExecuteAction(t) ==
    /\ at[t] = "check"
    /\ \/ Return(t) /\ UNCHANGED executions
       \/ /\ Gated => approval = "approved"
          /\ executions < MaxExecutions
          /\ executions' = executions + 1
          /\ Goto(t, "executed")
          /\ UNCHANGED <<held, ballot>>
    /\ UNCHANGED <<kind, expired, lapsed, disturbed, proposal, approval, votes, late>>

\* The decision record that follows is written and never read by a request.
PutExecuted(t) ==
    /\ at[t] = "executed"
    /\ proposal' = "executed"
    /\ Return(t)
    /\ UNCHANGED <<state, approval, votes, late>>

\* The process stops, or a store write or an event raises: the request ends.
Breaks(t) ==
    /\ at[t] # "idle"
    /\ Return(t)
    /\ disturbed' = TRUE
    /\ UNCHANGED <<kind, expired, lapsed, executions, proposal, approval, votes, late>>

\* Time passes.  The approval is requested after the proposal was made, for as
\* long, and so lapses after it.
Expire ==
    /\ proposal # "none"
    /\ \/ ~expired /\ expired' = TRUE /\ UNCHANGED lapsed
       \/ expired /\ approval # "none" /\ ~lapsed /\ lapsed' = TRUE /\ UNCHANGED expired
    /\ UNCHANGED <<kind, executions, disturbed, proposal, approval, votes, late, at, held, ballot>>

-----------------------------------------------------------------------------
Step(t) ==
    \/ RequestApproval(t) \/ GetProposal(t) \/ PutExpired(t)
    \/ CastVote(t) \/ Count(t) \/ PutProposal(t) \/ PutApproval(t)
    \/ ExecuteAction(t) \/ PutExecuted(t)

Route(t) ==
    \/ CreateProposal(t) \/ ExecuteRoute(t) \/ GetRoute(t)
    \/ \E b \in Ballots : VoteRoute(t, b)
    \/ \E status \in Resolutions : ResolveRoute(t, status)

Next == Expire \/ \E t \in Threads : Step(t) \/ Route(t) \/ Breaks(t)

Spec == Init /\ [][Next]_vars

-----------------------------------------------------------------------------
\* "Proposal status checks, consensus modes": what was executed without a human
\* decision had the approvals and the roles it needs among its stored votes,
\* whichever votes and executions overlapped.
ExecutedWithQuorum == executions > 0 /\ ~Gated => Quorum

\* "High-risk action execution before approval": what needs a human decision and
\* was executed is still approved by the human, unless requests overlapped.
ExecutedStaysGranted == executions > 0 /\ Gated => approval = "approved" \/ disturbed

\* execute runs the action of a proposal once, unless it overlapped with another
\* request on the proposal or one broke off between the event and the put.
ExecutedOnce == executions <= 1 \/ disturbed

\* Once the approval is granted and its request has ended, the proposal may be
\* executed until it expires, unless somebody votes after the decision: a later
\* vote moves it to awaiting_human again, and the approval is not open any more.
GrantStands ==
    approval = "approved" /\ (\A t \in Threads : at[t] = "idle") /\ ~disturbed /\ ~late
        => proposal \in {"approved", "executed", "expired"}

\* Nothing is executed without its decision: the votes it needs, or the human
\* approval that still stands, and once; the last two unless requests overlapped.
ExecutedAsDecided == ExecutedWithQuorum /\ ExecutedStaysGranted /\ ExecutedOnce
=============================================================================
