---------------------------- MODULE MCGovernance ----------------------------
EXTENDS Governance, TLC

Kind(mode, risk, roles, required) ==
    [mode |-> mode, risk |-> risk, roles |-> roles, required |-> required]

\* A proposal for humans, a risky one that is not, an action that needs a security
\* reviewer, modes with a rejection and a threshold, and a supermajority
\* that needs no approvals.
MCKinds ==
    {Kind("human_required", "high", {}, 1), Kind("majority", "high", {}, 1),
     Kind("majority", "medium", {"security_reviewer"}, 1), Kind("unanimous", "low", {}, 2),
     Kind("supermajority", "low", {}, 0), Kind("weighted", "low", {}, 1)}

MCBallot(role, vote, weight, own, threshold) ==
    [role |-> role, vote |-> vote, weight |-> weight, own |-> own, threshold |-> threshold]

\* Two sorts of approval, one with a low threshold and one by the proposer, one
\* rejection, one abstention and a vote of a role that may not vote.
MCBallots ==
    {MCBallot("reviewer", "approve", 1, TRUE, 50), MCBallot("security_reviewer", "approve", 2, FALSE, 10),
     MCBallot("reviewer", "reject", 3, FALSE, 50), MCBallot("reviewer", "abstain", 1, FALSE, 50),
     MCBallot("observer", "approve", 1, FALSE, 50)}

\* The threads are interchangeable.
MCSymmetry == Permutations(Threads)
=============================================================================
