\* One proposal of any kind, two requests at a time, two votes.
SPECIFICATION Spec
CONSTANTS
    Threads = {t1, t2}
    Kinds <- MCKinds
    Ballots <- MCBallots
    MaxVotes = 2
    MaxExecutions = 2
    NoBallot = NoBallot
SYMMETRY MCSymmetry
INVARIANTS ExecutedAsDecided GrantStands
CHECK_DEADLOCK FALSE
