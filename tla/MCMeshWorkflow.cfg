\* Three nodes, one of them to be approved, started once; or a chain of two started twice;
\* one crash.
SPECIFICATION FairSpec
CONSTANTS
    a = a  b = b  c = c  d = d  r1 = r1  r2 = r2
    Nodes = {a, b, c, d}
    Deps <- MCDeps
    MaxRetries <- MCMaxRetries
    NeedApproval = {c}
    Runs = {r1, r2}
    Starts <- MCStarts
    NoNode = NoNode
    MaxCrashes = 1
INVARIANTS RecoveryAgrees
PROPERTIES StartReturns
CHECK_DEADLOCK FALSE
