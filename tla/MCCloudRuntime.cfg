\* Three jobs, one of a tenant nobody dispatches; two dispatchers, one operator making one call.
SPECIFICATION Spec
CONSTANTS
    j1 = j1  j2 = j2  j3 = j3  d1 = d1  d2 = d2  o1 = o1  A = A  B = B
    Jobs = {j1, j2, j3}
    Dispatchers = {d1, d2}
    Operators = {o1}
    Tenants = {A, B}
    TenantOf <- MCTenantOf
    FilterOf <- MCFilterOf
    MaxAttempts <- MCMaxAttempts
    MaxOps = 1
    NoJob = NoJob
INVARIANTS QueuedJobReachable NoEarlyDeadLetter LeaseExclusiveUnlessTouched
