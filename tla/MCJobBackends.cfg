\* SQLite: two jobs, two threads, two restarts at any point, one operator call.
\* Redis: two jobs, one of a tenant nobody dispatches; two processes that may stop
\* at any point, one operator call.
SPECIFICATION MCSpec
CONSTANTS
    j1 = j1  j2 = j2  j3 = j3  p1 = p1  p2 = p2  A = A  B = B
    Jobs = {j1, j2}
    Threads = {t1, t2}
    MaxAttempts = 2
    MaxRestarts = 2
    MaxOps = 1
    RedisJobs = {j1, j3}
    Procs = {p1, p2}
    Tenants = {A, B}
    TenantOf <- MCTenantOf
    FilterOf <- MCFilterOf
    RedisAttempts = 2
    RedisCalls = 1
    NoJob = NoJob
INVARIANTS  RedisQueueAgrees
CHECK_DEADLOCK FALSE
