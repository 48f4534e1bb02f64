---------------------------- MODULE MCJobBackends ----------------------------
(* The two durable backends of the job queue, one of them at a time.         *)
EXTENDS SqliteJobQueue, RedisJobQueue

CONSTANTS j1, j2, j3, p1, p2, A, B

VARIABLE backend

\* The Redis dispatchers work for tenant A; a job of B is rotated and stays.
MCTenantOf == [j \in RedisJobs |-> IF j = j3 THEN B ELSE A]
MCFilterOf == [p \in Procs |-> A]

MCInit == backend \in {"sqlite", "redis"} /\ SqliteInit /\ RedisInit

SqlitePart == backend = "sqlite" /\ SqliteNext /\ UNCHANGED <<backend, redisVars>>

RedisPart == backend = "redis" /\ RedisNext /\ UNCHANGED <<backend, sqliteVars>>

MCNext == SqlitePart \/ RedisPart

MCSpec == MCInit /\ [][MCNext]_<<backend, sqliteVars, redisVars>>
=============================================================================
