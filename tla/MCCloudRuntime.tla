--------------------------- MODULE MCCloudRuntime ---------------------------
(* Small instances of CloudRuntime for TLC. *)
EXTENDS CloudRuntimePool, TLC

CONSTANTS j1, j2, j3, d1, d2, o1, A, B

\* The dispatchers work for tenant A; a job of B is rotated and stays.
MCTenantOf == [j \in Jobs |-> IF j = j3 THEN B ELSE A]
MCFilterOf == [d \in Dispatchers |-> A]
MCMaxAttempts == [j \in Jobs |-> 2]
=============================================================================
