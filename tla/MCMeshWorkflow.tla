--------------------------- MODULE MCMeshWorkflow ---------------------------
(* Small instances of MeshWorkflow for TLC. *)
EXTENDS MeshWorkflow, TLC

CONSTANTS a, b, c, d, r1, r2

\* a and b in one batch, c after both; d after b.
MCDeps == (a :> {}) @@ (b :> {}) @@ (c :> {a, b}) @@ (d :> {b})
MCMaxRetries == [n \in Nodes |-> IF n = a THEN 1 ELSE 0]

\* The graph of three nodes is started once, a chain of two nodes twice.
MCStarts == {[nodes |-> {a, b, c}, runs |-> {r1}], [nodes |-> {b, d}, runs |-> {r1, r2}]}
=============================================================================
