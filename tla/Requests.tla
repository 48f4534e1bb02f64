------------------------------ MODULE Requests ------------------------------
(***************************************************************************)
(* Requests of the server (src/agentfabric/server/app.py): an endpoint is a *)
(* plain function, so requests run in a pool of threads and interleave     *)
(* wherever they touch shared state.  A component module gives each of its *)
(* routes as the steps between two such accesses; what a request holds in  *)
(* between is its call record.                                             *)
(***************************************************************************)
EXTENDS Integers

CONSTANTS
    Threads,      \* request threads
    MaxRequests   \* bound: requests of several steps that may begin

VARIABLES
    call,         \* what each thread is doing
    left          \* requests that may still begin

\* The operation, its next step, the record it works on, what it read of that
\* record, and the rest of its local variables.
Idle == [op |-> "none", at |-> "idle", id |-> "none", copy |-> "none", arg |-> "none"]

RequestsInit ==
    /\ call = [t \in Threads |-> Idle]
    /\ left = MaxRequests

requestVars == <<call, left>>

At(t, place) == call[t].at = place

\* A request that is one step: the thread is free before and after it.
OneStep(t) == At(t, "idle") /\ UNCHANGED requestVars

Begin(t, r) ==
    /\ At(t, "idle")
    /\ left > 0
    /\ left' = left - 1
    /\ call' = [call EXCEPT ![t] = r]

Goto(t, r) == call' = [call EXCEPT ![t] = r] /\ UNCHANGED left

Step(t, place) == Goto(t, [call[t] EXCEPT !.at = place])

Done(t) == Goto(t, Idle)

Others(t) == Threads \ {t}
=============================================================================
