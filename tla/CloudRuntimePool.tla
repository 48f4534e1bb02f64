-------------------------- MODULE CloudRuntimePool --------------------------
(***************************************************************************)
(* The cloud job runtime implements JobPool.  A ticket of a job is its id  *)
(* in the deque or in the hands of a thread that will append or lease it;  *)
(* a lease is running from the write of dequeue to the end of dispatch_one. *)
(***************************************************************************)
EXTENDS CloudRuntime, FiniteSets

ASSUME ThreadsAssumption == IsFiniteSet(Threads)

\* How often an id is in a deque
Occurs(q, j) == Cardinality({i \in 1 .. Len(q) : q[i] = j})

Runs(t, j) == hand[t] = j /\ pc[t] \in {"assign", "enforce", "handle", "completed"}

Carriers(j) == {t \in Threads : Carries(t, j)}

Runners(j) == {t \in Dispatchers : Runs(t, j)}

Submitted == {j \in Jobs : jobs[j].status # "absent"}

Tickets == [j \in Jobs |-> Occurs(queue, j) + Cardinality(Carriers(j))]

Running == [j \in Jobs |-> Cardinality(Runners(j))]

Pool == INSTANCE JobPool WITH
    submitted <- Submitted, tickets <- Tickets, running <- Running, buried <- dead, revived <- touched

\* Whatever dispatchers and operators do to the records of _jobs, the queue keeps
\* the promise of JobPool: an id that dequeue takes is leased once or goes back
\* once, dispatch_one gives back a ticket only for the lease it had, put and
\* enqueue make new ones only for submit, retry and requeue_dead_letter, and a
\* job is buried only by the holder of a lease after its last attempt.
ImplementsJobPool == Pool!PoolSpec
=============================================================================
