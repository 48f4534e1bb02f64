---------------------------- MODULE CloudRuntime ----------------------------
(***************************************************************************)
(* The cloud job runtime of src/agentfabric/cloud: CloudRuntime (submit,   *)
(* cancel, retry, requeue_dead_letter) and Dispatcher.dispatch_one over    *)
(* the in-process MemoryJobQueue.                                          *)
(*                                                                         *)
(* Every caller is a request thread of the API server, and no lock guards  *)
(* the queue.  One step is therefore one access to a shared structure: a   *)
(* write of _jobs, a popleft, an append, a membership test.  What a thread *)
(* keeps in local variables between two such accesses is in hand and copy. *)
(***************************************************************************)
EXTENDS Integers, Sequences

CONSTANTS
    Jobs,          \* job ids (uuid4, so an id is submitted once)
    Dispatchers,   \* threads that keep calling dispatch_one
    Operators,     \* threads that serve submit, cancel, retry and requeue
    Tenants,
    TenantOf,      \* the tenant_id of each job
    FilterOf,      \* the tenant_id each dispatcher passes to dequeue
    MaxAttempts,   \* max_attempts of each job
    MaxOps,        \* bound: operator calls (cancel, retry, requeue) in a run
    NoJob          \* not a job id: a thread that holds nothing

ASSUME CloudAssumption ==
    /\ NoJob \notin Jobs
    /\ Dispatchers \cap Operators = {}
    /\ TenantOf \in [Jobs -> Tenants]
    /\ FilterOf \in [Dispatchers -> Tenants]
    /\ MaxAttempts \in [Jobs -> Int]
    /\ MaxOps \in Nat

Threads == Dispatchers \cup Operators

JobStatus == {"queued", "assigned", "running", "completed", "failed",
              "cancelled", "dead_lettered"}

\* The fields of a job record that the runtime branches on or changes;
\* "absent" stands for an id that is not a key of _jobs.
RuntimeJob == [status : JobStatus \cup {"absent"}, attempts : Nat]

Absent == [status |-> "absent", attempts |-> 0]

VARIABLES
    jobs,     \* MemoryJobQueue._jobs
    queue,    \* MemoryJobQueue._queues["default"]
    dead,     \* the keys of MemoryJobQueue._dead
    pc,       \* where each thread is in the call it serves
    hand,     \* the job id a thread has in a local variable
    copy,     \* the job record a thread has in a local variable
    left,     \* iterations left in dequeue's for loop
    leases,   \* history: how often each job was leased
    touched,  \* history: the jobs an operator retried or requeued
    ops       \* operator calls made so far, at most MaxOps

vars == <<jobs, queue, dead, pc, hand, copy, left, leases, touched, ops>>

Init ==
    /\ jobs = [j \in Jobs |-> Absent]
    /\ queue = << >>
    /\ dead = {}
    /\ pc = [t \in Threads |-> "idle"]
    /\ hand = [t \in Threads |-> NoJob]
    /\ copy = [t \in Threads |-> Absent]
    /\ left = [t \in Dispatchers |-> 0]
    /\ leases = [j \in Jobs |-> 0]
    /\ touched = {}
    /\ ops = 0

-----------------------------------------------------------------------------
(* Thread-local control. *)

Goto(t, place, j, r) ==
    /\ pc' = [pc EXCEPT ![t] = place]
    /\ hand' = [hand EXCEPT ![t] = j]
    /\ copy' = [copy EXCEPT ![t] = r]

Return(t) == Goto(t, "idle", NoJob, Absent)

\* RuntimeJob.with_update(status=...)
WithStatus(r, s) == [r EXCEPT !.status = s]

InQueue(j) == \E i \in 1..Len(queue) : queue[i] = j

\* self._jobs[job_id] = record
Write(j, r) == jobs' = [jobs EXCEPT ![j] = r]

\* Mutant of WriteQueued: the record is stored and the id never appended.
WriteQueuedOnly(t, next) ==
    LET queued == WithStatus(copy[t], "queued")
    IN  /\ Write(hand[t], queued)
        /\ Return(t)
        /\ UNCHANGED <<queue, dead, left, leases>>

\* The part of put and enqueue before the id reaches the deque: the record is
\* stored first, so from here on the job is visible as queued.
WriteQueued(t, next) ==
    LET queued == WithStatus(copy[t], "queued")
    IN  /\ Write(hand[t], queued)
        /\ Goto(t, next, hand[t], queued)
        /\ UNCHANGED <<queue, dead, left, leases>>

\* MemoryJobQueue.put: if job_id not in queue
PutCheck(t) ==
    /\ pc[t] = "recheck"
    /\ IF InQueue(hand[t]) THEN Return(t) ELSE Goto(t, "append", hand[t], copy[t])
    /\ UNCHANGED <<jobs, queue, dead, left, leases, touched, ops>>

\* queue.append(job_id), at the end of put and of enqueue
QueueAppend(t) ==
    /\ pc[t] = "append"
    /\ queue' = Append(queue, hand[t])
    /\ Return(t)
    /\ UNCHANGED <<jobs, dead, left, leases, touched, ops>>

-----------------------------------------------------------------------------
(* Calls served by operator threads. *)

\* CloudRuntime.submit: enqueue stores the record, then appends the id.
Submit(t, j) ==
    /\ pc[t] = "idle"
    /\ jobs[j].status = "absent"
    /\ LET queued == [status |-> "queued", attempts |-> 0]
       IN Write(j, queued) /\ Goto(t, "append", j, queued)
    /\ UNCHANGED <<queue, dead, left, leases, touched, ops>>

\* The read at the head of cancel, retry and requeue_dead_letter; none of them
\* looks at the status of the job.
Get(t, j, call) ==
    /\ pc[t] = "idle"
    /\ ops < MaxOps
    /\ jobs[j].status # "absent"
    /\ Goto(t, call, j, jobs[j])
    /\ ops' = ops + 1
    /\ UNCHANGED <<jobs, queue, dead, left, leases, touched>>

Cancel(t) ==
    /\ pc[t] = "cancel"
    /\ Write(hand[t], WithStatus(copy[t], "cancelled"))
    /\ Return(t)
    /\ UNCHANGED <<queue, dead, left, leases, touched, ops>>

\* CloudRuntime.retry ends in put, which appends the id only if it is missing.
Retry(t) ==
    /\ pc[t] = "retry"
    /\ WriteQueued(t, "recheck")
    /\ touched' = touched \cup {hand[t]}
    /\ UNCHANGED ops

\* CloudRuntime.requeue_dead_letter ends in enqueue, which always appends.
RequeueDeadLetter(t) ==
    /\ pc[t] = "requeue"
    /\ WriteQueued(t, "append")
    /\ touched' = touched \cup {hand[t]}
    /\ UNCHANGED ops

-----------------------------------------------------------------------------
(* Dispatcher.dispatch_one. *)

\* dequeue evaluates range(len(queue)) once.
DequeueBegin(t) ==
    /\ pc[t] = "idle"
    /\ pc' = [pc EXCEPT ![t] = "pop"]
    /\ left' = [left EXCEPT ![t] = Len(queue)]
    /\ UNCHANGED <<jobs, queue, dead, hand, copy, leases, touched, ops>>

\* The loop is exhausted, or popleft raises IndexError because other threads
\* emptied the deque after its length was read.
DequeueEnd(t) ==
    /\ pc[t] = "pop"
    /\ left[t] = 0 \/ queue = << >>
    /\ Return(t)
    /\ left' = [left EXCEPT ![t] = 0]
    /\ UNCHANGED <<jobs, queue, dead, leases, touched, ops>>

\* Mutant of DequeuePop: the id is read and stays in the deque.
DequeuePeek(t) ==
    /\ pc[t] = "pop"
    /\ left[t] > 0
    /\ queue # << >>
    /\ Goto(t, "lookup", Head(queue), Absent)
    /\ left' = [left EXCEPT ![t] = @ - 1]
    /\ UNCHANGED <<jobs, queue, dead, leases, touched, ops>>

DequeuePop(t) ==
    /\ pc[t] = "pop"
    /\ left[t] > 0
    /\ queue # << >>
    /\ queue' = Tail(queue)
    /\ Goto(t, "lookup", Head(queue), Absent)
    /\ left' = [left EXCEPT ![t] = @ - 1]
    /\ UNCHANGED <<jobs, dead, leases, touched, ops>>

\* An id whose record is not queued any more is dropped from the deque.
DequeueLookup(t) ==
    /\ pc[t] = "lookup"
    /\ LET j == hand[t]
           job == jobs[j]
       IN  \/ /\ job.status # "queued"
              /\ Goto(t, "pop", NoJob, Absent)
           \/ /\ job.status = "queued"
              /\ TenantOf[j] # FilterOf[t]
              /\ Goto(t, "rotate", j, Absent)
           \/ /\ job.status = "queued"
              /\ TenantOf[j] = FilterOf[t]
              /\ Goto(t, "lease", j, job)
    /\ UNCHANGED <<jobs, queue, dead, left, leases, touched, ops>>

\* A job of another tenant goes to the back of the deque.
DequeueRotate(t) ==
    /\ pc[t] = "rotate"
    /\ queue' = Append(queue, hand[t])
    /\ Goto(t, "pop", NoJob, Absent)
    /\ UNCHANGED <<jobs, dead, left, leases, touched, ops>>

DequeueLease(t) ==
    /\ pc[t] = "lease"
    /\ LET leased == [status |-> "assigned", attempts |-> copy[t].attempts + 1]
       IN Write(hand[t], leased) /\ Goto(t, "assign", hand[t], leased)
    /\ left' = [left EXCEPT ![t] = 0]
    /\ leases' = [leases EXCEPT ![hand[t]] = @ + 1]
    /\ UNCHANGED <<queue, dead, touched, ops>>

\* put(assigned): the same record, now with the worker id.
Assign(t) ==
    /\ pc[t] = "assign"
    /\ Write(hand[t], copy[t])
    /\ Goto(t, "enforce", hand[t], copy[t])
    /\ UNCHANGED <<queue, dead, left, leases, touched, ops>>

\* dispatch_one raises to its caller and the record stays as it is: validate or
\* _enforce refuses (quota, spend, governance, entitlement, federation or VEIL
\* policy), or the append of an event fails outside the try or inside except.
Abandon(t) ==
    /\ pc[t] \in {"enforce", "handle", "completed"}
    /\ Return(t)
    /\ UNCHANGED <<jobs, queue, dead, left, leases, touched, ops>>

\* put(running)
Start(t) ==
    /\ pc[t] = "enforce"
    /\ LET running == WithStatus(copy[t], "running")
       IN Write(hand[t], running) /\ Goto(t, "handle", hand[t], running)
    /\ UNCHANGED <<queue, dead, left, leases, touched, ops>>

\* The handler returned: put(completed); the event is still to be appended.
Complete(t) ==
    /\ pc[t] = "handle"
    /\ Write(hand[t], WithStatus(copy[t], "completed"))
    /\ Goto(t, "completed", hand[t], copy[t])
    /\ UNCHANGED <<queue, dead, left, leases, touched, ops>>

CompletedEvent(t) ==
    /\ pc[t] = "completed"
    /\ Return(t)
    /\ UNCHANGED <<jobs, queue, dead, left, leases, touched, ops>>

\* The except branch is reached from the handler and also from the append of
\* the completed event, which is inside the same try.
Raised(t) == pc[t] \in {"handle", "completed"}

\* Mutant of DeadLetter: one attempt too early.
DeadLetterEarly(t) ==
    /\ Raised(t)
    /\ copy[t].attempts + 1 >= MaxAttempts[hand[t]]
    /\ Write(hand[t], WithStatus(copy[t], "dead_lettered"))
    /\ dead' = dead \cup {hand[t]}
    /\ Return(t)
    /\ UNCHANGED <<queue, left, leases, touched, ops>>

DeadLetter(t) ==
    /\ Raised(t)
    /\ copy[t].attempts >= MaxAttempts[hand[t]]
    /\ Write(hand[t], WithStatus(copy[t], "dead_lettered"))
    /\ dead' = dead \cup {hand[t]}
    /\ Return(t)
    /\ UNCHANGED <<queue, left, leases, touched, ops>>

FailAndRequeue(t) ==
    /\ Raised(t)
    /\ copy[t].attempts < MaxAttempts[hand[t]]
    /\ WriteQueued(t, "recheck")
    /\ UNCHANGED <<touched, ops>>

-----------------------------------------------------------------------------
OperatorStep(t) == Cancel(t) \/ Retry(t) \/ RequeueDeadLetter(t)

PutStep(t) == PutCheck(t) \/ QueueAppend(t)

DispatchStep(t) ==
    \/ DequeueBegin(t) \/ DequeueEnd(t) \/ DequeuePop(t) \/ DequeueLookup(t)
    \/ DequeueRotate(t) \/ DequeueLease(t)
    \/ Assign(t) \/ Abandon(t) \/ Start(t)
    \/ Complete(t) \/ CompletedEvent(t) \/ DeadLetter(t) \/ FailAndRequeue(t)

Next ==
    \/ \E t \in Operators :
          \/ \E j \in Jobs : \/ Submit(t, j)
                             \/ \E call \in {"cancel", "retry", "requeue"} : Get(t, j, call)
          \/ OperatorStep(t)
    \/ \E t \in Threads : PutStep(t)
    \/ \E t \in Dispatchers : DispatchStep(t)

Spec == Init /\ [][Next]_vars

\* A thread that has begun a call runs on, and dispatch requests keep coming.
Fairness ==
    /\ \A t \in Operators : WF_vars(OperatorStep(t) \/ PutStep(t))
    /\ \A t \in Dispatchers : WF_vars(DispatchStep(t) \/ PutStep(t))

FairSpec == Spec /\ Fairness

-----------------------------------------------------------------------------
Places == {"idle", "append", "recheck", "cancel", "retry", "requeue", "pop",
           "lookup", "rotate", "lease", "assign", "enforce", "handle", "completed"}

\* A thread outside idle and the dequeue loop head holds a job id.
TypeOK ==
    /\ jobs \in [Jobs -> RuntimeJob]
    /\ queue \in Seq(Jobs)
    /\ dead \subseteq Jobs
    /\ pc \in [Threads -> Places]
    /\ hand \in [Threads -> Jobs \cup {NoJob}]
    /\ copy \in [Threads -> RuntimeJob]
    /\ left \in [Dispatchers -> Nat]
    /\ leases \in [Jobs -> Nat]
    /\ touched \subseteq Jobs
    /\ ops \in 0..MaxOps
    /\ \A t \in Threads : pc[t] \notin {"idle", "pop"} => hand[t] \in Jobs

\* A thread that holds the id of j and will either append it or lease it.
Carries(t, j) ==
    /\ hand[t] = j
    /\ pc[t] \in {"append", "recheck", "lookup", "rotate", "lease"}

\* No queued job is lost: in every interleaving of dispatchers and operators a
\* job whose record says queued is in the deque or in the hands of a thread
\* that will append or lease it (put writes the record before it looks for the
\* id, and dequeue reads the record after it took the id).
QueuedJobReachable ==
    \A j \in Jobs : jobs[j].status = "queued" => InQueue(j) \/ \E t \in Threads : Carries(t, j)

\* No record, stored or held by a thread, claims more attempts than the job has
\* had leases: stale writes by cancel, retry and the dispatcher may lose
\* attempts, and never invent one.
AttemptsNeverOvercount ==
    /\ \A j \in Jobs : jobs[j].attempts <= leases[j]
    /\ \A t \in Threads : hand[t] \in Jobs => copy[t].attempts <= leases[hand[t]]

\* A job is dead-lettered only after it was leased max_attempts times, however
\* many stale records operators and dispatchers write over each other.
NoEarlyDeadLetter == \A j \in dead : leases[j] >= MaxAttempts[j]

Working(t) == pc[t] \in {"lease", "assign", "enforce", "handle", "completed"}

\* Two dispatchers work on one job at a time only if an operator retried or
\* requeued that job: submit and the dispatcher's own retries never put a job
\* twice into play.
LeaseExclusiveUnlessTouched ==
    \A t, u \in Dispatchers :
        t # u /\ Working(t) /\ Working(u) /\ hand[t] = hand[u] => hand[t] \in touched

=============================================================================
