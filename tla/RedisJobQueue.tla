---------------------------- MODULE RedisJobQueue ----------------------------
(***************************************************************************)
(* The Redis backend of the cloud job queue, shared by several API         *)
(* processes.  Ids travel through a Redis list, records through a Redis    *)
(* hash; each command is atomic and a call makes several.  get reads the   *)
(* memory of the calling process only, so each process operates on the     *)
(* jobs it has itself enqueued or leased.                                  *)
(***************************************************************************)
EXTENDS Integers, Sequences, SequencesExt

CONSTANTS
    RedisJobs,          \* job ids
    Procs,         \* API processes, one request at a time each
    Tenants,
    TenantOf,      \* the tenant_id of each job
    FilterOf,      \* the tenant_id each process passes to dequeue
    RedisAttempts,   \* max_attempts of every job
    RedisCalls,        \* bound: cancel, retry and requeue calls
    NoJob

ASSUME RedisAssumption == NoJob \notin RedisJobs /\ RedisAttempts \in Nat /\ RedisCalls \in Nat

VARIABLES
    list,    \* af:runtime:default, the head is where rpop takes
    hash,    \* af:runtime:jobs
    local,   \* MemoryJobQueue._jobs of each process
    pc, hand, copy,   \* where a process is, the id and the record it holds
    loops,    \* iterations left in dequeue's loop
    pushes,  \* history: how often each id was pushed by enqueue
    taken,  \* history: how often each job was leased
    stranded,\* history: jobs whose id is off the list although nobody leased them last
    calls

redisVars == <<list, hash, local, pc, hand, copy, loops, pushes, taken, stranded, calls>>

NotStored == [status |-> "absent", attempts |-> 0]

RedisInit ==
    /\ list = << >>
    /\ hash = [j \in RedisJobs |-> NotStored]
    /\ local = [p \in Procs |-> [j \in RedisJobs |-> NotStored]]
    /\ pc = [p \in Procs |-> "idle"]
    /\ hand = [p \in Procs |-> NoJob]
    /\ copy = [p \in Procs |-> NotStored]
    /\ loops = [p \in Procs |-> 0]
    /\ pushes = [j \in RedisJobs |-> 0]
    /\ taken = [j \in RedisJobs |-> 0]
    /\ stranded = {}
    /\ calls = 0

GoOn(p, place, j, r) ==
    /\ pc' = [pc EXCEPT ![p] = place]
    /\ hand' = [hand EXCEPT ![p] = j]
    /\ copy' = [copy EXCEPT ![p] = r]

\* super().put or super().enqueue: the record in the memory of the process; the
\* in-process deque is not read while a Redis client is there.
Remember(p, j, r) == local' = [local EXCEPT ![p][j] = r]

\* put: memory first, then hset; "saved" is where the process goes on.
PutCopy(p, j, r, saved) == Remember(p, j, r) /\ GoOn(p, saved, j, r)

\* The lpush of enqueue, before its hset.
Lpush(p) ==
    /\ pc[p] = "lpush"
    /\ list' = Append(list, hand[p])
    /\ pushes' = [pushes EXCEPT ![hand[p]] = @ + 1]
    /\ stranded' = stranded \ {hand[p]}
    /\ GoOn(p, "hset", hand[p], copy[p])
    /\ UNCHANGED <<hash, local, loops, taken, calls>>

\* The hset that ends put and enqueue; a leased record is then executed.
Hset(p) ==
    /\ pc[p] \in {"hset", "hset_leased", "hset_assigned", "hset_running"}
    /\ hash' = [hash EXCEPT ![hand[p]] = copy[p]]
    /\ CASE pc[p] = "hset" -> GoOn(p, "idle", NoJob, NotStored)
         [] pc[p] = "hset_leased" -> GoOn(p, "assign", hand[p], copy[p])
         [] pc[p] = "hset_assigned" -> GoOn(p, "enforce", hand[p], copy[p])
         [] pc[p] = "hset_running" -> GoOn(p, "handle", hand[p], copy[p])
    /\ UNCHANGED <<list, local, loops, pushes, taken, stranded, calls>>

SubmitJob(p, j) ==
    /\ pc[p] = "idle"
    /\ pushes[j] = 0 /\ \A q \in Procs : local[q][j] = NotStored
    /\ PutCopy(p, j, [status |-> "queued", attempts |-> 0], "lpush")
    /\ UNCHANGED <<list, hash, loops, pushes, taken, stranded, calls>>

\* cancel, retry and requeue_dead_letter of a job this process knows.
OperatorCall(p, j) ==
    /\ pc[p] = "idle"
    /\ calls < RedisCalls
    /\ calls' = calls + 1
    /\ local[p][j] # NotStored
    /\ LET job == local[p][j]
           queued == [job EXCEPT !.status = "queued"]
       IN  \/ PutCopy(p, j, [job EXCEPT !.status = "cancelled"], "hset") /\ UNCHANGED stranded
           \/ PutCopy(p, j, queued, "hset") /\ stranded' = stranded \cup {j}
           \/ PutCopy(p, j, queued, "lpush") /\ UNCHANGED stranded
    /\ UNCHANGED <<list, hash, loops, pushes, taken>>

\* range(llen(...)), evaluated once
DequeueBegin(p) ==
    /\ pc[p] = "idle"
    /\ list # << >>
    /\ loops' = [loops EXCEPT ![p] = Len(list)]
    /\ GoOn(p, "rpop", NoJob, NotStored)
    /\ UNCHANGED <<list, hash, local, pushes, taken, stranded, calls>>

\* The id of j is on the list and its record is not in the hash yet.
BetweenPushAndSet(j) == \E q \in Procs : pc[q] = "hset" /\ hand[q] = j /\ copy[q].status = "queued"

Popped(j) == stranded' = IF BetweenPushAndSet(j) THEN stranded \cup {j} ELSE stranded

\* Mutant of Rpop: the id is read and left on the list.
Lindex(p) ==
    /\ pc[p] = "rpop"
    /\ IF loops[p] = 0 \/ list = << >>
       THEN GoOn(p, "idle", NoJob, NotStored) /\ UNCHANGED <<list, loops, stranded>>
       ELSE /\ GoOn(p, "hget", Head(list), NotStored)
            /\ UNCHANGED list
            /\ loops' = [loops EXCEPT ![p] = @ - 1]
            /\ Popped(Head(list))
    /\ UNCHANGED <<hash, local, pushes, taken, calls>>

Rpop(p) ==
    /\ pc[p] = "rpop"
    /\ IF loops[p] = 0 \/ list = << >>
       THEN GoOn(p, "idle", NoJob, NotStored) /\ UNCHANGED <<list, loops, stranded>>
       ELSE /\ GoOn(p, "hget", Head(list), NotStored)
            /\ list' = Tail(list)
            /\ loops' = [loops EXCEPT ![p] = @ - 1]
            /\ Popped(Head(list))
    /\ UNCHANGED <<hash, local, pushes, taken, calls>>

\* An id without a record is dropped; a job of another tenant is pushed back
\* (Rotate); any other record is leased whatever its status is.
Hget(p) ==
    /\ pc[p] = "hget"
    /\ LET j == hand[p]
           job == hash[j]
           leased == [status |-> "assigned", attempts |-> job.attempts + 1]
       IN  \/ /\ job = NotStored
              /\ GoOn(p, "rpop", NoJob, NotStored)
              /\ UNCHANGED <<local, taken>>
           \/ /\ job # NotStored
              /\ TenantOf[j] # FilterOf[p]
              /\ GoOn(p, "rotate", j, NotStored)
              /\ UNCHANGED <<local, taken>>
           \/ /\ job # NotStored
              /\ TenantOf[j] = FilterOf[p]
              /\ PutCopy(p, j, leased, "hset_leased")
              /\ taken' = [taken EXCEPT ![j] = @ + 1]
    /\ UNCHANGED <<list, hash, loops, pushes, stranded, calls>>

Rotate(p) ==
    /\ pc[p] = "rotate"
    /\ list' = Append(list, hand[p])
    /\ GoOn(p, "rpop", NoJob, NotStored)
    /\ UNCHANGED <<hash, local, loops, pushes, taken, stranded, calls>>

\* dispatch_one puts the leased record again, with the worker id.
Assign(p) ==
    /\ pc[p] = "assign"
    /\ PutCopy(p, hand[p], copy[p], "hset_assigned")
    /\ UNCHANGED <<list, hash, loops, pushes, taken, stranded, calls>>

\* _enforce refuses the job, or it is put as running.
Enforce(p) ==
    /\ pc[p] = "enforce"
    /\ \/ GoOn(p, "idle", NoJob, NotStored) /\ UNCHANGED local
       \/ PutCopy(p, hand[p], [copy[p] EXCEPT !.status = "running"], "hset_running")
    /\ UNCHANGED <<list, hash, loops, pushes, taken, stranded, calls>>

\* put(completed); put(queued) after a failure; or dead_letter.
Finish(p) ==
    /\ pc[p] = "handle"
    /\ LET done(s) == PutCopy(p, hand[p], [copy[p] EXCEPT !.status = s], "hset")
       IN  \/ done("completed") /\ UNCHANGED stranded
           \/ /\ copy[p].attempts < RedisAttempts
              /\ done("queued")
              /\ stranded' = stranded \cup {hand[p]}
           \/ /\ copy[p].attempts >= RedisAttempts
              /\ Remember(p, hand[p], [copy[p] EXCEPT !.status = "dead_lettered"])
              /\ GoOn(p, "idle", NoJob, NotStored)
              /\ UNCHANGED stranded
    /\ UNCHANGED <<list, hash, loops, pushes, taken, calls>>

\* The process stops between two commands and starts again without memory.
StopProcess(p) ==
    /\ pc[p] # "idle"
    /\ local' = [local EXCEPT ![p] = [j \in RedisJobs |-> NotStored]]
    /\ GoOn(p, "idle", NoJob, NotStored)
    /\ stranded' = stranded \cup ({hand[p]} \cap RedisJobs)
    /\ UNCHANGED <<list, hash, loops, pushes, taken, calls>>

-----------------------------------------------------------------------------
ProcessStep(p) == Lpush(p) \/ Hset(p) \/ DequeueBegin(p) \/ Rpop(p) \/ Hget(p)
           \/ Rotate(p) \/ Assign(p) \/ Enforce(p) \/ Finish(p)
           \/ StopProcess(p)

RedisNext == \E p \in Procs : ProcessStep(p) \/ \E j \in RedisJobs : SubmitJob(p, j) \/ OperatorCall(p, j)

RedisSpec == RedisInit /\ [][RedisNext]_redisVars

-----------------------------------------------------------------------------
Working(p) == pc[p] \in {"hset_leased", "assign", "hset_assigned", "enforce", "hset_running", "handle"}

\* Across processes a job is leased at most as often as it was pushed, so two
\* processes work on one job only after an operator requeued it: rpop hands an
\* id to one process, and rotation neither loses nor doubles it.
LeasesCoveredByPushes ==
    /\ \A j \in RedisJobs : taken[j] <= pushes[j]
    /\ \A p, q \in Procs :
          p # q /\ Working(p) /\ Working(q) /\ hand[p] = hand[q] => pushes[hand[p]] > 1

\* A record that says queued has its id on the list or in the hands of a
\* process, with three exceptions that last until the next push: it was put
\* back as queued without a push (a retry), its id was popped between lpush and
\* hset, or a process stopped with it.
QueuedIsOnTheList ==
    \A j \in RedisJobs \ stranded :
        hash[j].status = "queued" => Contains(list, j) \/ \E p \in Procs : hand[p] = j

\* The list and the hash of Redis tell the same of a job in every process: queued
\* jobs are on the list, and no id is leased more often than it was pushed.
RedisQueueAgrees == LeasesCoveredByPushes /\ QueuedIsOnTheList
=============================================================================
