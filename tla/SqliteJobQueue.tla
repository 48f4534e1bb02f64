--------------------------- MODULE SqliteJobQueue ---------------------------
(***************************************************************************)
(* The SQLite backend of the cloud job queue: every call changes the       *)
(* in-process queue first and stores the record in a table second.  A      *)
(* restart keeps the tables and rebuilds _jobs and _dead from them.        *)
(*                                                                         *)
(* The fine interleavings of the in-process part are those of module       *)
(* CloudRuntime; here that part of a call is one step and one tenant uses  *)
(* the deque.  What is added is the write to the store and the restart.    *)
(***************************************************************************)
EXTENDS Integers, Sequences, FiniteSets, SequencesExt

CONSTANTS
    Jobs,          \* job ids
    Threads,       \* request threads
    MaxAttempts,   \* max_attempts of every job
    MaxRestarts,   \* bound: restarts of the process
    MaxOps         \* bound: cancel, retry and requeue calls

ASSUME SqliteAssumption == MaxAttempts \in Nat /\ MaxRestarts \in Nat /\ MaxOps \in Nat

VARIABLES
    jobs,      \* MemoryJobQueue._jobs
    queue,     \* MemoryJobQueue._queues["default"]
    dead,      \* the keys of MemoryJobQueue._dead
    rows,      \* table runtime_jobs
    deadRows,  \* the keys of table runtime_dead_letters
    store,     \* the puts a thread has still to make: a sequence of <<table, id, record>>
    work,      \* what dispatch_one does next: <<id, record>>, or << >>
    loaded,    \* history: jobs whose record was loaded as queued by the last restart
    restarts, ops

sqliteVars == <<jobs, queue, dead, rows, deadRows, store, work, loaded, restarts, ops>>

Absent == [status |-> "absent", attempts |-> 0]

SqliteInit ==
    /\ jobs = [j \in Jobs |-> Absent]
    /\ queue = << >>
    /\ dead = {}
    /\ rows = [j \in Jobs |-> Absent]
    /\ deadRows = {}
    /\ store = [t \in Threads |-> << >>]
    /\ work = [t \in Threads |-> << >>]
    /\ loaded = {}
    /\ restarts = 0
    /\ ops = 0

Idle(t) == store[t] = << >> /\ work[t] = << >>

\* Change the record of j in memory, leave the store write to be done, and go on with w.
Save(t, j, r, w) ==
    /\ jobs' = [jobs EXCEPT ![j] = r]
    /\ store' = [store EXCEPT ![t] = <<<<"runtime_jobs", j, r>>>>]
    /\ work' = [work EXCEPT ![t] = w]

\* enqueue always appends the id; put appends it if it is missing.
Enqueue(t, j, r) == Save(t, j, r, << >>) /\ queue' = Append(queue, j)


Put(t, j, r, w) ==
    /\ Save(t, j, r, w)
    /\ queue' = IF r.status = "queued" /\ ~Contains(queue, j) THEN Append(queue, j) ELSE queue

Submit(t, j) ==
    /\ Idle(t)
    /\ jobs[j] = Absent
    /\ Enqueue(t, j, [status |-> "queued", attempts |-> 0])
    /\ UNCHANGED <<dead, rows, deadRows, loaded, restarts, ops>>

Cancel(t, j) ==
    /\ Idle(t)
    /\ jobs[j] # Absent
    /\ Put(t, j, [jobs[j] EXCEPT !.status = "cancelled"], << >>)
    /\ UNCHANGED <<dead, rows, deadRows, loaded, restarts>>

Retry(t, j) ==
    /\ Idle(t)
    /\ jobs[j] # Absent
    /\ Put(t, j, [jobs[j] EXCEPT !.status = "queued"], << >>)
    /\ loaded' = loaded \ {j}
    /\ UNCHANGED <<dead, rows, deadRows, restarts>>

RequeueDeadLetter(t, j) ==
    /\ Idle(t)
    /\ jobs[j] # Absent
    /\ Enqueue(t, j, [jobs[j] EXCEPT !.status = "queued"])
    /\ loaded' = loaded \ {j}
    /\ UNCHANGED <<dead, rows, deadRows, restarts>>

\* dequeue drops ids that are not queued any more and leases the first that is.
Dequeue(t) ==
    /\ Idle(t)
    /\ queue # << >>
    /\ LET isQueued(j) == jobs[j].status = "queued"
           k == SelectInSeq(queue, isQueued)
       IN  IF k = 0
           THEN queue' = << >> /\ UNCHANGED <<jobs, store, work>>
           ELSE LET j == queue[k]
                    leased == [status |-> "assigned", attempts |-> jobs[j].attempts + 1]
                IN  /\ queue' = SubSeq(queue, k + 1, Len(queue))
                    /\ Save(t, j, leased, <<j, leased>>)
    /\ UNCHANGED <<dead, rows, deadRows, loaded, restarts, ops>>

\* The puts of execute: running, then completed, or back to queued after a
\* failure; or _enforce refuses the job and dispatch_one raises.
Execute(t) ==
    /\ store[t] = << >>
    /\ work[t] # << >>
    /\ LET j == work[t][1]
           r == work[t][2]
           running == [r EXCEPT !.status = "running"]
       IN  \/ r.status = "assigned" /\ Put(t, j, running, <<j, running>>)
           \/ r.status = "running" /\ Put(t, j, [r EXCEPT !.status = "completed"], << >>)
           \/ /\ r.status = "running"
              /\ r.attempts < MaxAttempts
              /\ Put(t, j, [r EXCEPT !.status = "queued"], << >>)
           \/ /\ r.status = "assigned"
              /\ work' = [work EXCEPT ![t] = << >>]
              /\ UNCHANGED <<jobs, queue, store>>
    /\ UNCHANGED <<dead, rows, deadRows, loaded, restarts, ops>>

\* dead_letter makes two puts, the record before the dead letter.
DeadLetter(t) ==
    /\ store[t] = << >>
    /\ work[t] # << >>
    /\ LET j == work[t][1]
           r == work[t][2]
           letter == [r EXCEPT !.status = "dead_lettered"]
       IN  /\ r.status = "running"
           /\ r.attempts >= MaxAttempts
           /\ jobs' = [jobs EXCEPT ![j] = letter]
           /\ dead' = dead \cup {j}
           /\ store' = [store EXCEPT ![t] = << <<"runtime_jobs", j, letter>>,
                                               <<"runtime_dead_letters", j, letter>> >>]
           /\ work' = [work EXCEPT ![t] = << >>]
    /\ UNCHANGED <<queue, rows, deadRows, loaded, restarts, ops>>

\* store.put(table, key, record)
StorePut(t) ==
    /\ store[t] # << >>
    /\ LET put == Head(store[t])
       IN  IF put[1] = "runtime_jobs"
           THEN rows' = [rows EXCEPT ![put[2]] = put[3]] /\ UNCHANGED deadRows
           ELSE deadRows' = deadRows \cup {put[2]} /\ UNCHANGED rows
    /\ store' = [store EXCEPT ![t] = Tail(@)]
    /\ UNCHANGED <<jobs, queue, dead, work, loaded, restarts, ops>>

\* The process stops at any point; SQLiteJobQueue.__init__ loads the tables
\* into _jobs and _dead and starts with empty queues.
Restart ==
    /\ restarts < MaxRestarts
    /\ jobs' = rows
    /\ dead' = deadRows
    /\ queue' = << >>
    /\ store' = [t \in Threads |-> << >>]
    /\ work' = [t \in Threads |-> << >>]
    /\ loaded' = {j \in Jobs : rows[j].status = "queued"}
    /\ restarts' = restarts + 1
    /\ UNCHANGED <<rows, deadRows, ops>>

-----------------------------------------------------------------------------
Operate(t, j) ==
    /\ ops < MaxOps
    /\ ops' = ops + 1
    /\ Cancel(t, j) \/ Retry(t, j) \/ RequeueDeadLetter(t, j)

Dispatch(t) == Dequeue(t) \/ Execute(t) \/ DeadLetter(t)

SqliteNext ==
    \/ \E t \in Threads, j \in Jobs : Submit(t, j) \/ Operate(t, j)
    \/ \E t \in Threads : Dispatch(t) \/ StorePut(t)
    \/ Restart

SqliteSpec == SqliteInit /\ [][SqliteNext]_sqliteVars

-----------------------------------------------------------------------------
\* Only a restart strands a queued job: a record that says queued has its id in
\* the deque unless __init__ loaded it as queued, and a retry or a requeue of
\* that job brings it back.
OnlyRestartStrands ==
    \A j \in Jobs : jobs[j].status = "queued" => Contains(queue, j) \/ j \in loaded

\* A dead letter outlives restarts once its second put was made, and until then
\* the runtime_jobs row is at least as far as the letter: the table of dead
\* letters never names a job the process does not report as dead-lettered.
DeadLettersOutliveRestart ==
    /\ deadRows \subseteq dead
    /\ dead \ deadRows \subseteq {put[2] : put \in UNION {ToSet(store[t]) : t \in Threads}}

=============================================================================
