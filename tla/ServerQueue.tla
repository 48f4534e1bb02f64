----------------------------- MODULE ServerQueue -----------------------------
(***************************************************************************)
(* The job queue of the server (src/agentfabric/server/queue.py, worker.py, *)
(* QueueService in services.py and the /queue routes).  A message lives in *)
(* two systems: a list in Redis, which changes at once, and a row in the   *)
(* database, which changes when the session commits.  A route commits at   *)
(* its end; the worker's session is closed without a commit, so nothing it *)
(* writes to a row is ever seen.                                           *)
(***************************************************************************)
EXTENDS Requests, Sequences, FiniteSets

CONSTANTS
    QueueJobs,      \* payloads, each enqueued once by a client
    MaxTries,       \* settings.queue_max_attempts
    MaxMessages     \* bound: message ids (uuid4) handed out

VARIABLES
    backend,      \* the lists: "main" and "dlq"
    rows,         \* committed queue_messages: status of each message id
    issued,       \* message ids handed out
    ended,        \* jobs whose handler returned, or that a client took
    dropped,      \* history: jobs that were in the hands of a thread that died
    unseen        \* history: messages taken when no row was committed, by the worker, or dropped

queueState == <<backend, rows, issued, ended, dropped, unseen>>

queueVars == <<requestVars, queueState>>

QueueInit ==
    /\ backend = [q \in {"main", "dlq"} |-> <<>>]
    /\ rows = [m \in 1..MaxMessages |-> "none"]
    /\ issued = 0
    /\ ended = {}
    /\ dropped = {}
    /\ unseen = {}

\* RedisQueueBackend.enqueue: a new message id at the tail
Push(q, job, tries) ==
    /\ issued < MaxMessages
    /\ issued' = issued + 1
    /\ backend' = [backend EXCEPT ![q] = Append(@, [msg |-> issued + 1, job |-> job, tries |-> tries])]

Pop(q) ==
    /\ backend[q] # <<>>
    /\ backend' = [backend EXCEPT ![q] = Tail(@)]

Copies(q) == {backend[q][i] : i \in 1..Len(backend[q])}

Held(t) == call[t].op \in {"take", "work"}

Known(job) ==
    \/ \E q \in DOMAIN backend : \E x \in Copies(q) : x.job = job
    \/ \E t \in Threads : Held(t) /\ call[t].copy.job = job
    \/ job \in ended \cup dropped

-----------------------------------------------------------------------------
\* QueueService.enqueue: the message is in the list before its row is written.
enqueue_job(t, job) ==
    /\ ~ Known(job)
    /\ Push("main", job, 0)
    /\ Begin(t, [Idle EXCEPT !.op = "enqueue", !.at = "record", !.id = issued + 1])
    /\ UNCHANGED <<rows, ended, dropped, unseen>>

\* record_enqueue, seen by others when get_db commits
record_enqueue(t) ==
    /\ At(t, "record")
    /\ rows' = [rows EXCEPT ![call[t].id] = "queued"]
    /\ Done(t)
    /\ UNCHANGED <<backend, issued, ended, dropped, unseen>>

Visible(m) == rows[m] # "none"

\* QueueService.dequeue: the pop, then mark_processing on the row, if it is there
Take(t, q, op) ==
    /\ Pop(q)
    /\ LET x == Head(backend[q])
       IN  /\ Begin(t, [op |-> op, at |-> op, id |-> x.msg, copy |-> x, arg |-> Visible(x.msg)])
           /\ unseen' = IF op = "work" \/ ~ Visible(x.msg) THEN unseen \cup {x.msg} ELSE unseen
    /\ UNCHANGED <<rows, issued, ended, dropped>>

\* The route takes from any queue and acknowledges at once; commit.
dequeue_job(t) ==
    /\ At(t, "take")
    /\ rows' = IF call[t].arg THEN [rows EXCEPT ![call[t].id] = "done"] ELSE rows
    /\ ended' = ended \cup {call[t].copy.job}
    /\ Done(t)
    /\ UNCHANGED <<backend, issued, dropped, unseen>>

-----------------------------------------------------------------------------
\* The handler returns: ack_success writes a row that is not committed.
ack_success(t) ==
    /\ At(t, "work")
    /\ ended' = ended \cup {call[t].copy.job}
    /\ Done(t)
    /\ UNCHANGED <<backend, rows, issued, dropped, unseen>>


\* The handler raises: the payload is pushed again, with its count, as a new
\* message; after the last attempt to the dead letter queue.
ack_failure(t) ==
    /\ At(t, "work")
    /\ LET tries == call[t].copy.tries + 1
       IN  Push(IF tries < MaxTries THEN "main" ELSE "dlq", call[t].copy.job, tries)
    /\ Done(t)
    /\ UNCHANGED <<rows, ended, dropped, unseen>>

\* A thread or the worker dies, or its session rolls back: what it holds is gone.
CrashQueue(t) ==
    /\ ~ At(t, "idle")
    /\ Done(t)
    /\ dropped' = IF Held(t) THEN dropped \cup {call[t].copy.job} ELSE dropped
    /\ unseen' = IF Held(t) THEN unseen \cup {call[t].id} ELSE unseen
    /\ UNCHANGED <<backend, rows, issued, ended>>

QueueNext ==
    \E t \in Threads :
        \/ \E job \in QueueJobs : enqueue_job(t, job)
        \/ \E q \in {"main", "dlq"} : Take(t, q, "take")
        \/ Take(t, "main", "work")
        \/ record_enqueue(t) \/ dequeue_job(t) \/ ack_success(t) \/ ack_failure(t)
        \/ CrashQueue(t)

QueueSpec == RequestsInit /\ QueueInit /\ [][QueueNext]_queueVars

-----------------------------------------------------------------------------
\* A job is in one place at a time: in one list, in the hands of one thread, at
\* its end, or gone with a thread that died; a list of live jobs has none that
\* used up its attempts and the dead letters have no other.
Places(job) ==
    Cardinality({x \in Copies("main") \cup Copies("dlq") : x.job = job})
    + Cardinality({t \in Threads : Held(t) /\ call[t].copy.job = job})
    + Cardinality({job} \cap ended) + Cardinality({job} \cap dropped)

OnePlace ==
    /\ \A job \in QueueJobs : Places(job) <= 1
    /\ \A x \in Copies("main") : x.tries < MaxTries
    /\ \A x \in Copies("dlq") : x.tries = MaxTries

\* A row that says queued has its message in a list, or held by a route that is
\* about to commit; the exceptions are messages the worker took, which commits
\* nothing, messages taken before their row was committed and messages dropped.
QueuedRowsAreWaiting ==
    \A m \in {k \in 1..MaxMessages : rows[k] = "queued"} \ unseen :
        \/ \E q \in DOMAIN backend : \E x \in Copies(q) : x.msg = m
        \/ \E t \in Threads : Held(t) /\ call[t].id = m

=============================================================================
