-------------------------- MODULE RuntimeSchedules --------------------------
(***************************************************************************)
(* Schedules and workers of the cloud runtime                              *)
(* (src/agentfabric/cloud/scheduler, worker_pool.py, the /runtime/schedules *)
(* and /runtime/workers routes).  trigger_due and mark_stale_workers list a *)
(* whole collection and then write records built from that list, so what   *)
(* another request stored in between is lost.  Steps are accesses to the   *)
(* document store and the submission of a job; time is a counter.          *)
(***************************************************************************)
EXTENDS Requests, FiniteSets, TLC

CONSTANTS
    Schedules,     \* schedule ids (uuid4)
    Every,         \* period of each recurring schedule; 0 for a one-time one
    Workers,       \* worker ids; a caller may register one again
    HeartbeatTimeout,
    MaxTime        \* bound: the clock

Never == -1        \* next_run_at is None

NoSchedule == [enabled |-> FALSE, next |-> Never, made |-> FALSE]

NoWorker == [status |-> "absent", last |-> 0]

VARIABLES
    time,
    schedule,    \* runtime_schedules
    fired,       \* history: jobs submitted for each schedule and due time
    worker,      \* runtime_workers
    beat,        \* history: when each worker last got an answer to a heartbeat
    excused      \* history: schedules and workers on which requests overlapped

schedState == <<time, schedule, fired, worker, beat, excused>>

schedVars == <<requestVars, schedState>>

SchedInit ==
    /\ time = 0
    /\ schedule = [s \in Schedules |-> NoSchedule]
    /\ fired = [s \in Schedules |-> [u \in 0..(MaxTime + 1) |-> 0]]
    /\ worker = [w \in Workers |-> NoWorker]
    /\ beat = [w \in Workers |-> -1]
    /\ excused = {}

-----------------------------------------------------------------------------
\* The schedules, and the workers, a request read and may still write.
InHand(t) ==
    IF call[t].op \in {"trigger", "sweep"} THEN DOMAIN call[t].copy ELSE {call[t].id}

Rest(t, x) == [y \in (DOMAIN call[t].copy) \ {x} |-> call[t].copy[y]]

\* A submission for x or a write of x: requests that hold an older x will write
\* over it.
Writes(t, x) ==
    excused' = IF \E u \in Others(t) : x \in InHand(u)
               THEN excused \cup {x} ELSE excused

\* CronParser.next_after for "every N unit"
next_after(s, now) == now + Every[s]

\* prepare_schedule: a one-time schedule keeps run_at, which may be None.
prepare_schedule(s, runAt) ==
    [enabled |-> TRUE, next |-> IF Every[s] > 0 THEN next_after(s, time) ELSE runAt, made |-> TRUE]

runtime_schedule_create(t, s, runAt) ==
    /\ At(t, "idle")
    /\ ~ schedule[s].made
    /\ schedule' = [schedule EXCEPT ![s] = prepare_schedule(s, runAt)]
    /\ UNCHANGED <<time, fired, worker, beat, requestVars, excused>>

\* set_enabled: a read, and a put of the whole record with the new flag
EnableRoute(t, s, flag) ==
    /\ schedule[s].made
    /\ Begin(t, [Idle EXCEPT !.op = IF flag THEN "enable" ELSE "disable", !.at = "flag",
                                         !.id = s, !.copy = schedule[s]])
    /\ UNCHANGED <<time, schedule, fired, worker, beat, excused>>

set_enabled(t) ==
    /\ At(t, "flag")
    /\ LET s == call[t].id
       IN  /\ schedule' = [schedule EXCEPT ![s] =
                             [call[t].copy EXCEPT !.enabled = call[t].op = "enable"]]
           /\ Writes(t, s)
    /\ Done(t)
    /\ UNCHANGED <<time, fired, worker, beat>>

-----------------------------------------------------------------------------
(* trigger_due *)

ListSchedules(t) ==
    /\ Begin(t, [Idle EXCEPT !.op = "trigger", !.at = "due", !.arg = time,
                        !.copy = [s \in {x \in Schedules : schedule[x].made} |-> schedule[s]]])
    /\ UNCHANGED <<time, schedule, fired, worker, beat, excused>>

Due(r, now) == r.enabled /\ r.next # Never /\ r.next <= now

\* The listed schedules are visited one after the other; one that is not due is
\* passed over.
Visit(t, s) ==
    /\ At(t, "due")
    /\ s \in DOMAIN call[t].copy
    /\ IF Due(call[t].copy[s], call[t].arg)
       THEN /\ fired' = [fired EXCEPT ![s][call[t].copy[s].next] = @ + 1]
            /\ Goto(t, [call[t] EXCEPT !.at = "put", !.id = s])
            /\ Writes(t, s)
       ELSE /\ Goto(t, [call[t] EXCEPT !.copy = Rest(t, s)])
            /\ UNCHANGED <<fired, excused>>
    /\ UNCHANGED <<time, schedule, worker, beat>>

\* Mutant of Rescheduled: a one-time schedule keeps its flag and its time.
RescheduledAlways(s, r, now) ==
    [r EXCEPT !.next = IF Every[s] > 0 THEN next_after(s, now) ELSE r.next]

Rescheduled(s, r, now) ==
    IF Every[s] > 0 THEN [r EXCEPT !.next = next_after(s, now)]
                    ELSE [r EXCEPT !.next = Never, !.enabled = FALSE]

PutTriggered(t) ==
    /\ At(t, "put")
    /\ LET s == call[t].id
       IN  /\ schedule' = [schedule EXCEPT ![s] =
                             Rescheduled(s, call[t].copy[s], call[t].arg)]
           /\ Goto(t, [call[t] EXCEPT !.at = "due", !.id = "none", !.copy = Rest(t, s)])
           /\ Writes(t, s)
    /\ UNCHANGED <<time, fired, worker, beat>>

TriggerReturns(t) ==
    /\ At(t, "due")
    /\ DOMAIN call[t].copy = {}
    /\ Done(t)
    /\ UNCHANGED <<time, schedule, fired, worker, beat, excused>>

-----------------------------------------------------------------------------
(* Workers *)

runtime_worker_register(t, w) ==
    /\ At(t, "idle")
    /\ worker' = [worker EXCEPT ![w] = [status |-> "registered", last |-> time]]
    /\ beat' = [beat EXCEPT ![w] = time]
    /\ Writes(t, w)
    /\ UNCHANGED <<time, schedule, fired, requestVars>>

\* WorkerPool.heartbeat writes the record it read with the time of the beat;
\* only status and time change, so the read and the put are one step.
heartbeat(t, w) ==
    /\ At(t, "idle")
    /\ worker[w].status # "absent"
    /\ worker' = [worker EXCEPT ![w] = [status |-> "healthy", last |-> time]]
    /\ beat' = [beat EXCEPT ![w] = time]
    /\ Writes(t, w)
    /\ UNCHANGED <<time, schedule, fired, requestVars>>

is_stale(r) == time - r.last > HeartbeatTimeout

ListWorkers(t) ==
    /\ Begin(t, [Idle EXCEPT !.op = "sweep", !.at = "sweep",
                        !.copy = [w \in {x \in Workers : worker[x].status # "absent"} |-> worker[w]]])
    /\ UNCHANGED <<time, schedule, fired, worker, beat, excused>>

\* A listed worker that is silent is stored as stale, with the time of the list.
mark_stale(t, w) ==
    /\ At(t, "sweep")
    /\ w \in DOMAIN call[t].copy
    /\ LET r == call[t].copy[w]
       IN  IF is_stale(r) /\ r.status # "stale"
           THEN worker' = [worker EXCEPT ![w] = [r EXCEPT !.status = "stale"]] /\ Writes(t, w)
           ELSE UNCHANGED <<worker, excused>>
    /\ Goto(t, [call[t] EXCEPT !.copy = Rest(t, w)])
    /\ UNCHANGED <<time, schedule, fired, beat>>

SweepReturns(t) ==
    /\ At(t, "sweep")
    /\ DOMAIN call[t].copy = {}
    /\ Done(t)
    /\ UNCHANGED <<time, schedule, fired, worker, beat, excused>>

-----------------------------------------------------------------------------
\* The process stops inside a request; a job that was submitted stays, and its
\* schedule is still due.
CrashSched(t) ==
    /\ ~ At(t, "idle")
    /\ Done(t)
    /\ excused' = IF At(t, "put") THEN excused \cup {call[t].id} ELSE excused
    /\ UNCHANGED <<time, schedule, fired, worker, beat>>

Tick ==
    /\ time < MaxTime
    /\ time' = time + 1
    /\ UNCHANGED <<schedule, fired, worker, beat, requestVars, excused>>

SchedNext ==
    \/ Tick
    \/ \E t \in Threads :
         \/ ListSchedules(t) \/ PutTriggered(t) \/ TriggerReturns(t) \/ set_enabled(t)
         \/ ListWorkers(t) \/ SweepReturns(t) \/ CrashSched(t)
         \/ \E s \in Schedules :
               \/ \E runAt \in {Never, 1} : runtime_schedule_create(t, s, runAt)
               \/ \E flag \in BOOLEAN : EnableRoute(t, s, flag)
               \/ Visit(t, s)
         \/ \E w \in Workers : runtime_worker_register(t, w) \/ heartbeat(t, w) \/ mark_stale(t, w)

SchedSpec == RequestsInit /\ SchedInit /\ [][SchedNext]_schedVars

-----------------------------------------------------------------------------
\* A due time is served once: two jobs for one run of a schedule need two
\* requests that overlapped on it, or a process that stopped between the
\* submission and the write; and a one-time schedule runs once, also when it is
\* enabled again afterwards.
ServedOnce ==
    \A s \in Schedules \ excused :
        /\ \A u \in DOMAIN fired[s] : fired[s][u] <= 1
        /\ Every[s] = 0 => \A u, v \in DOMAIN fired[s] : fired[s][u] > 0 /\ fired[s][v] > 0 => u = v

\* The stored heartbeat is the last one the worker got an answer to, unless a
\* sweep that had listed the worker wrote over it.
HeartbeatKept == \A w \in Workers \ excused : worker[w].status # "absent" => worker[w].last = beat[w]

\* A worker is called stale only when it was silent for longer than the timeout.
StaleWasSilent ==
    \A w \in Workers \ excused : worker[w].status = "stale" => time - beat[w] > HeartbeatTimeout

\* What the pool says of a worker is what the worker last did: its heartbeat is
\* kept and silence alone makes it stale, except where a stale list was written back.
WorkersAsTheyBeat == HeartbeatKept /\ StaleWasSilent

\* A due time is served once, by workers that are what they last did.
SchedulesAgree == ServedOnce /\ WorkersAsTheyBeat
=============================================================================
