---------------------------- MODULE RenovationMvp ----------------------------
(***************************************************************************)
(* One run of the end-to-end renovation workflow (RenovationMvpWorkflow in *)
(* src/agentfabric/verticals/renovation/mvp.py, and its routes).  A        *)
(* request executes the steps in order on its own copy of the run and puts *)
(* the whole copy before and after each step, so a run can be resumed      *)
(* after a failure or a crash; nothing keeps a second request from         *)
(* resuming, replaying or creating a run that is being executed.           *)
(***************************************************************************)
EXTENDS Requests, FiniteSets

VARIABLES
    run,      \* renovation_mvp_runs: the run with its idempotency key
    indexed,  \* renovation_mvp_idempotency has the key
    made,     \* steps whose records exist
    paid,     \* payments on the invoice of the run
    mvpPast   \* history: "overlap" and "remade"

mvpState == <<run, indexed, made, paid, mvpPast>>

mvpVars == <<requestVars, mvpState>>

WORKFLOW_STEPS == <<"lead", "estimate", "proposal", "job", "schedule",
                    "cost_profitability", "invoice_payment", "portal_status">>

Steps == 1..8
Invoice == 7
NoRun == [none |-> TRUE]

NewRun == [status |-> "running", steps |-> [s \in Steps |-> "pending"]]

MvpInit ==
    /\ run = NoRun
    /\ indexed = FALSE
    /\ made = {}
    /\ paid = 0
    /\ mvpPast = {}

Mvp(place, r) == [op |-> "mvp", at |-> place, id |-> "none", copy |-> r, arg |-> "none"]

InMvp(t, place) == call[t].op = "mvp" /\ At(t, place)

\* _put: the whole run, from the request's copy
_put(t, r) ==
    /\ run' = r
    /\ mvpPast' = mvpPast \cup (IF \E u \in Others(t) : call[u].op = "mvp" THEN {"overlap"} ELSE {})
                          \cup (IF r = NewRun /\ run # NoRun THEN {"remade"} ELSE {})

\* create_run with an idempotency key, and with a run_id of the caller's
create_run(t) ==
    /\ ~ indexed
    /\ Begin(t, Mvp("create", NewRun))
    /\ UNCHANGED mvpState

create_named_run(t) ==
    /\ Begin(t, Mvp("execute", NewRun))
    /\ _put(t, NewRun)
    /\ UNCHANGED <<indexed, made, paid>>

put_run(t) ==
    /\ InMvp(t, "create")
    /\ _put(t, NewRun)
    /\ Step(t, "index")
    /\ UNCHANGED <<indexed, made, paid>>

put_index(t) ==
    /\ InMvp(t, "index")
    /\ indexed' = TRUE
    /\ Step(t, "execute")
    /\ UNCHANGED <<run, made, paid, mvpPast>>

replay_run(t) ==
    /\ run # NoRun
    /\ Begin(t, Mvp("replay", run))
    /\ UNCHANGED mvpState

put_replay(t) ==
    /\ InMvp(t, "replay")
    /\ _put(t, call[t].copy)
    /\ Done(t)
    /\ UNCHANGED <<indexed, made, paid>>

\* Mutant of Resumed: a step left running counts as done.
ResumedAsDone(r) ==
    [status |-> "running",
     steps  |-> [s \in Steps |-> CASE r.steps[s] = "failed" -> "pending"
                                   [] r.steps[s] = "running" -> "completed"
                                   [] OTHER -> r.steps[s]]]

\* resume_run: a failed step is pending again; one that was running stays so.
Resumed(r) ==
    [status |-> "running",
     steps  |-> [s \in Steps |-> IF r.steps[s] = "failed" THEN "pending" ELSE r.steps[s]]]

resume_run(t) ==
    /\ run # NoRun
    /\ run.status # "completed"
    /\ Begin(t, Mvp("resume", Resumed(run)))
    /\ UNCHANGED mvpState

put_resumed(t) ==
    /\ InMvp(t, "resume")
    /\ _put(t, call[t].copy)
    /\ Step(t, "execute")
    /\ UNCHANGED <<indexed, made, paid>>

-----------------------------------------------------------------------------
\* _execute

Open(r) == {s \in Steps : r.steps[s] # "completed"}
Current(r) == CHOOSE s \in Open(r) : \A u \in Open(r) : s <= u

\* The request puts its copy changed to r and goes on to the place.
PutAndGo(t, r, place) ==
    /\ _put(t, r)
    /\ Goto(t, Mvp(place, r))

Marked(r, s, status) == [r EXCEPT !.steps[s] = status]

start_step(t) ==
    /\ InMvp(t, "execute")
    /\ Open(call[t].copy) # {}
    /\ PutAndGo(t, Marked(call[t].copy, Current(call[t].copy), "running"), "work")
    /\ UNCHANGED <<indexed, made, paid>>

\* The step handlers: records have the same identifiers when a step is done
\* again.  The invoice is created anew, unpaid, before it is paid.
step_handler(t) ==
    /\ InMvp(t, "work")
    /\ LET s == Current(call[t].copy)
       IN  /\ made' = made \cup {s}
           /\ paid' = IF s = Invoice THEN 0 ELSE paid
           /\ Step(t, IF s = Invoice THEN "pay" ELSE "done")
    /\ UNCHANGED <<run, indexed, mvpPast>>

pay_invoice_step(t) ==
    /\ InMvp(t, "pay")
    /\ paid' = paid + 1
    /\ Step(t, "done")
    /\ UNCHANGED <<run, indexed, made, mvpPast>>

finish_step(t) ==
    /\ InMvp(t, "done")
    /\ PutAndGo(t, Marked(call[t].copy, Current(call[t].copy), "completed"), "execute")
    /\ UNCHANGED <<indexed, made, paid>>

\* A handler raises: the step and the run are failed.
fail_step(t) ==
    /\ call[t].op = "mvp" /\ call[t].at \in {"work", "pay"}
    /\ _put(t, [Marked(call[t].copy, Current(call[t].copy), "failed") EXCEPT !.status = "failed"])
    /\ Done(t)
    /\ UNCHANGED <<indexed, made, paid>>

complete_run(t) ==
    /\ InMvp(t, "execute")
    /\ Open(call[t].copy) = {}
    /\ _put(t, [call[t].copy EXCEPT !.status = "completed"])
    /\ Done(t)
    /\ UNCHANGED <<indexed, made, paid>>

DieInMvp(t) ==
    /\ call[t].op = "mvp"
    /\ Done(t)
    /\ UNCHANGED mvpState

mvp_routes(t) == create_run(t) \/ create_named_run(t) \/ replay_run(t) \/ resume_run(t)

MvpNext ==
    \E t \in Threads :
        \/ mvp_routes(t)
        \/ put_run(t) \/ put_index(t) \/ put_replay(t) \/ put_resumed(t)
        \/ start_step(t) \/ step_handler(t) \/ pay_invoice_step(t)
        \/ finish_step(t) \/ fail_step(t) \/ complete_run(t)
        \/ DieInMvp(t)

MvpSpec == RequestsInit /\ MvpInit /\ [][MvpNext]_mvpVars

-----------------------------------------------------------------------------
\* A completed run has done its work: every step is completed and has made its
\* records, also when requests overlapped, and the invoice has been paid exactly
\* once, however often a step failed or its request died and the run was
\* resumed, unless two requests on the run overlapped.
CompletedRunIsDone ==
    run # NoRun /\ run.status = "completed" =>
        /\ \A s \in Steps : run.steps[s] = "completed"
        /\ made = Steps
        /\ mvpPast = {} => paid = 1

=============================================================================
