--------------------------- MODULE RenovationSite ---------------------------
(***************************************************************************)
(* One renovation job with a change order and a schedule, and the replay   *)
(* check of each: the service rebuilds a document from the stored request  *)
(* and the stored evidence (last update, approvals, recalculations) and    *)
(* compares it with the stored artifact.  Requests run in threads of the   *)
(* server; each get, list and put of the document store is one step.       *)
(* The job is reduced to its status and the status of its first phase, the *)
(* schedule to that phase and the days by which it slips, and the site to  *)
(* what a recalculation reads: days a material delivery is late and crew   *)
(* conflicts of the phase.                                                 *)
(***************************************************************************)
EXTENDS Requests, Sequences, FiniteSets

CONSTANTS
    Statuses,    \* job and phase statuses an update may set
    LateDays     \* days a delivery may be late

ASSUME SiteAssumption ==
    /\ "active" \in Statuses
    /\ LateDays \subseteq Nat

VARIABLES
    doc,        \* stored job, order and schedule
    approvals,  \* renovation_change_order_approvals of the order
    evidence,   \* renovation_schedule_recalculations, by revision
    late,       \* days the delivery of the phase is late
    conflicts,  \* crew conflicts of the phase
    drawnFrom,  \* history: phase status the schedule was created from
    excuse      \* history: what may falsify the replay of a document

siteState == <<doc, approvals, evidence, late, conflicts, drawnFrom, excuse>>

siteVars == <<requestVars, siteState>>

Docs == {"job", "order", "schedule"}
Absent == [none |-> TRUE]
Keep == "keep"

(* JobService.create and update: a status the payload leaves out is kept. *)
NewJob == [status |-> "active", phase |-> "active"]

update(j, u) == [status |-> u.status, phase |-> IF u.phase = Keep THEN j.phase ELSE u.phase]

Updates == [status : Statuses, phase : Statuses \cup {Keep}]

(* ChangeOrderService: an order is created as draft or sent. *)
Decisions == {"approved", "rejected"}

NewOrder(s) == [input |-> s, status |-> s, history |-> <<>>]

decide(o, d) == [o EXCEPT !.status = d, !.history = Append(@, d)]

(* SchedulingService.create and recalculate. *)
NewSchedule(j) == [revision |-> 1, phase |-> j.phase, status |-> "planned", days |-> 0]

recalculate(s, w) ==
    LET slip == w.late + w.conflicts
    IN  [revision |-> s.revision + 1,
         phase    |-> IF slip > 0 THEN "blocked" ELSE s.phase,
         status   |-> IF slip > 0 THEN "delayed" ELSE s.status,
         days     |-> slip]

SiteInit ==
    /\ doc = [d \in Docs |->
                IF d = "job" THEN [art |-> NewJob, last |-> Absent] ELSE Absent]
    /\ approvals = {}
    /\ evidence = <<>>
    /\ late = 0
    /\ conflicts = 0
    /\ drawnFrom = "active"
    /\ excuse = [d \in Docs |-> {}]

-----------------------------------------------------------------------------

(* A request on document d that read v, with what else it holds in w. *)
On(d, place, v, w) == [op |-> "site", at |-> place, id |-> d, copy |-> v, arg |-> w]

Held == {"update", "decide", "crews", "deliveries", "recalculate", "restore"}

Holding(d) == {t \in Threads : call[t].op = "site" /\ call[t].at \in Held /\ call[t].id = d}

(* Thread t stores v as document d; a thread that already read d missed it. *)
Write(t, d, v, e) ==
    /\ doc' = [doc EXCEPT ![d] = v]
    /\ excuse' = [excuse EXCEPT ![d] =
                    @ \cup e \cup (IF Holding(d) \ {t} # {} THEN {"overlap"} ELSE {})]

(* create_job with the accepted proposal of the job: the same identifier. *)
CreateJob(t) ==
    /\ Begin(t, On("job", "reread", Absent, Absent))
    /\ Write(t, "job", [art |-> NewJob, last |-> Absent], {})
    /\ UNCHANGED <<approvals, evidence, late, conflicts, drawnFrom>>

UpdateBegin(t, u) ==
    /\ Begin(t, On("job", "update", update(doc["job"].art, u), u))
    /\ UNCHANGED siteState

(* What an update leaves out, an earlier one may have set: only the last     *)
(* update is stored.                                                         *)
Forgets(u, new) == u.phase = Keep /\ new.phase # NewJob.phase

UpdatePut(t) ==
    /\ At(t, "update")
    /\ Write(t, "job", [art |-> call[t].copy, last |-> call[t].arg],
             IF Forgets(call[t].arg, call[t].copy) THEN {"forgotten"} ELSE {})
    /\ Step(t, "reread")
    /\ UNCHANGED <<approvals, evidence, late, conflicts, drawnFrom>>

(* _record_for: the record is read and put back with its timestamps. *)
Reread(t) ==
    /\ At(t, "reread")
    /\ Goto(t, On(call[t].id, "restore", doc[call[t].id], Absent))
    /\ UNCHANGED siteState

Restore(t) ==
    /\ At(t, "restore")
    /\ Write(t, call[t].id, call[t].copy, {})
    /\ Done(t)
    /\ UNCHANGED <<approvals, evidence, late, conflicts, drawnFrom>>

-----------------------------------------------------------------------------

(* create_change_order: the identifier does not depend on the status, so a   *)
(* draft is sent by creating it again, and so is a decided order.            *)
CreateOrder(t, s) ==
    /\ Begin(t, Idle)
    /\ Write(t, "order", NewOrder(s),
             IF doc["order"] # Absent /\ (doc["order"].status \in Decisions \/ approvals # {})
             THEN {"remade"} ELSE {})
    /\ UNCHANGED <<approvals, evidence, late, conflicts, drawnFrom>>

(* Mutant of DecideBegin: the order need not be sent. *)
DecideAny(t, d) ==
    /\ doc["order"] # Absent
    /\ Begin(t, On("order", "decide", decide(doc["order"], d), d))
    /\ UNCHANGED siteState

DecideBegin(t, d) ==
    /\ doc["order"] # Absent
    /\ doc["order"].status = "sent"
    /\ Begin(t, On("order", "decide", decide(doc["order"], d), d))
    /\ UNCHANGED siteState

(* The record is read again, so its input is current and its artifact is not. *)
DecidePut(t) ==
    /\ At(t, "decide")
    /\ Write(t, "order", [call[t].copy EXCEPT !.input = doc["order"].input], {})
    /\ Step(t, "approval")
    /\ UNCHANGED <<approvals, evidence, late, conflicts, drawnFrom>>

DecideApproval(t) ==
    /\ At(t, "approval")
    /\ approvals' = approvals \cup {call[t].arg}
    /\ Done(t)
    /\ UNCHANGED <<doc, evidence, late, conflicts, drawnFrom, excuse>>

-----------------------------------------------------------------------------

(* create_schedule reads the job, draws the schedule and stores it. *)
ScheduleBegin(t) ==
    /\ Begin(t, On("schedule", "create", NewSchedule(doc["job"].art), Absent))
    /\ UNCHANGED siteState

Recalculated == doc["schedule"] # Absent /\ (doc["schedule"].revision > 1 \/ evidence # <<>>)

SchedulePut(t) ==
    /\ At(t, "create")
    /\ drawnFrom' = call[t].copy.phase
    /\ Write(t, "schedule", call[t].copy, IF Recalculated THEN {"remade"} ELSE {})
    /\ Done(t) \/ Step(t, "reread")
    /\ UNCHANGED <<approvals, evidence, late, conflicts>>

RecalculateBegin(t) ==
    /\ doc["schedule"] # Absent
    /\ Begin(t, On("schedule", "crews", doc["schedule"], Absent))
    /\ UNCHANGED siteState

ListCrews(t) ==
    /\ At(t, "crews")
    /\ Goto(t, [call[t] EXCEPT !.at = "deliveries", !.arg = conflicts])
    /\ UNCHANGED siteState

ListDeliveries(t) ==
    /\ At(t, "deliveries")
    /\ Goto(t, [call[t] EXCEPT !.at = "recalculate",
                               !.arg = [late |-> late, conflicts |-> call[t].arg]])
    /\ UNCHANGED siteState

RecalculatePut(t) ==
    /\ At(t, "recalculate")
    /\ Write(t, "schedule", recalculate(call[t].copy, call[t].arg), {})
    /\ Step(t, "evidence")
    /\ UNCHANGED <<approvals, evidence, late, conflicts, drawnFrom>>

(* The evidence of a recalculation is stored under its revision. *)
StoreEvidence(t, w) ==
    /\ At(t, "evidence")
    /\ LET revision == call[t].copy.revision + 1
       IN  evidence' = [r \in DOMAIN evidence \cup {revision} |->
                          IF r = revision THEN w ELSE evidence[r]]
    /\ Done(t)
    /\ UNCHANGED <<doc, approvals, late, conflicts, drawnFrom, excuse>>


EvidencePut(t) == StoreEvidence(t, call[t].arg)

(* Deliveries are created again or updated, crews assigned or unassigned. *)
DeliveryPut(t, n) ==
    /\ Begin(t, Idle)
    /\ doc["schedule"] # Absent
    /\ late' = n
    /\ UNCHANGED <<doc, approvals, evidence, conflicts, drawnFrom, excuse>>

CrewPut(t, n) ==
    /\ Begin(t, Idle)
    /\ doc["schedule"] # Absent
    /\ conflicts' = n
    /\ UNCHANGED <<doc, approvals, evidence, late, drawnFrom, excuse>>

(* The request dies: an append or a put raises, or the process stops. *)
DieOnSite(t) ==
    /\ call[t].op = "site"
    /\ excuse' = [excuse EXCEPT ![call[t].id] =
                    @ \cup (IF call[t].at \in {"approval", "evidence"} THEN {"died"} ELSE {})]
    /\ Done(t)
    /\ UNCHANGED <<doc, approvals, evidence, late, conflicts, drawnFrom>>

OrderNext(t) ==
    \/ \E s \in {"draft", "sent"} : CreateOrder(t, s)
    \/ \E d \in Decisions : DecideBegin(t, d)
    \/ DecidePut(t)
    \/ DecideApproval(t)

job_routes(t) == CreateJob(t) \/ \E u \in Updates : UpdateBegin(t, u)

schedule_routes(t) ==
    \/ ScheduleBegin(t)
    \/ RecalculateBegin(t)
    \/ \E n \in LateDays : DeliveryPut(t, n)
    \/ \E n \in {0, 1} : CrewPut(t, n)

SiteNext ==
    \E t \in Threads :
        \/ job_routes(t)
        \/ UpdatePut(t)
        \/ Reread(t)
        \/ Restore(t)
        \/ OrderNext(t)
        \/ schedule_routes(t)
        \/ SchedulePut(t)
        \/ ListCrews(t)
        \/ ListDeliveries(t)
        \/ RecalculatePut(t)
        \/ EvidencePut(t)
        \/ DieOnSite(t)

SiteSpec == RequestsInit /\ SiteInit /\ [][SiteNext]_siteVars

-----------------------------------------------------------------------------

(* replay_job: the job is created again and its last update applied. *)
replay_job ==
    IF doc["job"].last = Absent THEN NewJob ELSE update(NewJob, doc["job"].last)

(* replay_change_order: every stored approval is decided again, in the order *)
(* of its identifier; a second one finds the order decided and raises.       *)
replay_change_order ==
    CASE approvals = {} -> NewOrder(doc["order"].input)
      [] Cardinality(approvals) = 1 /\ doc["order"].input = "sent" ->
            decide(NewOrder("sent"), CHOOSE d \in approvals : TRUE)
      [] OTHER -> Absent

(* replay_schedule: drawn from the job as it is now, then recalculated with  *)
(* the stored evidence in the order of its revisions.                        *)
replay_schedule ==
    LET top == MaxRequests + 1
        step[n \in 1 .. top] ==
          IF n = 1 THEN NewSchedule(doc["job"].art)
          ELSE IF n \in DOMAIN evidence THEN recalculate(step[n - 1], evidence[n])
               ELSE step[n - 1]
    IN  step[top]

Settled(d) ==
    \A t \in Threads :
        call[t].op # "site" \/ call[t].at \notin {"approval", "evidence"} \/ call[t].id # d

(* Replaying a job reproduces the stored job, unless requests overlapped on  *)
(* it or an update left out a phase that an earlier update had changed: only *)
(* the last update of a job is kept.                                         *)
JobReplays == excuse["job"] = {} => replay_job = doc["job"].art

(* Replaying a change order reproduces it once its decision is stored,       *)
(* unless decisions overlapped, a decided order was created again, or the    *)
(* request died between the order and its approval.                          *)
OrderReplays ==
    Settled("order") /\ excuse["order"] = {} /\ doc["order"] # Absent =>
        replay_change_order = doc["order"]

(* A decision on a change order stands: an approved or rejected order only   *)
(* changes when it is created again or decided by overlapping requests.      *)
DecisionStands ==
    [][doc["order"] # Absent /\ doc["order"].status \in Decisions
           /\ doc'["order"].status # doc["order"].status
           => excuse'["order"] \cap {"overlap", "remade"} # {}]_siteVars

(* Replaying a schedule reproduces it once its evidence is stored: although  *)
(* crews and deliveries change while a recalculation reads them, the         *)
(* evidence is what it read.  Exceptions are overlapping recalculations, a   *)
(* schedule created again, a request that died before storing evidence, and  *)
(* a job whose phase has changed since the schedule was drawn.               *)
ScheduleReplays ==
    /\ Settled("schedule")
    /\ excuse["schedule"] = {}
    /\ doc["schedule"] # Absent
    /\ drawnFrom = doc["job"].art.phase
    => replay_schedule = doc["schedule"]

(* A schedule that slips, or is blocked or delayed, has evidence of a late   *)
(* delivery or of a crew conflict, under the same exceptions.                *)
DelayExplained ==
    /\ Settled("schedule")
    /\ excuse["schedule"] = {}
    /\ doc["schedule"] # Absent
    /\ doc["schedule"].phase = "blocked" \/ doc["schedule"].status = "delayed"
    => \E r \in DOMAIN evidence :
          r <= doc["schedule"].revision /\ evidence[r].late + evidence[r].conflicts > 0

=============================================================================
