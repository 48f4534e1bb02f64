------------------------------- MODULE Tenancy -------------------------------
(***************************************************************************)
(* A tenant of the platform: its creation, billing plan and quota policy   *)
(* (src/agentfabric/enterprise, the /tenants routes), the counters its     *)
(* requests consume (src/agentfabric/quotas), and what the creation of a   *)
(* runtime job records for it (metering, economics, /runtime/jobs).        *)
(*                                                                         *)
(* Tenant, policy, usage and cost are documents of the store.  The quota   *)
(* counters are a dictionary in memory that no lock protects: consume      *)
(* compares a counter with the limit, and adds to it afterwards by another *)
(* read and a write.  They are gone after a restart.                       *)
(***************************************************************************)
EXTENDS Requests, FiniteSets

CONSTANTS
    PlanLimits,   \* BILLING_PLANS: the limit of the counter under each plan
    PolicyLimits, \* limits a quota policy may set
    SpendLimit,   \* tenant_spend_limit, in units of the cost of one job
    RuntimeJobs   \* job ids (uuid4)

VARIABLES
    tenant,      \* tenants: the plan, or "none"
    owner,       \* memberships: the tenant has an owner
    subscribed,  \* revenue_events: subscriptions recorded
    policy,      \* quota_policies: the limit stored, 0 when there is none
    used,        \* QuotaUsage.counters
    runtimeJob,  \* what is stored of each job: queue, usage, cost, result
    granted,     \* history: consumptions that succeeded since the start
    crossings,   \* history: writes of the counter that another consume had not seen
    highest,     \* history: the highest limit in force since the start
    broken       \* history: what was cut short or done twice

tenantStore == <<tenant, owner, subscribed, policy>>

quotaState == <<used, granted, crossings, highest>>

tenantState == <<tenantStore, runtimeJob, quotaState, broken>>

tenantVars == <<requestVars, tenantState>>

\* BILLING_PLANS
get_billing_plan(plan) == PlanLimits[plan]

NoJobYet == [made |-> FALSE, now |-> FALSE, usage |-> 0, cost |-> 0, ran |-> FALSE]

TenantInit ==
    /\ tenant = "none"
    /\ owner = FALSE
    /\ subscribed = 0
    /\ policy = 0
    /\ used = 0
    /\ runtimeJob = [j \in RuntimeJobs |-> NoJobYet]
    /\ granted = 0
    /\ crossings = 0
    /\ highest = get_billing_plan("dev")
    /\ broken = {}

-----------------------------------------------------------------------------
(* Creation of the tenant: document, membership, revenue.                   *)

\* create_tenant looks for the tenant before it writes it.
tenants_create(t, plan, serviceAccount) ==
    /\ tenant = "none"
    /\ Begin(t, [Idle EXCEPT !.op = "create", !.at = "putTenant", !.copy = plan, !.arg = serviceAccount])
    /\ UNCHANGED tenantState

higher(limit) == IF limit > highest THEN limit ELSE highest

create_tenant(t) ==
    /\ At(t, "putTenant")
    /\ tenant' = call[t].copy
    /\ highest' = IF policy = 0 THEN higher(get_billing_plan(call[t].copy)) ELSE highest
    /\ broken' = IF tenant # "none" THEN broken \cup {"tenant"} ELSE broken
    /\ Step(t, "owner")
    /\ UNCHANGED <<owner, subscribed, policy, used, runtimeJob, granted, crossings>>

\* MembershipService.add refuses an owner that a service account adds; the
\* tenant is stored by then.
add_owner(t) ==
    /\ At(t, "owner")
    /\ IF call[t].arg
       THEN Done(t) /\ broken' = broken \cup {"tenant"} /\ UNCHANGED owner
       ELSE Step(t, "subscribe") /\ owner' = TRUE /\ UNCHANGED broken
    /\ UNCHANGED <<tenant, subscribed, policy, runtimeJob, quotaState>>

record_subscription(t) ==
    /\ At(t, "subscribe")
    /\ subscribed' = subscribed + 1
    /\ Done(t)
    /\ UNCHANGED <<tenant, owner, policy, runtimeJob, quotaState, broken>>

-----------------------------------------------------------------------------
(* Limits. *)

\* A stored policy hides the plan.
tenant_policy ==
    IF policy > 0 THEN policy ELSE get_billing_plan(IF tenant = "none" THEN "dev" ELSE tenant)

\* A plan the current usage does not fit is refused.
tenant_billing_update(t, plan) ==
    /\ tenant # "none"
    /\ used <= get_billing_plan(plan)
    /\ Begin(t, [Idle EXCEPT !.op = "plan", !.at = "putPlan", !.copy = plan])
    /\ UNCHANGED tenantState

update_billing_plan(t) ==
    /\ At(t, "putPlan")
    /\ tenant' = call[t].copy
    /\ highest' = IF policy = 0 THEN higher(get_billing_plan(call[t].copy)) ELSE highest
    /\ Done(t)
    /\ UNCHANGED <<owner, subscribed, policy, used, runtimeJob, granted, crossings, broken>>

tenant_quotas_update(t, limit) ==
    /\ OneStep(t)
    /\ policy' = limit
    /\ highest' = higher(limit)
    /\ UNCHANGED <<tenant, owner, subscribed, used, runtimeJob, granted, crossings, broken>>

-----------------------------------------------------------------------------
(* limit_enforcer.consume, at the head of runtime_job_create.               *)

ReadPolicy(t, j, now) ==
    /\ ~ runtimeJob[j].made
    /\ \A u \in Threads : call[u].op = "job" => call[u].id # j
    /\ Begin(t, [op |-> "job", at |-> "check", id |-> j, copy |-> tenant_policy, arg |-> now])
    /\ UNCHANGED tenantState

\* Mutant of check: the amount is not added before the comparison.
CheckLate(t) ==
    /\ At(t, "check")
    /\ IF used > call[t].copy THEN Done(t) ELSE Step(t, "readCounter")
    /\ UNCHANGED tenantState

check(t) ==
    /\ At(t, "check")
    /\ IF used + 1 > call[t].copy THEN Done(t) ELSE Step(t, "readCounter")
    /\ UNCHANGED tenantState

\* QuotaUsage.increment: the counter is read and written in two steps.
ReadCounter(t) ==
    /\ At(t, "readCounter")
    /\ Goto(t, [call[t] EXCEPT !.at = "writeCounter", !.copy = used])
    /\ UNCHANGED tenantState

increment(t) ==
    /\ At(t, "writeCounter")
    /\ used' = call[t].copy + 1
    /\ granted' = granted + 1
    /\ crossings' = crossings
         + Cardinality({u \in Others(t) : call[u].at \in {"readCounter", "writeCounter"}})
    /\ Step(t, "submit")
    /\ UNCHANGED <<tenantStore, runtimeJob, highest, broken>>

-----------------------------------------------------------------------------
(* The job, its usage and its cost. *)

costs == Cardinality({j \in RuntimeJobs : runtimeJob[j].cost > 0})

submit(t) ==
    /\ At(t, "submit")
    /\ runtimeJob' = [runtimeJob EXCEPT ![call[t].id].made = TRUE, ![call[t].id].now = call[t].arg]
    /\ Step(t, IF call[t].arg THEN "dispatch" ELSE "meter")
    /\ UNCHANGED <<tenantStore, quotaState, broken>>

\* CostTracker.enforce: what is recorded and the projected cost of this job
spend_check == costs + 1 <= SpendLimit

Queued == {j \in RuntimeJobs : runtimeJob[j].made /\ ~ runtimeJob[j].ran}

\* dispatch_now takes a job from the queue, this one or an older one, and returns
\* from the route before usage and cost are recorded.
dispatch_now(t) ==
    /\ At(t, "dispatch")
    /\ \/ \E j \in Queued : runtimeJob' = [runtimeJob EXCEPT ![j].ran = spend_check]
       \/ Queued = {} /\ UNCHANGED runtimeJob
    /\ Done(t)
    /\ UNCHANGED <<tenantStore, quotaState, broken>>

meter(t) ==
    /\ At(t, "meter")
    /\ runtimeJob' = [runtimeJob EXCEPT ![call[t].id].usage = @ + 1]
    /\ Step(t, "cost")
    /\ UNCHANGED <<tenantStore, quotaState, broken>>

record_cost(t) ==
    /\ At(t, "cost")
    /\ runtimeJob' = [runtimeJob EXCEPT ![call[t].id].cost = @ + 1]
    /\ Done(t)
    /\ UNCHANGED <<tenantStore, quotaState, broken>>

\* A dispatcher takes the job from the queue, before or after its cost is there.
dispatch_queued(j) ==
    /\ j \in Queued
    /\ spend_check
    /\ runtimeJob' = [runtimeJob EXCEPT ![j].ran = TRUE]
    /\ UNCHANGED <<requestVars, tenantStore, quotaState, broken>>

\* The process stops and starts: requests and counters are gone.
RestartServer ==
    /\ \E t \in Threads : ~ At(t, "idle")
    /\ call' = [t \in Threads |-> Idle]
    /\ used' = 0
    /\ granted' = 0
    /\ crossings' = 0
    /\ highest' = tenant_policy
    /\ broken' = broken \cup {call[t].id : t \in {u \in Threads : call[u].at \in {"meter", "cost"}}}
                        \cup (IF \E t \in Threads : call[t].at \in {"owner", "subscribe"}
                              THEN {"tenant"} ELSE {})
    /\ UNCHANGED <<left, tenantStore, runtimeJob>>

TenantNext ==
    \/ \E t \in Threads :
         \/ \E plan \in DOMAIN PlanLimits :
              \/ \E sa \in BOOLEAN : tenants_create(t, plan, sa)
              \/ tenant_billing_update(t, plan)
         \/ \E limit \in PolicyLimits : tenant_quotas_update(t, limit)
         \/ \E j \in RuntimeJobs, now \in BOOLEAN : ReadPolicy(t, j, now)
         \/ create_tenant(t) \/ add_owner(t) \/ record_subscription(t) \/ update_billing_plan(t)
         \/ check(t) \/ ReadCounter(t) \/ increment(t)
         \/ submit(t) \/ dispatch_now(t) \/ meter(t) \/ record_cost(t)
    \/ \E j \in RuntimeJobs : dispatch_queued(j)
    \/ RestartServer

TenantSpec == RequestsInit /\ TenantInit /\ [][TenantNext]_tenantVars

-----------------------------------------------------------------------------
\* A quota is exceeded only by requests that cross: what is granted is at most
\* the highest limit that was in force and one for each write of the counter
\* that fell between the check of another request and its own write.
QuotaOvershootBounded == granted <= highest + crossings

\* The books of the tenant: a tenant whose creation is not under way has an
\* owner and one subscription, and a job that is not being created has one usage
\* and one cost record, except for the ones created with dispatch_now, which have
\* none, and for what two creations, a service account or a stop broke.
TenantBooksAgree ==
    /\ /\ tenant # "none"
       /\ "tenant" \notin broken
       /\ \A t \in Threads : call[t].op # "create"
       => owner /\ subscribed = 1
    /\ \A j \in RuntimeJobs \ broken :
         /\ runtimeJob[j].made
         /\ \A t \in Threads : call[t].op = "job" => call[t].id # j
         => /\ runtimeJob[j].usage = runtimeJob[j].cost
            /\ runtimeJob[j].cost = IF runtimeJob[j].now THEN 0 ELSE 1

\* The records of a tenant agree: its grants with its limits, its usage with its
\* jobs.
TenantRecordsAgree == QuotaOvershootBounded /\ TenantBooksAgree
=============================================================================
