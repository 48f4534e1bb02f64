----------------------------- MODULE MCServices -----------------------------
(* One component of the server at a time: a behaviour is one of the part     *)
(* chosen at the start, and the state of the others stays as it was.         *)
EXTENDS Federation, RuntimeSchedules, ServerQueue, Tenancy, ServerBilling, ServerAccess

VARIABLE part

MCAllowed == [a \in Agreements |-> {"review"}]

MCEvery == ("once" :> 0) @@ ("often" :> 1)

MCPlanLimits == [dev |-> 1, team |-> 2]

\* Requests of several steps that may begin in each part
MCBudget == [federation |-> 3, schedules |-> 3, queue |-> 6, tenancy |-> 3, billing |-> 4, access |-> 4]

MCInit ==
    /\ part \in DOMAIN MCBudget
    /\ FedInit /\ SchedInit /\ QueueInit /\ TenantInit /\ BillingInit /\ AccessInit
    /\ call = [t \in Threads |-> Idle]
    /\ left = MCBudget[part]

FedPart ==
    /\ part = "federation"
    /\ FedNext
    /\ UNCHANGED <<part, schedState, queueState, tenantState, billingState, accessState>>

SchedPart ==
    /\ part = "schedules"
    /\ SchedNext
    /\ UNCHANGED <<part, fedState, queueState, tenantState, billingState, accessState>>

QueuePart ==
    /\ part = "queue"
    /\ QueueNext
    /\ UNCHANGED <<part, fedState, schedState, tenantState, billingState, accessState>>

TenancyPart ==
    /\ part = "tenancy"
    /\ TenantNext
    /\ UNCHANGED <<part, fedState, schedState, queueState, billingState, accessState>>

BillingPart ==
    /\ part = "billing"
    /\ BillingNext
    /\ UNCHANGED <<part, fedState, schedState, queueState, tenantState, accessState>>

AccessPart ==
    /\ part = "access"
    /\ AccessNext
    /\ UNCHANGED <<part, fedState, schedState, queueState, tenantState, billingState>>

MCNext == FedPart \/ SchedPart \/ QueuePart \/ TenancyPart \/ BillingPart \/ AccessPart

MCSpec ==
    /\ MCInit
    /\ [][MCNext]_<<part, requestVars, fedState, schedState, queueState, tenantState,
                    billingState, accessState>>

=============================================================================
