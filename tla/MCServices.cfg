SPECIFICATION MCSpec
CONSTANTS
    Threads = {t1, t2}
    MaxRequests = 6
    Agreements = {"a1"}
    Messages = {"m1", "m2"}
    Delegations = {"d1"}
    AllowedTasks <- MCAllowed
    TaskTypes = {"review", "other"}
    GovernedTasks = {"review"}
    Schedules = {"once", "often"}
    Every <- MCEvery
    Workers = {"w"}
    HeartbeatTimeout = 1
    MaxTime = 2
    QueueJobs = {"q1", "q2"}
    MaxTries = 2
    MaxMessages = 5
    PlanLimits <- MCPlanLimits
    PolicyLimits = {1}
    SpendLimit = 1
    RuntimeJobs = {"r1", "r2", "r3"}
    EventKeys = {"k1", "k2"}
    Versions = {"v1"}
    Currencies = {"usd", "eur"}
    AtOnce = {"eur"}
    MaxDeliveries = 2
    Principals = {"p1", "p2"}
    Tokens = {"s1", "s2", "s3"}
    AuditActions = {"grant", "deny"}
    MaxAudit = 3
INVARIANTS FederationRecordsAgree SchedulesAgree 
    TenantRecordsAgree SettlementsFollowProvider UsedOnceUnlessOverlapped
 
CHECK_DEADLOCK FALSE
