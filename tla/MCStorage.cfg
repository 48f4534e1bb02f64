\* Events: two writers, four events, restarts and failing puts at any point.
\* Store: two processes, four starts, two migrations, three writes of one row.
\* Memory and foundry: two request threads; MCBudget bounds their requests.
SPECIFICATION MCSpec
CONSTANTS
    Writers = {w1, w2}
    NoEvent = NoEvent
    MaxEvents = 4
    Servers = {"s1", "s2"}
    Versions = {1, 2}
    Collections = {"agents", "events", "teams"}
    Registers <- MCRegisters
    Rows = {"row"}
    MaxStarts = 4
    MaxWrites = 3
    Threads = {t1, t2}
    MaxRequests = 5
    MemoryIds = {1, 2, 3}
    Owners = {"a", "b"}
    OwnerOf <- MCOwnerOf
    LegalHold = {2}
    Expired = {1, 2, 3}
    Owner <- MCOwner
    Manifests = {"m1", "m2"}
    Needs <- MCNeeds
    Evidence <- MCEvidence
    Stages = 2
    Tenants = {"A", "B"}
    Releases = {"2.0.0"}
INVARIANTS ChainIntact DurableSeen MigrationsAtomic MemoryRecordsAgree FoundryRecordsAgree
CHECK_DEADLOCK FALSE
