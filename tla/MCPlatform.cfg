SPECIFICATION MCSpec
CONSTANTS
    Threads = {t1, t2}
    MaxRequests = 6
    Subjects = {"u1"}
    Uploads <- MCUploads
    MaxDocuments = 2
    Manifests <- MCManifests
    Customers = {"shop"}
    Rollbacks = {2}
    Policies <- MCPolicies
    Asks <- MCAsks
    RiskLevel = 1
    RequestsPerMinute = 1
    MaxVersions = 2
    MaxSecrets = 2
    Production = FALSE
    ToolKinds <- MCToolKinds
    ConnectorKinds <- MCConnectorKinds
    Operations = {"search"}
    MaxSeconds = 1
    Measurements <- MCMeasurements
    History <- MCHistory
    Outputs <- MCOutputs
    Feedback <- MCFeedback
INVARIANTS
    PlaneRecordsAgree   GovernedExecution
    IntelligenceAgrees 
PROPERTY
    DeletedOnlyOnRequest
CHECK_DEADLOCK FALSE
