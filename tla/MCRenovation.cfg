SPECIFICATION MCSpec
CONSTANTS
    Threads = {t1, t2}
    MaxRequests = 5
    Statuses = {"active", "completed"}
    LateDays = {0, 1}
    LogRequests <- MCLogs
    NoteRequests <- MCNotes
    Costs <- MCCosts
    EstimatedCost = 2
    Revenue = 4
    Adjustment = 1
    Leads <- MCLeads
    Opportunities <- MCOpportunities
    CustomerNames = {"ann"}
    LeadChoices = {"contacted", "won"}
    StageChoices = {"proposal", "lost"}
    ContactDates = {"d1"}
    StatusKeys = {"key", "paid", "pending"}
    Payments = {"paid", "pending"}
    LinkKeys = {"linkkey", "i1"}
    Invoices = {"i1", "i2"}
INVARIANTS
      CrmRecordsAgree CompletedRunIsDone
PROPERTIES
    DecisionStands 
CHECK_DEADLOCK FALSE
