SPECIFICATION Spec
CONSTANTS
    Threads = {t1, t2}
    Total <- MCTotal
    Payments = {1, 2}
    DueDays <- MCDueDays
    Windows <- MCWindows
    MaxPayments = 3
    MaxCreates <- MCMaxCreates
SYMMETRY MCSymmetry
INVARIANT
    FinanceRecordsAgree
PROPERTY
    PaidIsFinal
CHECK_DEADLOCK FALSE
