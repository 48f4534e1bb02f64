\* Two executions of one repository, two threads, one crash.
SPECIFICATION Spec
CONSTANTS
    Execs = {e1, e2}
    Principals = {u1}
    Nobody = Nobody
    Threads = {t1, t2}
    Scaffold <- MCScaffold
    Product <- MCProduct
    MaxCrashes = 1
    MaxRuns = 4
 
PROPERTIES BuildOnScaffold
