SPECIFICATION FairSpec
CONSTANTS
    c1 = c1
    Calls = {c1}
    None = None
    MaxBrokers = 2
    MaxJobs = 3
    MaxLosses = 1
    MaxRetries = 1
    MaxRequeues = 1
CHECK_DEADLOCK FALSE
INVARIANTS NoJobForgotten StopLeavesNothing
PROPERTIES TwinOnlyAfterMove StopEndsCalls
