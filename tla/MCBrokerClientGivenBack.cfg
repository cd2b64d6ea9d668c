SPECIFICATION Spec
CONSTANTS
    c1 = c1
    Calls = {c1}
    None = None
    MaxBrokers = 2
    MaxJobs = 2
    MaxLosses = 0
    MaxRetries = 3
    MaxRequeues = 10
CHECK_DEADLOCK FALSE
INVARIANT GivenBackNeverFails
