SPECIFICATION AnySpec
CONSTANTS
    p1 = p1  p2 = p2  p3 = p3  p4 = p4  Gone = gone
    Processes = {p1, p2, p3, p4}
    Nobody = Nobody
    MaxCrashes = 2
    Users = {p1, p2, p3}
    StateFaults = 2
    Runners = {p1, p2}
    ModelFaults = 1
    Writers = {p1, p2, p3}
    MkdirFaults = 1
    Claimers = {p1, p2, p3}
    BenchFaults = 1
CHECK_DEADLOCK FALSE
INVARIANTS ExclusiveWithoutCrash ExclusiveWhenPrompt OneCalibration NoUpdateLost
    WinnersBounded
PROPERTY LeftoversGo
