SPECIFICATION AnySpec
CONSTANTS
    b1 = b1  b2 = b2  b3 = b3  r1 = r1
    llama = llama  locals = locals
    Owners = {b1, b2, r1}
    RoleOf <- MCRoleOf
    Engines = {llama, locals}
    Numbers = {1}
    MaxBrokers = 2
    Nobody = Nobody
    q1 = q1  q2 = q2  q3 = q3
    Calls = {q1, q2}
    None = None
    Threshold = 1
    Rungs <- OneRung
    Window = 3
    MaxRetries = 2
    MaxBlanks = 1
    PaidBudget = 1
    c1 = c1  c2 = c2  c3 = c3
    j1 = j1  j2 = j2  j3 = j3  j4 = j4  j5 = j5  j6 = j6
    Commands = {c1, c2, c3}
    Jobs = {j1, j2, j3, j4, j5, j6}
    CommandOf <- MCCommandOf
    NoCommand = NoCommand
    s1 = s1  s2 = s2  p1 = p1  p2 = p2  f1 = f1  f2 = f2
    Slots = {s1, s2}
    Primary <- MCPrimary
    Fallbacks <- MCFallbacks
    NoModel = NoModel
SYMMETRY AnySymmetry
CHECK_DEADLOCK FALSE
INVARIANTS BoundedBypass OnePerSlot OnlyOrphansSwept LiveServersRecorded
    OneBilledBeyond RotationCovers
PROPERTIES SleepersAbort VerdictIsEarned WindowStaysClosed
