SPECIFICATION AnySpec
CONSTANTS
    a1 = a1  a2 = a2  b1 = b1  m1 = m1  m2 = m2
    Jobs = {a1, a2, b1}
    Models = {m1, m2}
    ModelOf <- MCModelOf
    NoModel = NoModel
    k1 = k1  k2 = k2
    Clients = {k1, k2}
    VersionOf <- MCVersionOf
    Versions = {2}
    Nobody = Nobody
    MaxBrokers = 4
    MaxMishaps = 1
    Slots = 2
    MaxStale = 0
SYMMETRY JobSymmetry
CHECK_DEADLOCK FALSE
INVARIANTS OneServer CurrentIsServer InFlightOnServer NoServerLeftBehind
    OneOpenBroker
PROPERTIES KeepsJobService HeldGoFirst
