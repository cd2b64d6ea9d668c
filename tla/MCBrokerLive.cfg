SPECIFICATION FairBrokerSpec
CONSTANTS
    a1 = a1  a2 = a2  b1 = b1  m1 = m1  m2 = m2
    Jobs = {a1}
    Models = {m1}
    ModelOf <- MCModelOf
    NoModel = NoModel
    k1 = k1  k2 = k2
    Clients = {k1, k2}
    VersionOf <- MCVersionOf
    Versions = {2}
    Nobody = Nobody
    MaxBrokers = 4
    MaxMishaps = 1
    Slots = 2
    MaxStale = 2
CHECK_DEADLOCK FALSE
PROPERTY JobsGetOn
