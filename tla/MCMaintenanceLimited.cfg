SPECIFICATION AnySpec
CONSTANTS
    r1 = r1  r2 = r2  m1 = m1  c1 = c1  c2 = c2
    n1 = n1  n2 = n2  n3 = n3  u1 = u1  u2 = u2
    key1 = key1  key2 = key2  key3 = key3
    None = None
    Commands = {c1, c2}
    Respawn = 1
    Backoff = 1
    MaxTime = 3
    MaxPlain = 1
    UpdateCrashes = 1
    Profiles = {"free", "paid"}
    ProfileModels = {n1, n2, n3}
    Chains <- MCChains
    RoutesOf <- MCRoutesOf
    Home = u2
    NoKey = NoKey
    Local = {u2}
    Refusals = {"403", "413", "429", "5xx"}
    Models = {m1}
    Runners = {r1, r2}
    VersionOf <- TwoVersions
    LastPhase = 2
    MaxCrashes = 2
    MaxWaits = 2
    MaxBuild = 2
    MaxAsks = 2
    MaxFaults = 0
CHECK_DEADLOCK FALSE
PROPERTY EveryModelSettles
