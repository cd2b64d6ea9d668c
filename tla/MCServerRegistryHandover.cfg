SPECIFICATION Spec
CONSTANTS
    b1 = b1  b2 = b2  b3 = b3  r1 = r1
    llama = llama  locals = locals
    Owners = {b1, b2}
    RoleOf <- MCRoleOf
    Engines = {llama, locals}
    Numbers = {1, 2}
    MaxBrokers = 2
    Nobody = Nobody
SYMMETRY BrokerSymmetry
CHECK_DEADLOCK FALSE
INVARIANT OneLocalModel
