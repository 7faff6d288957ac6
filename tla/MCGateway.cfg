SPECIFICATION GatewaySpec
CONSTANTS
    NULL = NULL
    m1 = m1
    m2 = m2
    e1 = e1
    e2 = e2
    e3 = e3
    Requests = {r1, r2, r3}
    Models <- MCModels
    s1 = s1
    s2 = s2
    Bodies <- MCBodies
    Endpoints <- MCEndpoints
    ModelOf <- MCModelOf
    Capacity = 2
    MaxPolls = 1
    AffinityMax = 2
    AffinityTtl = 2
    MaxNow = 2
SYMMETRY MCSymmetry
INVARIANTS
    WaitingRoomSound
    RequestsAccounted
    AffinityOrdered
PROPERTIES
    NoQueueJumping
CHECK_DEADLOCK FALSE
