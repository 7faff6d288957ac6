SPECIFICATION MCSpec
CONSTANTS
    u1 = u1
    a1 = a1
    a2 = a2
    t1 = t1
    t2 = t2
    m1 = m1
    NULL = NULL
    Agents = {a1, a2}
    Units = {u1}
    Models = {m1}
    Refs = {r1}
    Jobs <- MCJobs1
    Submissions <- MCSubmitReuse
    MaxAttempts = 2
    MaxOrphans = 0
    Backups = TRUE
    k1 = k1
    k2 = k2
    k3 = k3
    Contents <- MCContents
    Callers = {t1, t2}
    MaxRetries = 1
    StoreCapacity = 2
    MaxPulls = 1
    Arrivals = 1
    ChurnEvents = 1
    Plan <- MCPlan
INVARIANTS
    EndsWhole
    ExperimentSound
    TransfersSound
PROPERTIES
    EverythingEnds
CHECK_DEADLOCK FALSE
