SPECIFICATION BatchSpec
CONSTANTS
    u1 = u1
    m1 = m1
    NULL = NULL
    Agents = {a1, a2}
    Units = {u1}
    Models = {m1}
    Refs = {r1, r2}
    Jobs <- MCJobs2
    Submissions <- MCSubmitAdmin
    MaxAttempts = 2
    MaxOrphans = 1
    Backups = TRUE
CONSTRAINT OrphanOrSecond
CHECK_DEADLOCK FALSE
SYMMETRY AgentSymmetry
INVARIANTS
    LeasesDistinct
    CurrentReportAccepted
    IInv
PROPERTIES
    SucceededResultFixed
