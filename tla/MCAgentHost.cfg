SPECIFICATION MCSpec
CONSTANTS
    NULL = NULL
    Models = {m1}
    GpuModels = {m1}
    MaxChildren = 2
INVARIANTS
    SuspensionSound
    VramReturned
PROPERTIES
    StopCompletes
CHECK_DEADLOCK FALSE
