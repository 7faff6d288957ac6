SPECIFICATION MCSpec
CONSTANTS
    NULL = NULL
    Models = {m1}
    GpuModels = {m1}
    MaxChildren = 2
PROPERTIES
    NoStartWhileActive
CHECK_DEADLOCK FALSE
