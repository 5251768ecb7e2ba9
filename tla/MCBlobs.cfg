SPECIFICATION Spec
CONSTANTS
    Objects = {o1, o2}
    BlobKeys = {k1, k2}
    Procs = {p, q}
    None = None
    LocalStore = FALSE
    SlowOps = TRUE
    MaxFaults = 1
SYMMETRY Interchangeable
INVARIANT EnsuredRowResolves
CHECK_DEADLOCK FALSE
