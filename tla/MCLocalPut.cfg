SPECIFICATION Spec
CONSTANTS
    Objects = {o1, o2}
    BlobKeys = {k1}
    Procs = {p, q}
    None = None
    LocalStore = TRUE
    SlowOps = FALSE
    MaxFaults = 0
INVARIANT PutBackKeepsContent
CHECK_DEADLOCK FALSE
