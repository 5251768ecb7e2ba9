SPECIFICATION FairSpec
CONSTANTS
    Objects = {o1, o2}
    BlobKeys = {k1}
    Procs = {p, q}
    None = None
    LocalStore = TRUE
    SlowOps = TRUE
    MaxFaults = 1
PROPERTIES OrphansAreSwept RemovedBlobComesBack
CHECK_DEADLOCK FALSE
