SPECIFICATION Spec
CONSTANTS
    Procs = {p, q, r}
    Inodes = {i1, i2, i3, i4}
    None = None
    MaxTries = 2
SYMMETRY Interchangeable
INVARIANT WatcherIsListed
PROPERTY ImplementsRunLock
