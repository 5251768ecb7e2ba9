\* A task and an ingest job, one process with two workers and a drain timeout, one fault.
CONSTANTS
    p1 = p1
    p2 = p2
    w1 = w1
    w2 = w2
    Tasks = {t1}
    Ingests = {i1}
    Claims = {1, 2, 3, 4, 5, 6, 7, 8}
    NoClaim = 0
    MaxRetries = 0
    LeaseTTL = 1
    StaleTimeout = 1
    Pools = {p1}
    Workers = {w1, w2}
    PoolOf <- OnePool
    NoJob = NoJob
    NoWorker = NoWorker
    NewString <- LeastString
    DrainSet = TRUE
    MaxFaults = 1
SPECIFICATION FairSpec
INVARIANT OneHandlerPerPool
PROPERTY EveryJobSettles
