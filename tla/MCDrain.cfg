\* An ingest job, one process with a drain timeout, no fault: no stop, crash or stall.
CONSTANTS
    p1 = p1
    p2 = p2
    w1 = w1
    w2 = w2
    Tasks = {}
    Ingests = {i1}
    Claims = {1, 2, 3, 4, 5, 6, 7, 8}
    NoClaim = 0
    MaxRetries = 1
    LeaseTTL = 2
    StaleTimeout = 1
    Pools = {p1}
    Workers = {w1, w2}
    PoolOf <- OnePool
    NoJob = NoJob
    NoWorker = NoWorker
    NewString <- LeastString
    DrainSet = TRUE
    MaxFaults = 0
SPECIFICATION FairSpec
PROPERTY IngestsSettle
