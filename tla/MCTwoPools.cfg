\* One task job, two processes, one fault; a handler may run until it is stopped.
CONSTANTS
    p1 = p1
    p2 = p2
    w1 = w1
    w2 = w2
    Tasks = {t1}
    Ingests = {}
    Claims = {1, 2, 3, 4, 5, 6, 7, 8}
    NoClaim = 0
    MaxRetries = 1
    LeaseTTL = 2
    StaleTimeout = 1
    Pools = {p1, p2}
    Workers = {w1, w2}
    PoolOf <- TwoPools
    NoJob = NoJob
    NoWorker = NoWorker
    NewString <- LeastString
    DrainSet = FALSE
    MaxFaults = 1
SPECIFICATION FairSpec
INVARIANTS TypeOK LeaseHolderIsAlone OneRenewer RetryBudget
PROPERTIES StartsUnderLease EveryJobSettles FormerHolderStops ImplementsTaskRun
