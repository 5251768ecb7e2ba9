SPECIFICATION FairSpec
CONSTANTS
    Daemons = {d1}
    Commands = {c1}
    Readers = {r1}
    Restorers = {s1}
    None = None
    MaxRestores = 1
    MaxFaults = 2
INVARIANTS OneWriter WriterHasTheFile ServedClassIsRecorded ReplaysOwnWal
PROPERTIES LockComesBack ImplementsDatabaseFile
