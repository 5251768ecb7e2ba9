SPECIFICATION Spec
CONSTANTS
    Daemons = {d1}
    Commands = {c1}
    Readers = {}
    Restorers = {s1}
    None = None
    MaxRestores = 1
    MaxFaults = 2
INVARIANT NeverReplaysOldWal
