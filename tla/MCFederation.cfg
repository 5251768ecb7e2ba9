SPECIFICATION Spec
CONSTANTS
    x = x
    y = y
    Objects = {x, y}
    Huge = {y}
    Entries <- SomeEntries
    None = None
    BatchSize = 2
    MaxObjectFailures = 2
    MaxAttempts = 2
    MaxSeq = 3
    MaxRestores = 1
INVARIANT WatermarkCovers
PROPERTIES KeepsGoing ImplementsChangeFeed
