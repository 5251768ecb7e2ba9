SPECIFICATION Spec
CONSTANTS
    d1 = d1
    d2 = d2
    Objects = {1, 2}
    Daemons = {d1, d2}
    Reprojections = {r1, r2}
    Migrations = {m1}
    Sites <- SomeSites
    None = None
    Batch = 1
    MaxRetries = 1
INVARIANTS SignatureCovers StatusIsOwn
PROPERTIES NextStartRetries ImplementsUpgrade
