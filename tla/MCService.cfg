SPECIFICATION FairSpec
CONSTANTS
    u1 = u1
    u2 = u2
    abs = abs
    rel = rel
    Users = {u1, u2}
    Instance = Instance
    Paths = {abs, rel}
    Absolute = {abs}
    Typed <- MCTyped
    Dir <- MCDir
    Count = 3
    None = None
INVARIANTS
    TaskLoadable
PROPERTIES
    OwnTask
    Retried
