CONSTANTS
    u1 = u1  s1 = s1  s2 = s2
    SessionIds = {s1, s2}
    Users = {u1}
    UserOf <- OneAccount
    Requests = {r1}
    Cycle = cycle
    Backends = {"sqlite", "redis"}
    MaxPairs = 2
    MaxEvents = 2
    None = None
SPECIFICATION Spec
SYMMETRY Symmetry
INVARIANT TypeOK
INVARIANT NewestPairIsStored
INVARIANT CycleIsSparing
INVARIANT CycleReachesAll
PROPERTY DeletedStaysDeleted
PROPERTY DeletedForCause
