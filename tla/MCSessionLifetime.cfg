CONSTANTS
    u1 = u1  s1 = s1  s2 = s2
    SessionIds = {s1, s2}
    Users = {u1}
    UserOf <- OneAccount
    Requests = {r1}
    Cycle = cycle
    Backends = {"redis"}
    MaxPairs = 2
    MaxEvents = 2
    None = None
SPECIFICATION Spec
INVARIANT LifetimeIsKept
