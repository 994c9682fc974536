CONSTANTS
    u1 = u1  u2 = u2  s1 = s1  s2 = s2  s3 = s3
    Users = {u1}
    Sessions = {s1, s2}
    UserOf <- OneAccount
    Callers = {c1, c2}
    Refreshes = {r1, r2}
    CacheYields = FALSE
    Requests <- FiveRequests
    MaxPublishes = 1
    None = None
SPECIFICATION Spec
INVARIANT AuthenticationErrorIsOwn
