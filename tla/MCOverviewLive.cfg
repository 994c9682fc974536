CONSTANTS
    u1 = u1  u2 = u2  s1 = s1  s2 = s2  s3 = s3
    Users = {u1}
    Sessions = {s1}
    UserOf <- OneBrowser
    Callers = {c1}
    Refreshes = {r1, r2}
    CacheYields = TRUE
    Requests <- FiveRequests
    MaxPublishes = 2
    None = None
SPECIFICATION FairSpec
PROPERTY EveryCallEnds
