CONSTANTS
    u1 = u1  u2 = u2  s1 = s1  s2 = s2  s3 = s3
    Users = {u1, u2}
    Sessions = {s1, s2, s3}
    UserOf <- TwoAccounts
    Callers = {c1}
    Refreshes = {r1, r2}
    CacheYields = FALSE
    Requests <- WaitAndPoll
    MaxPublishes = 1
    None = None
SPECIFICATION Spec
VIEW View
SYMMETRY Symmetry
ACTION_CONSTRAINT AnswersFirst
INVARIANT RefusedTokenLeavesNothing
INVARIANT AnswersOwn
