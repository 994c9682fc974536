CONSTANTS
    c1 = c1  c2 = c2  a = a  b = b  d = d
    Callers = {c1, c2}
    Mixes <- SmallMixes
    Attempts = 3
    MaxEntries = 2
    PageSize = 1
    MaxPages = 2
    ListPages = 2
    Repos <- ThreeRepos
    MaxRuns = 3
    MaxCreated = 1
    MaxReruns = 1
    None = None
SPECIFICATION Spec
INVARIANT TypeOK
INVARIANT FreshBody
INVARIANT RequestBudget
INVARIANT RerunAtMostOnce
INVARIANT LossIsConfined
INVARIANT UsageIsExact
PROPERTY ReadsArePatient
PROPERTY CallsEnd
