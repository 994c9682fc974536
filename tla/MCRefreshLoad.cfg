CONSTANTS
    Repos = {a, b}
    MaxConcurrency = 1
    MaxJobLookups = 2
    FeatureSets <- SomeFeatures
    None = None
SPECIFICATION FairSpec
INVARIANT TypeOK
INVARIANT PermitsWork
INVARIANT PendingIsExact
INVARIANT LossIsNoted
INVARIANT ErrorsAreFatal
PROPERTY KeepsContract
PROPERTY RefreshEnds
