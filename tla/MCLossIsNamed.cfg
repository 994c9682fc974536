CONSTANTS
    Repos = {a, b}
    MaxConcurrency = 1
    MaxJobLookups = 1
    FeatureSets <- AllFeatures
    None = None
SPECIFICATION Spec
INVARIANT LossIsNamed
