CONSTANTS
    Browsers = {b1, b2}
    b1 = b1  b2 = b2
    Slots = {1, 2}
    Listed = {"pr"}
    Runs = {"run"}
    Backends = {"memory", "redis"}
    MaxEvents = 2
    None = None
    Pages = {p1, p2}
    p1 = p1  p2 = p2
    Favorites = {"f1","f2"}
    Grouped = {"g"}
    MaxTotal = 2
    MaxEdits = 2
    Missing = Missing
    Nothing = Nothing
    Day = 2
    StaleAfter = 6
    LongRunAfter = 3
    Bots = {"renovate"}
    Now = 10
    ListedRepos <- MCListedRepos
    RepoAnswers <- MCRepoAnswers
    InboxNodes <- MCInboxNodes
    HygieneNodes <- MCHygieneNodes
    MaxChanges = 3
SPECIFICATION MCSpec
INVARIANT HitIsFresh
INVARIANT MarkedIsWhole
INVARIANT OverviewAgrees
INVARIANT DocumentsSurvive
PROPERTY UncontestedStays
PROPERTY ArrivalsOnlyAdd
PROPERTY WorseNeverLooksBetter
SYMMETRY Symmetry
CHECK_DEADLOCK FALSE
