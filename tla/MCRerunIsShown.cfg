CONSTANTS
    Browsers = {b1, b2}
    Slots = {1, 2}
    Listed = {"pr"}
    Runs = {"run"}
    Backends = {"memory", "redis"}
    MaxEvents = 2
    None = None
SPECIFICATION ViewingSpec
INVARIANT RerunIsShown
CHECK_DEADLOCK FALSE
