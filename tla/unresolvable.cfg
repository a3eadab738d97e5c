SPECIFICATION Spec
CONSTANTS
    None = None
    u1 = u1
    u2 = u2
    Urls = {u1}
    Documents <- LiveDocuments
    c1 = c1
    c2 = c2
    Keys = {c1, c2}
    Down = Down
    Broken = Broken
    Outages = {Broken}
    AcceptedUris = {"a"}
    LegacyUris = {"b"}
    AccessLifetime = 1
    MaxStale = 2
    CacheMin = 0
    CacheMax = 1
    RunLimit = 1
    StaleScans = FALSE
    Kinds = {"schedule"}
    MaxIds = 3
    MaxClock = 4
    MaxChanges = 1
    MaxFaults = 0
CHECK_DEADLOCK FALSE
INVARIANT
    StalenessBounded
