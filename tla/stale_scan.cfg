SPECIFICATION Spec
CONSTANTS
    None = None
    u1 = u1
    u2 = u2
    Urls = {u1}
    Documents <- MCDocuments
    c1 = c1
    c2 = c2
    Keys = {c1, c2}
    Down = Down
    Broken = Broken
    Outages = {Down}
    AcceptedUris = {"a"}
    LegacyUris = {"b"}
    AccessLifetime = 1
    MaxStale = 3
    CacheMin = 1
    CacheMax = 2
    RunLimit = 1
    StaleScans = TRUE
    Kinds = {"schedule"}
    MaxIds = 3
    MaxClock = 4
    MaxChanges = 3
    MaxFaults = 0
CHECK_DEADLOCK FALSE
INVARIANT
    ReadersAgree
