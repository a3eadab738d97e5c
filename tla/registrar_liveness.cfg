SPECIFICATION FairSpec
CONSTANTS
    None = None
    u1 = u1
    u2 = u2
    c1 = c1
    c2 = c2
    Urls = {u1}
    Documents <- LiveDocuments
    Keys = {c1, c2}
    Down = Down
    Broken = Broken
    Outages = {Down, Broken}
    AcceptedUris = {"a"}
    LegacyUris = {"b"}
    AccessLifetime = 1
    MaxStale = 2
    CacheMin = 0
    CacheMax = 1
    RunLimit = 1
    StaleScans = FALSE
    Kinds = {"schedule", "delete"}
    MaxIds = 3
    MaxClock = 4
    MaxChanges = 1
    MaxFaults = 1
CHECK_DEADLOCK FALSE
PROPERTIES
    ScheduledDeletionHappens
    UnreachableIsDisabled
