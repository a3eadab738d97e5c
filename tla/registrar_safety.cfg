SPECIFICATION Spec
CONSTANTS
    None = None
    u1 = u1
    u2 = u2
    Urls = {u1}
    Documents <- SafetyDocuments
    c1 = c1
    c2 = c2
    Keys = {c1, c2}
    Down = Down
    Broken = Broken
    Outages = {Down}
    AcceptedUris = {"a"}
    LegacyUris = {"b"}
    AccessLifetime = 2
    MaxStale = 3
    CacheMin = 1
    CacheMax = 2
    RunLimit = 1
    StaleScans = FALSE
    Kinds = {"deploy", "schedule", "revalidate"}
    MaxIds = 3
    MaxClock = 4
    MaxChanges = 2
    MaxFaults = 1
SYMMETRY KeySymmetry
CHECK_DEADLOCK FALSE
INVARIANTS
    TypeOK
    ReadersAgree
    OrphansCostFaults
    ServedClientsExist
    CleanRunRepairs
    CallbacksMatchRow
    FreshMeansSeenNow
    StalenessBounded
    RemovedIsDisabled
PROPERTIES
    RotationIsComplete
    ServedClientsKept
    TokensOutlived
    KeepsPromises
