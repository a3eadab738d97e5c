SPECIFICATION ConfigSpec
CONSTANTS
    None = None
    Urls = {u1}
    i1 = i1
    i2 = i2
    ClientIds = {i1, i2}
    Containers = {c1}
    UriLists = {x}
    CacheMax = 0
    Lag = 0
    CacheTtl = 2
    ReadTime = 1
    MaxClock = 5
    MaxWrites = 3
    Params = {resource_url, invoke_scope}
    SsmTtl = 3
    MaxVersion = 2
SYMMETRY IdSymmetry
CHECK_DEADLOCK FALSE
INVARIANT
    TypeOK
PROPERTIES
    DisablementBites
    EnablementReaches
    UrlsSettle
