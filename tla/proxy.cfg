SPECIFICATION Spec
CONSTANTS
    None = None
    Urls = {u1}
    i1 = i1
    i2 = i2
    i3 = i3
    ClientIds = {i1, i2, i3}
    x = x
    y = y
    Uris = {x, y}
    UriLists <- MCUriLists
    CacheMax = 1
    Lag = 1
    Requests = {r1}
    ShowConsent = TRUE
    RequestTime = 2
    MaxClock = 2
    MaxWrites = 3
SYMMETRY IdSymmetry
CHECK_DEADLOCK FALSE
INVARIANTS
    TypeOK
    SentTogether
    SentFresh
    InvalidClientMeansGone
    RedirectsOnlyToRegistered
    OldClientsDie
