SPECIFICATION Spec
CONSTANTS
    Entries <- MCEntries
    MaxDecodes = 4
    FetchedEntry <- Good
    Addresses = {pub, other, priv}
    Public = {pub, other}
    Budget = 3
    MaxBytes = 3
INVARIANTS
    TypeOK
    AcceptedIsWhole
    CleanedUp
    GatesAgree
    PathStaysPut
PROPERTIES
    CallerReturns
    LateRequestsReconnect
    AbandonedEnds
CHECK_DEADLOCK FALSE
