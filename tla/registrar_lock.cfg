SPECIFICATION FairSystem
CONSTANTS
    deploy = deploy
    revalidate = revalidate
    Invocations = {deploy, revalidate}
    Wait <- MCWait
    Kind <- MCKind
    Urls = {u}
    MaxEdits = 1
    Timeout = 4
    LockTtl = 6
    Skew = 1
    FirstDelay = 3
    MaxDelay = 4
    MinPause = 2
    NoLock = NoLock
    MaxClock = 7
CHECK_DEADLOCK FALSE
INVARIANTS
    TypeOK
    MutualExclusion
    HolderOwnsLock
    WakesByDeadline
PROPERTIES
    InvocationsEnd
    RunDecides
    RemovedStaysOut
