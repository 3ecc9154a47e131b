CONSTANTS
    Selves = {o1, o2, o3}
    Sources = {s1, s2, s3}
    NULL = NULL
    Off = Off
    MaxCred = 1
    MaxHeld = 2
SPECIFICATION FairSpec
INVARIANTS
    TypeOK
    InstancesAccounted
    SharedLeased
    FlushForcesNew
    AssertsUntilFailure
PROPERTIES
    OnlyOwnTimeoutForgets
    StaleForgotten
    InstancesDrain
