SPECIFICATION Spec
CONSTANTS
    Null = Null
    Processes = {p1, p2}
    Buckets = {b1, b2}
    PoolSize = 2
    RequestBound = 3
    Routes <- FirstAndThirdMeet
    FailureBound = 1
    Limit <- RoleLimits
    Window = 1
    Interval = 2
    Retention = 1
    BatchSize = 1
    Times = {0, 1, 3}
PROPERTIES
    CleanupDeletesExpiredOnly
CHECK_DEADLOCK FALSE
