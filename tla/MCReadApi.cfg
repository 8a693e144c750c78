SPECIFICATION Spec
CONSTANTS
    Null = Null
    Readers <- Clients
    Tenant <- TenantName
    Users <- UserNames
    Strategy = "ip"
    MaxRequests = 9
    MaxRequestsByRole <- RoleLimits
    MaxRequestsByScope <- ScopeLimits
    Window = 3
    Second = 2
    MaxBuckets = 1
    MaxPageSize = 3
    LogBound = 3
    MaxTime = 4
CONSTRAINT
    OneReadsOrSharersMeet
INVARIANTS
    PagesMissNothing
    AscendingPagesAreExact
    TotalMissesOnlyLate
    DeniedOncePerWindow
    RateIsBounded
CHECK_DEADLOCK FALSE
