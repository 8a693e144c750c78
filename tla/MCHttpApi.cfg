SPECIFICATION HttpSpec
CONSTANTS
    Null = Null
    Tenants <- BothTenants
    Actors <- BothUsers
    Keys <- OneKey
    AccountInputs <- ApiAccounts
    PostInputs <- ApiPosts
    MaxAccounts = 3
    MaxTx = 2
    MaxTime = 1
    Callers <- ApiCallers
    Owners <- ApiOwners
    Headers <- ApiHeaders
INVARIANTS
    TypeOK
    TenantsNetToZero
    RestartKeepsIdempotency
    MembersSpendTheirOwn
CHECK_DEADLOCK FALSE
