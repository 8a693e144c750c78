SPECIFICATION DisciplinedSpec
CONSTANTS
    Null = Null
    Tenants <- LotTenants
    Actors = {}
    Keys = {}
    AccountInputs <- UserAccounts
    PostInputs <- LotPosts
    MaxAccounts = 3
    MaxTx = 3
    MaxTime = 2
INVARIANT
    LotsBackBalances
PROPERTIES
    SpendsAreFefo
    BatchSweepsAll
    BatchNeverFails
