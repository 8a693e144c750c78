SPECIFICATION Spec
CONSTANTS
    Null = Null
    Tenants <- LotTenants
    Actors = {}
    Keys = {}
    AccountInputs <- UserAccounts
    PostInputs <- JournalPosts
    MaxAccounts = 2
    MaxTx = 3
    MaxTime = 1
INVARIANT
    ActiveLotsEqualBalance
