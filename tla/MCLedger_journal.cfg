SPECIFICATION Spec
CONSTANTS
    Null = Null
    Tenants <- LotTenants
    Actors = {}
    Keys = {}
    AccountInputs <- AnyAccounts
    PostInputs <- JournalPosts
    MaxAccounts = 2
    MaxTx = 3
    MaxTime = 1
INVARIANTS
    LotConservation
    NoInternalError
    BalanceIsJournalSum
    NoNegativeBalance
    ReversalIntegrity
    AuditTrail
    RestartKeepsJournal
PROPERTIES
    BatchEnds
    IsJournal
