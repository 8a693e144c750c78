SPECIFICATION Spec
CONSTANTS
    Null = Null
    Keys = {k1, k2}
    MaxOps = 4
INVARIANTS
    StoreIsPast
    PostedOnce
    ConfirmedSurvives
