SPECIFICATION Spec
CONSTANTS
    Null = Null
    Torn = Torn
    States = {s1, s2, s3}
PROPERTY
    IsStateStore
