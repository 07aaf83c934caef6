CONSTANTS
    Request = {r1, r2, r3}
    LimitKey = {k1}
    Limit = 2
    Window = 2
    BodyLimit = 1
    None = None
SPECIFICATION FairSpec
INVARIANTS
    TypeOK
    BurstIsBounded
    AppliedAtMostOnce
PROPERTIES
    LockoutEnds
