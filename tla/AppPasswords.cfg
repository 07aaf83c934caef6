CONSTANTS
    User = {alice, bob}
    Password = {p1}
    WrongSecret = wrong
    Worker = {w1, w2}
    CacheTtl = 2
    LastUsedThrottle = 1
    MaxPasswords = 1
    MaxTime = 2
    None = None
SYMMETRY Symmetry
SPECIFICATION Spec
INVARIANTS
    TypeOK
    OnlyTheOwnerIsAccepted
    StaleEntriesAreBounded
    NoLateAcceptance
    MarksReachTheDatabase
PROPERTIES
    LastUsedNeverMovesBack
