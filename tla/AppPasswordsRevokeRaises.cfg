CONSTANTS
    User = {alice}
    Password = {p1, p2}
    WrongSecret = wrong
    Worker = {w1, w2}
    CacheTtl = 1
    LastUsedThrottle = 1
    MaxPasswords = 2
    MaxTime = 1
    None = None
SYMMETRY Symmetry
SPECIFICATION Spec
INVARIANTS
    FailedRevokeLeavesNoEntry
