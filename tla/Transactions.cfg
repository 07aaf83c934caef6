CONSTANTS
    Thread = {loop, w1, w2}
    Account = {alice}
    Credential = {c1, c2}
    Cap = 1
    None = None
SPECIFICATION FairSpec
INVARIANTS
    TypeOK
    MutualExclusion
    NothingLeftBehind
    OutcomesAreTrue
PROPERTIES
    ImplementsStore
    LockIsReleased
