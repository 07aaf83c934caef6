CONSTANTS
    Title = {t1, t2}
    Attempts = 3
    Refuses = TRUE
    None = None
SPECIFICATION FairSpec
INVARIANTS
    TypeOK
    TrueMeansReady
    GivesUpAfterAll
PROPERTIES
    BootstrapEnds
