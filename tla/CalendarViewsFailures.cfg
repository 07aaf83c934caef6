CONSTANTS
    Reader = {r1, r2}
    Content = {nothing, c1}
    Empty = nothing
    Months = 1
    MaxWindows = 2
    MaxWrites = 1
    Reverts = FALSE
    Garbles = TRUE
    None = None
SYMMETRY Symmetry
SPECIFICATION Spec
INVARIANTS
    FailuresAreNotCached
