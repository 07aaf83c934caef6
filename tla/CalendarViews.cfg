CONSTANTS
    Reader = {r1, r2}
    Content = {nothing, c1, c2}
    Empty = nothing
    Months = 2
    MaxWindows = 2
    MaxWrites = 1
    Reverts = FALSE
    Garbles = FALSE
    None = None
SYMMETRY Symmetry
SPECIFICATION Spec
INVARIANTS
    TypeOK
    PageIsFresh
    MemoIsReal
