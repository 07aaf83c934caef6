CONSTANTS
    Content = {c1}
    MaxWrites = 0
    Reverts = FALSE
    User = {u1}
    Feed = {f1, f2}
    Poller = {p1}
    Ip = {i1}
    MaxFeeds = 1
    Limit = 2
    Window = 2
    Throttle = 2
    MaxTime = 3
    None = None
SYMMETRY Symmetry
SPECIFICATION Spec
INVARIANTS
    FailuresWithinLimit
    UseIsRecorded
