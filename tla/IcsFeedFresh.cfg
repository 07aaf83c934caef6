CONSTANTS
    Content = {c1, c2, c3}
    MaxWrites = 2
    Reverts = FALSE
    User = {u1}
    Feed = {f1}
    Poller = {p1, p2}
    Ip = {i1}
    MaxFeeds = 1
    Limit = 1
    Window = 1
    Throttle = 1
    MaxTime = 0
    None = None
SYMMETRY Symmetry
SPECIFICATION Spec
INVARIANTS
    TypeOK
    SubscriberIsFresh
