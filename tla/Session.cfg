CONSTANTS
    Tab = {t1, t2}
    User = {u1, u2}
    Token = {k1, k2}
    Item = {i1}
    Cap = 1
    Kind = {"password", "event"}
    None = None
SYMMETRY Symmetry
SPECIFICATION Spec
INVARIANTS
    TypeOK
    FormsActForTheirReader
    SecretsReachTheirOwner
    SecretsShownOnce
    OpenFormsWork
    QuietLogoutHolds
