CONSTANTS
    r = r
    R = R
    a = a
    b = b
    c = c
    NoRoot = NoRoot
    ManagerSets <- MCOneManager
    Id = {r, a, b}
    DN = {r, R, a, b}
    Fold <- MCFold
    NamedInit <- MCNamed
    BatchSizes = {0, 1}
    MaxChanges = 2
SPECIFICATION DirectSpec
INVARIANT OneHop
CHECK_DEADLOCK FALSE
