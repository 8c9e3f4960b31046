CONSTANTS
    r = r
    R = R
    a = a
    A = A
    b = b
    c = c
    d = d
    NoRoot = NoRoot
    ManagerSets <- MCOneManager
    Id = {r, a, b, c}
    DN = {r, a, A, b, c}
    Fold <- MCFold
    NamedInit <- MCNamed
    BatchSizes = {0, 1, 2}
    MaxChanges = 1
SPECIFICATION Spec
INVARIANTS
    TypeOK
    NobodyMissed
    OnlyReports
    EveryoneAsked
    EachUserOnce
    RootNotListed
    NoManagerAskedTwice
PROPERTY MeetsSpec
CHECK_DEADLOCK FALSE
