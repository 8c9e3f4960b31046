CONSTANTS
    r = r
    R = R
    a = a
    A = A
    b = b
    c = c
    d = d
    NoRoot = NoRoot
    ManagerSets <- MCTwoManagers
    Id = {r, a, b, c}
    DN = {r, a, b, c}
    Fold <- MCFold
    NamedInit <- MCNamedOnce
    BatchSizes = {2, 3}
    MaxChanges = 0
SPECIFICATION FairSpec
INVARIANT BreadthFirst
PROPERTY Terminates
CHECK_DEADLOCK FALSE
