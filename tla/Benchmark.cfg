CONSTANTS
    r = r
    a = a
    b = b
    c = c
    NoRoot = NoRoot
    ManagerSets <- MCManagers
    Id = {r, a, b, c}
    NamedInit <- MCNamed
    MaxChanges = 1
SPECIFICATION Spec
INVARIANTS
    AgreeUnlessCyclic
    ShapeIsTheTrees
    SizeCountsUsers
CHECK_DEADLOCK FALSE
