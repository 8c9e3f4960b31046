CONSTANTS
    n = n
    m = m
    n1 = n1
    n2 = n2
    n3 = n3
    m1 = m1
    g1 = g1
    g2 = g2
    u1 = u1
    Group = {g1, g2}
    User = {u1}
    DN = {n1, n2, n3}
    CN <- MCCN
    Gone = Gone
    SearchBase <- MCBase
    MaxChanges = 2
SPECIFICATION GroupsSpec
PROPERTY MeetsSpec
CHECK_DEADLOCK FALSE
