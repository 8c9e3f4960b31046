CONSTANTS
    e1 = e1
    e2 = e2
    e3 = e3
    e4 = e4
    Entry = {e1, e2, e3}
    Referral = Referral
    NoLimit <- MCNoLimit
    Limits = {0, 1, 2, 3}
    BadLimits <- MCNegative
    PageSize = 1
    MaxReferrals = 2
    MaxChanges = 1
SPECIFICATION PagedSpec
INVARIANT NothingEscapes
CHECK_DEADLOCK FALSE
