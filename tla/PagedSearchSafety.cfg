CONSTANTS
    e1 = e1
    e2 = e2
    e3 = e3
    e4 = e4
    Entry = {e1, e2, e3, e4}
    Referral = Referral
    NoLimit <- MCNoLimit
    Limits = {0, 1, 2, 3}
    BadLimits <- MCNegative
    PageSize = 2
    MaxReferrals = 2
    MaxChanges = 2
SPECIFICATION FairSpec
INVARIANTS
    TypeOK
    StopsPaging
    OnlyLibraryErrors
PROPERTIES
    MeetsSpec
    BindIsNoQuery
    SearchEnds
CHECK_DEADLOCK FALSE
