CONSTANT MaxSessions = 3
SPECIFICATION FairSpec
INVARIANTS
    TypeOK
    NoSessionForgotten
    NeverHalfOpen
    OneConnectionPerCall
    ErrorTellsCause
    BlockKeepsItsError
PROPERTY EverySessionReleased
CHECK_DEADLOCK FALSE
