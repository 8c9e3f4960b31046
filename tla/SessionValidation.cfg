CONSTANT MaxSessions = 1
SPECIFICATION Spec
INVARIANT ValidationOffline
CHECK_DEADLOCK FALSE
