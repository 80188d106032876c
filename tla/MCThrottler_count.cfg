CONSTANTS
    s1 = s1
    s2 = s2
    none = none
    NoSession = none
    Sessions <- MCSessions
    Requests <- MixedRequests
    ChanCap = 2
    Limit = 2
    MaxRequests = 4
    MaxSwaps = 3
SPECIFICATION Spec
CHECK_DEADLOCK FALSE
INVARIANT TypeOK
INVARIANT NoDoubleCount
INVARIANT LostAtMostOnePerSwap
PROPERTY ThrottlerShutdown
