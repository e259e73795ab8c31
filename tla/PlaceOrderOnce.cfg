SPECIFICATION FairSpec
CONSTANTS
    a1 = a1
    a2 = a2
    a3 = a3
    a4 = a4
    k1 = k1
    Attempts = {a1, a2, a3, a4}
    Keys = {k1}
    NoKey = NoKey
    None = None
    KeyOf <- OneKey
INVARIANTS TypeOK OneOrderPerKey SuccessIsReal CacheIsTrue
PROPERTIES EveryAttemptEnds
CHECK_DEADLOCK FALSE
