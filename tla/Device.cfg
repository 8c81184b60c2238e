SPECIFICATION FairSpec
CONSTANTS
    a = a
    b = b
    old = old
    Unset = Unset
    NKeys = 2
    Value <- MCValue
    Default <- MCDefault
    Offered <- MCOffered
    MAX_FAILED_BOOTS = 2
    FAIL_CAP = 3
INVARIANTS KeepsPromise RollbackEarned
PROPERTIES CrashLoopEnds
