SPECIFICATION FairSpec
CONSTANTS
    Conns = {c1, c2, c3}
    Limits = {0, 1, 2}
    VerifyPolls = 1
    MaxChanges = 1
    NoConn = none
CHECK_DEADLOCK FALSE
INVARIANTS
    TypeOK
PROPERTIES
    AdmissionKeepsLimit
    EveryHookReturns
