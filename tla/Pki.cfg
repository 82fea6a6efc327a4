SPECIFICATION Spec
CONSTANTS
    CNs = {u1}
    Server = server
    None = none
    MaxSerial = 3
    MaxCrl = 3
    MaxTrouble = 2
    MaxLosses = 1
CHECK_DEADLOCK FALSE
INVARIANTS
    TypeOK
    SerialsAreUnique
    LeavesTreeRevoked
    RefusedPushIsUndone
PROPERTIES
    CrlNeverGoesBack
    InitKeepsIdentity
