SPECIFICATION UserSpec
CONSTANTS
    CNs = {u1}
    Server = server
    None = none
    Procs = {p1, p2}
    MaxRequests = 3
    MaxSerial = 5
    MaxCrl = 5
    MaxTrouble = 1
    MaxLosses = 0
SYMMETRY ProcSymmetry
CHECK_DEADLOCK FALSE
INVARIANTS
    StaleRequestIsRefused
    DeletedMeansRevoked
    TombstoneStaysDisabled
