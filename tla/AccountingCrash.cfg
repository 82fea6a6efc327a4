SPECIFICATION Spec
CONSTANTS
    NConns = 2
    Conns <- MCConns
    Sids <- MCSids
    AddrOf <- MCAddrOf
    Pools = {p1}
    p1 = p1
    MaxCount = 100
    TTL = 1
    Refresh = 1
    Lag = 1
    DelayedDisconnect = TRUE
    TornStatus = FALSE
    MaxTime = 2
    MaxBytes = 1
    MaxCrashes = 1
    MaxFaults = 1
    MaxResets = 1
    MaxSweeps = 0
    MaxPolls = 2
CHECK_DEADLOCK FALSE
INVARIANTS
    TypeOK
    IdentityCountedOnce
PROPERTIES
    ReportsGrow
