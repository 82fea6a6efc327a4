SPECIFICATION Spec
CONSTANTS
    NConns = 1
    Conns <- MCConns
    Sids <- MCSids
    AddrOf <- MCAddrOf
    Pools = {p1}
    p1 = p1
    MaxCount = 100
    TTL = 1
    Refresh = 1
    Lag = 0
    DelayedDisconnect = FALSE
    TornStatus = FALSE
    MaxTime = 2
    MaxBytes = 1
    MaxCrashes = 0
    MaxFaults = 0
    MaxResets = 0
    MaxSweeps = 0
    MaxPolls = 1
CHECK_DEADLOCK FALSE
INVARIANTS
    SessionCountedOnce
