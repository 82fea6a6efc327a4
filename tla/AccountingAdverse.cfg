SPECIFICATION Spec
CONSTANTS
    NConns = 2
    Conns <- MCConns
    Sids <- MCSids
    AddrOf <- MCAddrOf
    Pools = {p1}
    p1 = p1
    MaxCount = 100
    TTL = 1
    Refresh = 1
    Lag = 1
    DelayedDisconnect = TRUE
    TornStatus = TRUE
    MaxTime = 3
    MaxBytes = 1
    MaxCrashes = 0
    MaxFaults = 1
    MaxResets = 0
    MaxSweeps = 1
    MaxPolls = 0
CHECK_DEADLOCK FALSE
PROPERTIES
    DisconnectTouchesOnlyItsOwn
