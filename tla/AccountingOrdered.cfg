SPECIFICATION FairSpec
CONSTANTS
    NConns = 2
    Conns <- MCConns
    Sids <- MCSids
    AddrOf <- MCAddrOf
    Pools = {p1}
    p1 = p1
    MaxCount = 100
    TTL = 1
    Refresh = 1
    Lag = 1
    DelayedDisconnect = FALSE
    TornStatus = FALSE
    MaxTime = 2
    MaxBytes = 2
    MaxCrashes = 0
    MaxFaults = 0
    MaxResets = 1
    MaxSweeps = 0
    MaxPolls = 1
CHECK_DEADLOCK FALSE
INVARIANTS
    FinishedIsCounted
PROPERTIES
    EndIsBanked
