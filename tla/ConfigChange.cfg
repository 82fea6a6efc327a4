SPECIFICATION FairSpec
CONSTANTS
    Requests <- MCRequests
    CNs = {u1}
    Ports = {1, 2, 3, 4}
    Reserved = {4}
    DefPort = 1
    DefExtras = {2}
    Addrs = {"a1", "a2"}
    Placeholder = "UPDATE_VIA_PANEL"
    PublicAddr = "a1"
    InitAddrs = {"UPDATE_VIA_PANEL"}
    Resolvers = {"d1", "d2", "def1", "def2"}
    Def1 = "def1"
    Def2 = "def2"
    Empty = ""
    None = none
    MaxChanges = 2
    MaxBuilds = 1
    MaxTrouble = 1
    MaxCrashes = 1
CHECK_DEADLOCK FALSE
INVARIANTS
    TypeOK
    FailedChangeIsUndone
    ListedPortsLeadToServer
    PushedDnsSurvives
    CachedProfileIsCurrent
PROPERTIES
    ConfComesToBeServed
