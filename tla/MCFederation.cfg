SPECIFICATION FederationSpec
CONSTANTS
    Nothing = Nothing
    a = a
    b = b
    k1 = k1
    k2 = k2
    s1 = s1
    Threads = {t1, t2}
    Origins = {a, b}
    KeyIds = {k1, k2}
    Published <- KeysOf
    Sources = {s1}
    Requests <- Arrivals
    AllowedServers = {a}
    Routable = {a, b}
    MaxInFlight = 1
    PerIpRate = 1
    RateOf <- Limits
    MaxPdus = 4
    MaxEdus = 1
    MaxAccepted = 1
    NoRemote = NoRemote
    MaxRequests = 3
    MaxTicks = 1
SYMMETRY Sym
INVARIANT ServersAgree
PROPERTIES
    PeersAreHeldToTheirKeys ImplementsLedger OwnKeysVerify
CHECK_DEADLOCK FALSE
