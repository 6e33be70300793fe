SPECIFICATION WorkersSpec
CONSTANTS
    c1 = c1
    Callers <- MCCallers
    LockHolders <- MCCallers
    MaxIds = 2
    MaxAsked = 2
    HandlerThrows = TRUE
    PeerMisbehaves = FALSE
CHECK_DEADLOCK FALSE
INVARIANTS
    ChannelIsSound SupervisionIsSound
PROPERTIES
    CallersReleased 
