\* Every input is examined once it is complete, and goes no further.
SPECIFICATION Spec
CHECK_DEADLOCK FALSE
INVARIANTS
    HistoryIsExact RulesDecide EncodingsAreFaithful PagesAreWhole ReachesWhatItFound
    PlansReachTheirVersion ConnectionsFollow
PROPERTIES
    NotificationsArrive MediaIsKept
