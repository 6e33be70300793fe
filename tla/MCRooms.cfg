SPECIFICATION RoomsSpec
CONSTANTS
    alice = alice
    bob = bob
    carol = carol
    Users <- MCUsers
    HomeOf <- MCHomeOf
    Policies <- MCPolicies
    Contents <- MCContents
    Rules = {"public", "knock"}
    Tokens = {}
    MaxFaults = 1
    MaxPlain = 1
SYMMETRY Symmetry
INVARIANTS
    RecordsAgree
PROPERTIES
    BannedStayOut
    LevelsOnlyHandedDown
CHECK_DEADLOCK FALSE
