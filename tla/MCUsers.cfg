SPECIFICATION UsersSpec
CONSTANTS
    Closed = Closed
    NoUser = NoUser
    u1 = u1
    d1 = d1
    d2 = d2
    p1 = p1
    p2 = p2
    Users = {u1}
    Devices = {d1, d2}
    Passwords = {p1, p2}
    MaxLogins = 2
    MaxGrants = 3
    MaxExpired = 0
    MaxFaults = 1
SYMMETRY Symmetry
INVARIANTS
    KeysAreCurrent HandedOutOnce
PROPERTIES
    CredentialsEnd MessagesArriveOnce VersionsKeepTheirBackup
CHECK_DEADLOCK FALSE
