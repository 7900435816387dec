SPECIFICATION Spec
CONSTANTS
    Creds = {"one_time"}
    Kind <- CredKind
    Users = {u1}
    Links = {l1, l2}
    MaxVersion = 3
    MaxRestores = 2
    None = None
SYMMETRY Symmetry
INVARIANTS
    RevokedLinksReachApp
    OldSessionsEnd
    SnapshotGrantsDie
CHECK_DEADLOCK FALSE
