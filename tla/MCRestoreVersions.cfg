SPECIFICATION Spec
CONSTANTS
    Creds = {}
    Kind <- CredKind
    Users = {u1}
    Links = {l1, l2}
    MaxVersion = 3
    MaxRestores = 1
    None = None
SYMMETRY Symmetry
INVARIANTS
    StatusVersionsIncrease
CHECK_DEADLOCK FALSE
