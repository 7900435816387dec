SPECIFICATION Spec
CONSTANTS
    Servers = {s1}
    Rotators = {p1, p2}
    Life = 1
    MinRetain = 2
    Retains = {0, 2, 3}
    MaxKey = 3
    MaxTime = 3
    None = None
SYMMETRY Symmetry
INVARIANTS
    SignedTokensVerify
    DroppedKeysStayDropped
PROPERTIES
    LoadsForEver
CHECK_DEADLOCK FALSE
