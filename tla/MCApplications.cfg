SPECIFICATION Spec
CONSTANTS
    Apps = {a1}
    Shapes <- AllShapes
    Urls = {url1, url2}
    Tokens = {t1, t2}
    Reqs = {r1, r2}
    MaxSecret = 4
    None = None
SYMMETRY Symmetry
INVARIANTS
    UpdatesAreNotLost
    HandoverIsPredecessor
    DisabledStaysDead
CHECK_DEADLOCK FALSE
