SPECIFICATION Spec
CONSTANTS
    Apps = {a1}
    Shapes <- ServiceShapes
    Urls = {}
    Tokens = {t1, t2}
    Reqs = {r1, r2}
    MaxSecret = 4
    None = None
SYMMETRY Symmetry
INVARIANTS
    DisabledTokensStayDead
CHECK_DEADLOCK FALSE
