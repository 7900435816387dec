SPECIFICATION Spec
CONSTANTS
    news = news
    research = research
    Apps = {news, research}
    Perms <- TwoScopes
    Users = {u1}
    Tokens = {t1, t2}
    Reqs = {r1}
    Cuts = {w1}
    None = None
SYMMETRY Symmetry
INVARIANTS
    RevokedTargetRefuses
CHECK_DEADLOCK FALSE
