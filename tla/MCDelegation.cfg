SPECIFICATION Spec
CONSTANTS
    news = news
    research = research
    Apps = {news, research}
    Perms <- TwoScopes
    Users = {u1}
    Tokens = {t1, t2, t3}
    Reqs = {r1}
    Cuts = {w1, w2}
    None = None
SYMMETRY Symmetry
INVARIANTS
    OnlyRacesOutlivePermission
    WithdrawalEndsDelegation
CHECK_DEADLOCK FALSE
