SPECIFICATION Spec
CONSTANTS
    Identities = {u1}
    Admins = {}
    Clients = {c1}
    Linked = {}
    Sessions = {s1}
    Requests = {r1}
    Families = {f1}
    Refreshes = {t1, t2}
    Accesses = {a1, a2}
    Handlers = {h1, h2}
    Sweepers = {w1}
    None = None
SYMMETRY Symmetry
INVARIANTS
    GrantMintsOnce
    OneFreshPerFamily
    ReuseKillsFamily
    FamilyBinding
PROPERTIES
    DeadFamilyMintsNothing
    SessionTokenDeathIsFinal
