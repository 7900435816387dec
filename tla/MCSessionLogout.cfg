SPECIFICATION Spec
CONSTANTS
    Identities = {u1, u2}
    Admins = {u1, u2}
    Clients = {c1}
    Linked = {c1}
    Sessions = {s1, s2}
    Requests = {}
    Families = {}
    Refreshes = {}
    Accesses = {}
    Handlers = {h1}
    Sweepers = {w1, w2}
    None = None
SYMMETRY Symmetry
INVARIANTS
    RevocationIsAnnounced
    SomeAdminActive
