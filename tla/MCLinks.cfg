SPECIFICATION FairSpec
CONSTANTS
    Intents = {i1, i2}
    Clients = {c1}
    Keys = {k1, k2}
    Locals = {l1, l2}
    Identities = {u1, u2}
    Txs = {x1, x2}
    MaxCrashes = 1
    None = None
INVARIANTS
    LinkMatchesIntent
    LiveLinksUnique
    ActiveRevocationIsAnnounced
PROPERTIES
    VersionNamesState
    ReservationEnds
CHECK_DEADLOCK FALSE
