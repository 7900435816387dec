SPECIFICATION FairSpec
CONSTANTS
    Txs = {t1}
    Auths = {c1, c2}
    Browsers = {b1, b2}
    Accounts = {a1, a2}
    Subjects = {u1, u2}
    Reqs = {r1, r2, r3}
    MaxCrashes = 2
    None = None
INVARIANTS
    LinksFollowResults
    ActiveLinksAreRecorded
PROPERTY RecordsAreSettled
CHECK_DEADLOCK FALSE
