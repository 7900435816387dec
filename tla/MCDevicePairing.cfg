SPECIFICATION Spec
CONSTANTS
    Codes = {d1, d2}
    Users = {u1}
    Refs = {f1}
    Tokens = {t1, t2}
    Installs = {i1, i2}
    Reqs = {r1, r2}
    MaxSweeps = 1
    None = None
SYMMETRY Symmetry
INVARIANTS
    OneInstallationPerCode
    RevokedInstallationHasNoToken
    CredentialChangeEndsApprovals
    DeviceTokensFollowApprovals
CHECK_DEADLOCK FALSE
