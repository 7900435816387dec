SPECIFICATION Spec
CONSTANTS
    Users = {u1}
    Admins = {u1}
    Sessions = {s1, s2}
    Creds = {k1}
    Issued = {"mfa_reset"}
    Reqs = {r1, r2}
    MaxPw = 2
    MaxSecret = 2
    MaxStep = 1
    MaxCodes = 2
    None = None
SYMMETRY Symmetry
INVARIANTS
    CodesMatchSecret
    FactorAcceptedOnce
PROPERTY ChangeVerifiedCurrentFactor
CHECK_DEADLOCK FALSE
