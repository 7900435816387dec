SPECIFICATION Spec
CONSTANTS
    Users = {u1}
    Admins = {u1}
    Sessions = {s1, s2}
    Creds = {k1}
    Issued = {"recovery"}
    Reqs = {r1, r2}
    MaxPw = 2
    MaxSecret = 1
    MaxStep = 0
    MaxCodes = 1
    None = None
SYMMETRY Symmetry
INVARIANT RecoveryEndsOldSessions
CHECK_DEADLOCK FALSE
