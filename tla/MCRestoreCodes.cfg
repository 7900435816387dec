SPECIFICATION Spec
CONSTANTS
    Creds = {"session", "one_time", "recovery_code"}
    Kind <- CredKind
    Users = {u1}
    Links = {l1}
    MaxVersion = 1
    MaxRestores = 1
    None = None
INVARIANTS
    UsedCredentialsStayUsed
CHECK_DEADLOCK FALSE
