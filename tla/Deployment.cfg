SPECIFICATION Spec
CONSTANTS
    Null = Null
    People = {p1, p2}
    Mailboxes = {boss}
    ADMIN_EMAILS = {boss}
    Passwords = {w1}
    Calls = {c1, c2}
    Docs = {d1, d2}
    Works = {r1, r2}
    Configs <- MCConfigs
    MaxInFlight = 2
    MaxRows = 2
SYMMETRY MCSymmetry
INVARIANTS
    TypeOK
    LoginsFindTheirAccount
    AdminsDescendFromAllowlist
    UploadsStayReadable
    ForgottenStaysForgotten
    ShredsAreRepeatable
