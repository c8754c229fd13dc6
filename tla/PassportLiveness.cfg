SPECIFICATION FairSpec
CONSTANTS
    a = a
    b = b
    h = h
    r1 = r1
    r2 = r2
    Persons = {a, b}
    Properties = {h}
    Requests = {r1, r2}
    Roles = {"read"}
    NoOne = NoOne
    Configured = FALSE
    MaxPeriods = 2
    MaxGrants = 2
    MaxOffers = 1
    MaxSessions = 1
INVARIANTS
    GrantsComeFromOwners
PROPERTIES
    RequestsFinish
