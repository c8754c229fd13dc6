SPECIFICATION Spec
CONSTANTS
    a = a
    b = b
    h = h
    r1 = r1
    r2 = r2
    Persons = {a, b}
    Properties = {h}
    Requests = {r1, r2}
    Roles = {"read"}
    NoOne = NoOne
    Configured = FALSE
    MaxPeriods = 3
    MaxGrants = 3
    MaxOffers = 2
    MaxSessions = 1
SYMMETRY PeopleAndRequests
PROPERTIES
    OnlyRacesLeaveGrants
    OnlyRacesDoubleGrants
