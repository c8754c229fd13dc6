SPECIFICATION Spec
CONSTANTS
    a = a
    b = b
    c = c
    h = h
    r1 = r1
    r2 = r2
    Persons = {a, b, c}
    Properties = {h}
    Requests = {r1, r2}
    Roles = {"read"}
    NoOne = NoOne
    Configured = TRUE
    MaxPeriods = 4
    MaxGrants = 0
    MaxOffers = 3
    MaxSessions = 1
SYMMETRY PeopleAndRequests
INVARIANTS
    TypeOK
    OneOwner
    HandoversAreExclusive
    VerifiedPeriodsHaveVerifiedPersons
PROPERTIES
    ImplementsTitleChain
    OnlyRacesBreakOffers
    SettledOffersStaySettled
    OnlyRacesUnmatchSales
